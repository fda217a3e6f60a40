------------------------ MODULE MCNotificationQueue ------------------------
(* Values of the constants of NotificationQueue for TLC. *)
EXTENDS NotificationQueue, TLC

CONSTANTS u1, u2, d1, d2, c1, c2, n1, n2

OneUser == [n \in Notices |-> u1]
\* n1 an ordinary push; n2 the push of a reminder, or a message of the bot.
PushAndTelegram == n1 :> "push" @@ n2 :> "telegram"

\* No definition names a device.
=============================================================================
