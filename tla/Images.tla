------------------------------- MODULE Images -------------------------------
(***************************************************************************)
(* The images of feed posts and promotions: a file on the server's disk,   *)
(* a row of attachments, and the carrier (post or promotion) that points   *)
(* to the row (services/attachments with feed and promos). The disk is not *)
(* part of the transaction: a file is written before its row is committed  *)
(* and unlinked before its row's deletion is, and the request may still    *)
(* fail in between.                                                        *)
(***************************************************************************)
EXTENDS Naturals, FiniteSets

CONSTANTS
    None,       \* NULL
    Uploads,    \* requests of managers in flight
    Carriers,   \* feed posts and promotions
    Files,      \* storage keys; bound: uploads in a behaviour
    MaxEdits    \* bound: requests begun

VARIABLES
    disk,       \* files under upload_dir
    rows,       \* attachments
    carriers,   \* feed_posts and promotions that exist
    image,      \* image_attachment_id of each carrier
    edit,       \* each request: what it loaded and how far it is
    spoiled,    \* history: files a failed request left behind or unlinked
    forgotten,  \* history: rows overwritten by a request that did not see them
    edits       \* history: requests begun, for the bound

vars == <<disk, rows, carriers, image, edit, spoiled, forgotten, edits>>

Quiet == [step |-> "idle"]
Step(u) == edit[u].step
Ops == {"set", "clear", "delete", "scan"}

Init ==
    /\ disk = {} /\ rows = {}
    /\ carriers \in SUBSET Carriers
    /\ image = [c \in Carriers |-> None]
    /\ edit = [u \in Uploads |-> Quiet]
    /\ spoiled = {} /\ forgotten = {} /\ edits = 0

(***************************************************************************)
(* _load, _load_post: the carrier and its present image. create_from_image *)
(* ("scan") makes a carrier that is not there yet.                         *)
(***************************************************************************)
Load(u, c, op) ==
    /\ Step(u) = "idle" /\ edits < MaxEdits
    /\ IF op = "scan" THEN c \notin carriers ELSE c \in carriers
    /\ op = "scan" => \A v \in Uploads : Step(v) # "idle" => edit[v].c # c
    /\ edits' = edits + 1
    /\ edit' = [edit EXCEPT ![u] =
          [step |-> "loaded", op |-> op, c |-> c, file |-> None,
           previous |-> IF image[c] \in rows THEN image[c] ELSE None]]
    /\ UNCHANGED <<disk, rows, carriers, image, spoiled, forgotten>>

\* Storage keys are random: one in use anywhere is not drawn again.
Busy == {v \in Uploads : Step(v) # "idle"}
InUse == disk \cup rows \cup spoiled \cup UNION {{edit[u].file, edit[u].previous} : u \in Busy}

\* save_image: the file first; the row waits for the commit.
save_image(u) ==
    /\ Step(u) = "loaded" /\ edit[u].op \in {"set", "scan"}
    /\ \E f \in Files \ InUse :
          /\ disk' = disk \cup {f}
          /\ edit' = [edit EXCEPT ![u].step = "saved", ![u].file = f]
    /\ UNCHANGED <<rows, carriers, image, spoiled, forgotten, edits>>

\* Clearing an empty carrier writes nothing.
Writes(u) == ~(edit[u].op = "clear" /\ edit[u].previous = None)

\* The flushed UPDATE or DELETE of the carrier locks its row to the commit.
Locked(c, u) ==
    \E v \in Uploads \ {u} : Step(v) = "flushed" /\ edit[v].c = c /\ Writes(v)

\* remove: the file goes at once, its row with the commit.
Flush(u) ==
    /\ \/ Step(u) = "saved"
       \/ Step(u) = "loaded" /\ edit[u].op \in {"clear", "delete"}
    /\ Writes(u) => /\ ~Locked(edit[u].c, u)
                    /\ edit[u].op \in {"set", "clear"} => edit[u].c \in carriers
    /\ disk' = disk \ {edit[u].previous}
    /\ edit' = [edit EXCEPT ![u].step = "flushed"]
    /\ UNCHANGED <<rows, carriers, image, spoiled, forgotten, edits>>

Written(u) ==
    CASE edit[u].op \in {"set", "scan"} -> edit[u].file
      [] edit[u].op = "delete"          -> None
      [] edit[u].op = "clear"           -> IF Writes(u) THEN None ELSE image[edit[u].c]

Replaced_Forgotten(u) == {}

\* The row of the previous image is deleted; that of another image that came
\* meanwhile is not known to this request.
Replaced(u) == {edit[u].previous}

Commit(u) ==
    /\ Step(u) = "flushed"
    /\ rows' = (rows \cup ({edit[u].file} \ {None})) \ Replaced(u)
    /\ image' = [image EXCEPT ![edit[u].c] = Written(u)]
    /\ carriers' = CASE edit[u].op = "delete" -> carriers \ {edit[u].c}
                     [] edit[u].op = "scan"   -> carriers \cup {edit[u].c}
                     [] OTHER                 -> carriers
    /\ forgotten' = forgotten \cup
         (({image[edit[u].c]} \cap rows) \ {edit[u].previous, Written(u), None})
    /\ edit' = [edit EXCEPT ![u] = Quiet]
    /\ UNCHANGED <<disk, spoiled, edits>>

\* An exception, a lost connection, a restart: the database forgets the
\* request, the disk does not.
Fail(u) ==
    /\ Step(u) # "idle"
    /\ spoiled' = spoiled \cup (({edit[u].file}
                       \cup (IF Step(u) = "flushed" THEN {edit[u].previous} ELSE {})) \ {None})
    /\ edit' = [edit EXCEPT ![u] = Quiet]
    /\ UNCHANGED <<disk, rows, carriers, image, forgotten, edits>>

Next ==
    \E u \in Uploads :
        \/ \E c \in Carriers, op \in Ops : Load(u, c, op)
        \/ save_image(u) \/ Flush(u) \/ Commit(u) \/ Fail(u)

Spec == Init /\ [][Next]_vars

InFlight == {edit[u].file : u \in Busy}
Leaving == {edit[u].previous : u \in {v \in Busy : Step(v) = "flushed"}}

\* Disk, attachments and carriers agree: a row has its file, a file has its
\* row, a row has a carrier that shows it. Only a request that failed halfway
\* breaks the first two, and only a request that did not see the image it
\* replaced breaks the third (set_post_image: "the old one is removed, so
\* that the disk does not grow over").
FilesMatchRows ==
    /\ rows \subseteq disk \cup spoiled \cup Leaving
    /\ disk \subseteq rows \cup spoiled \cup InFlight
    /\ \A f \in rows : f \in forgotten \/ \E c \in carriers : image[c] = f
=============================================================================
