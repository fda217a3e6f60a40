---------------------------- MODULE OfficeProofs ----------------------------
(* Proofs about what the office keeps and sends: files, the feed, the cash    *)
(* lobby, dialogues, broadcasts, the reference lists, wins and promotions.    *)
(* Each part is proved on its instance in Office; the theorems are of Office. *)
EXTENDS Office, FiniteSetTheorems, WellFoundedInduction, TLAPS

-----------------------------------------------------------------------------
(* Images: files on the disk, their rows and what carries them.            *)

\* The one thing the proof asks of the constants: NULL is no storage key.
ImagesNoneIsNoFile == None \notin im_Files

-----------------------------------------------------------------------------
(* The inductive invariant.                                                   *)

ImagesIsEdit(e) ==
    /\ DOMAIN e = {"step", "op", "c", "file", "previous"}
    /\ e.step \in {"loaded", "saved", "flushed"} /\ e.op \in Images!Ops /\ e.c \in im_Carriers
    /\ e.step = "loaded" => e.file = None
    /\ e.step = "saved" => e.op \in {"set", "scan"}
    /\ e.step # "loaded" /\ e.op \in {"set", "scan"} => e.file # None
    /\ e.op \in {"clear", "delete"} => e.file = None

ImagesShape ==
    /\ DOMAIN im_edit = im_Uploads /\ DOMAIN im_image = im_Carriers /\ im_carriers \subseteq im_Carriers
    /\ None \notin im_disk /\ None \notin im_rows
    /\ \A u \in im_Uploads : im_edit[u] = Images!Quiet \/ (Images!Step(u) # "idle" /\ ImagesIsEdit(im_edit[u]))

\* A file of a request under way is on the disk, has no row yet, and is nobody
\* else's.
ImagesFilesAreFresh ==
    \A u \in Images!Busy : im_edit[u].file # None =>
        /\ im_edit[u].file \in im_disk \ im_rows
        /\ \A v \in Images!Busy : /\ im_edit[v].previous # im_edit[u].file
                                  /\ v # u => im_edit[v].file # im_edit[u].file

\* What a request removes is off the disk before it commits.
ImagesRemovedFirst == \A u \in Images!Busy : Images!Step(u) = "flushed" => im_edit[u].previous \notin im_disk

\* From the flush to the commit the row of the carrier is locked.
ImagesLockHolds ==
    \A u \in Images!Busy : Images!Step(u) = "flushed" /\ Images!Writes(u) =>
        /\ im_edit[u].op \in {"set", "clear"} => im_edit[u].c \in im_carriers
        /\ \A v \in Images!Busy \ {u} :
              ~(Images!Step(v) = "flushed" /\ Images!Writes(v) /\ im_edit[v].c = im_edit[u].c)

ImagesIInv == ImagesShape /\ ImagesFilesAreFresh /\ ImagesRemovedFirst /\ ImagesLockHolds /\ Images!FilesMatchRows

-----------------------------------------------------------------------------
(* The steps.                                                                 *)

LEMMA ImagesInitial == Images!Init => ImagesIInv
    BY DEF Images!Init, ImagesIInv, ImagesShape, ImagesFilesAreFresh, ImagesRemovedFirst, ImagesLockHolds, Images!FilesMatchRows, Images!Busy, Images!Step, Images!Quiet

\* A request that changes its own record alone.
LEMMA ImagesOthersStay ==
    ASSUME ImagesShape, NEW u \in im_Uploads, NEW e, im_edit' = [im_edit EXCEPT ![u] = e]
    PROVE  /\ DOMAIN im_edit' = im_Uploads /\ im_edit'[u] = e
           /\ \A v \in im_Uploads \ {u} : im_edit'[v] = im_edit[v]
           /\ e.step # "idle" => Images!Busy' = Images!Busy \cup {u}
           /\ e.step = "idle" => Images!Busy' = Images!Busy \ {u}
           /\ Images!Busy \subseteq im_Uploads
    BY DEF ImagesShape, Images!Busy, Images!Step

LEMMA ImagesLoadKeeps ==
    ASSUME ImagesIInv, NEW u \in im_Uploads, NEW c \in im_Carriers, NEW op \in Images!Ops, Images!Load(u, c, op)
    PROVE  ImagesIInv'
    <1> DEFINE e == [step |-> "loaded", op |-> op, c |-> c, file |-> None,
                     previous |-> IF im_image[c] \in im_rows THEN im_image[c] ELSE None]
    <1>1. /\ im_edit' = [im_edit EXCEPT ![u] = e] /\ Images!Step(u) = "idle"
          /\ UNCHANGED <<im_disk, im_rows, im_carriers, im_image, im_spoiled, im_forgotten>>
        BY DEF Images!Load
    <1>2. /\ DOMAIN im_edit' = im_Uploads /\ im_edit'[u] = e /\ u \notin Images!Busy
          /\ \A v \in im_Uploads \ {u} : im_edit'[v] = im_edit[v]
          /\ Images!Busy' = Images!Busy \cup {u} /\ Images!Busy \subseteq im_Uploads
        <2>1. e.step # "idle" /\ ImagesShape /\ u \notin Images!Busy
            BY <1>1 DEF ImagesIInv, Images!Busy
        <2> HIDE DEF e
        <2> QED  BY <1>1, <2>1, ImagesOthersStay
    <1>3. /\ ImagesIsEdit(e) /\ e.file = None /\ e.step = "loaded"
          /\ e.previous = None \/ e.previous \in im_rows
        BY DEF ImagesIsEdit
    <1> HIDE DEF e
    <1>4. ImagesShape'
        BY <1>1, <1>2, <1>3 DEF ImagesIInv, ImagesShape, Images!Step
    <1>5. ImagesFilesAreFresh'
        BY <1>1, <1>2, <1>3 DEF ImagesIInv, ImagesFilesAreFresh
    <1>6. ImagesRemovedFirst'
        BY <1>1, <1>2, <1>3 DEF ImagesIInv, ImagesRemovedFirst, Images!Step
    <1>7. ImagesLockHolds'
        BY <1>1, <1>2, <1>3 DEF ImagesIInv, ImagesLockHolds, Images!Step, Images!Writes
    <1>8. Images!FilesMatchRows'
        BY <1>1, <1>2, <1>3 DEF ImagesIInv, Images!FilesMatchRows, Images!Leaving, Images!InFlight, Images!Step
    <1> QED  BY <1>4, <1>5, <1>6, <1>7, <1>8 DEF ImagesIInv

LEMMA ImagesSaveKeeps ==
    ASSUME ImagesNoneIsNoFile, ImagesIInv, NEW u \in im_Uploads, Images!save_image(u)
    PROVE  ImagesIInv'
    <1>1. PICK f \in im_Files \ Images!InUse :
              /\ im_disk' = im_disk \cup {f}
              /\ im_edit' = [im_edit EXCEPT ![u].step = "saved", ![u].file = f]
        BY DEF Images!save_image
    <1> DEFINE e == [[im_edit[u] EXCEPT !.step = "saved"] EXCEPT !.file = f]
    <1>2. /\ im_edit' = [im_edit EXCEPT ![u] = e] /\ u \in Images!Busy /\ ImagesIsEdit(im_edit[u])
          /\ im_edit[u].op \in {"set", "scan"} /\ Images!Step(u) = "loaded"
          /\ UNCHANGED <<im_rows, im_carriers, im_image, im_spoiled, im_forgotten>>
        <2>1. /\ u \in Images!Busy /\ ImagesIsEdit(im_edit[u])
              /\ im_edit[u].op \in {"set", "scan"} /\ Images!Step(u) = "loaded"
              /\ UNCHANGED <<im_rows, im_carriers, im_image, im_spoiled, im_forgotten>>
            BY DEF Images!save_image, Images!Busy, ImagesIInv, ImagesShape, Images!Step, Images!Quiet
        <2> QED  BY <1>1, <2>1 DEF ImagesIInv, ImagesShape
    <1>3. /\ e.step = "saved" /\ e.file = f /\ e.op = im_edit[u].op /\ e.c = im_edit[u].c
          /\ e.previous = im_edit[u].previous /\ f # None /\ ImagesIsEdit(e)
        BY <1>2 DEF ImagesIsEdit, ImagesNoneIsNoFile
    <1> HIDE DEF e
    <1>4. /\ DOMAIN im_edit' = im_Uploads /\ im_edit'[u] = e
          /\ \A v \in im_Uploads \ {u} : im_edit'[v] = im_edit[v]
          /\ Images!Busy' = Images!Busy /\ Images!Busy \subseteq im_Uploads
        <2>1. e.step # "idle" /\ ImagesShape /\ Images!Busy \cup {u} = Images!Busy
            BY <1>2, <1>3 DEF ImagesIInv
        <2> QED  BY <1>2, <2>1, ImagesOthersStay
    <1>5. f \notin im_disk \cup im_rows \cup im_spoiled /\ \A v \in Images!Busy : f # im_edit[v].file /\ f # im_edit[v].previous
        BY <1>1 DEF Images!InUse
    <1>6. ImagesShape'
        BY <1>1, <1>2, <1>3, <1>4 DEF ImagesIInv, ImagesShape, Images!Step
    <1>7. ImagesFilesAreFresh'
        BY <1>1, <1>2, <1>3, <1>4, <1>5 DEF ImagesIInv, ImagesFilesAreFresh
    <1>8. ImagesRemovedFirst'
        BY <1>1, <1>2, <1>3, <1>4, <1>5 DEF ImagesIInv, ImagesRemovedFirst, Images!Step
    <1>9. ImagesLockHolds'
        BY <1>2, <1>3, <1>4 DEF ImagesIInv, ImagesLockHolds, Images!Step, Images!Writes
    <1>10. Images!FilesMatchRows'
        <2>1. Images!Leaving' = Images!Leaving
            BY <1>2, <1>3, <1>4 DEF Images!Leaving, Images!Step
        <2>2. Images!InFlight \ {None} \subseteq Images!InFlight' /\ f \in Images!InFlight'
            BY <1>2, <1>3, <1>4 DEF Images!InFlight, ImagesIsEdit, Images!Step
        <2> QED  BY <1>1, <1>2, <2>1, <2>2 DEF ImagesIInv, ImagesShape, Images!FilesMatchRows
    <1> QED  BY <1>6, <1>7, <1>8, <1>9, <1>10 DEF ImagesIInv

LEMMA ImagesFlushKeeps ==
    ASSUME ImagesIInv, NEW u \in im_Uploads, Images!Flush(u)
    PROVE  ImagesIInv'
    <1> DEFINE e == [im_edit[u] EXCEPT !.step = "flushed"]
    <1>1. /\ im_edit' = [im_edit EXCEPT ![u] = e] /\ im_disk' = im_disk \ {im_edit[u].previous}
          /\ u \in Images!Busy /\ ImagesIsEdit(im_edit[u]) /\ Images!Step(u) # "flushed"
          /\ Images!Writes(u) => /\ ~Images!Locked(im_edit[u].c, u)
                                 /\ im_edit[u].op \in {"set", "clear"} => im_edit[u].c \in im_carriers
          /\ UNCHANGED <<im_rows, im_carriers, im_image, im_spoiled, im_forgotten>>
        BY DEF Images!Flush, Images!Busy, ImagesIInv, ImagesShape, Images!Step, Images!Quiet
    <1>2. /\ e.step = "flushed" /\ e.file = im_edit[u].file /\ e.op = im_edit[u].op /\ e.c = im_edit[u].c
          /\ e.previous = im_edit[u].previous /\ ImagesIsEdit(e)
        BY <1>1 DEF ImagesIsEdit, Images!Flush, Images!Step
    <1> HIDE DEF e
    <1>3. /\ DOMAIN im_edit' = im_Uploads /\ im_edit'[u] = e
          /\ \A v \in im_Uploads \ {u} : im_edit'[v] = im_edit[v]
          /\ Images!Busy' = Images!Busy /\ Images!Busy \subseteq im_Uploads
        <2>1. e.step # "idle" /\ ImagesShape /\ Images!Busy \cup {u} = Images!Busy
            BY <1>1, <1>2 DEF ImagesIInv
        <2> QED  BY <1>1, <2>1, ImagesOthersStay
    <1>4. ImagesShape'
        BY <1>1, <1>2, <1>3 DEF ImagesIInv, ImagesShape, Images!Step
    <1>5. ImagesFilesAreFresh'
        BY <1>1, <1>2, <1>3 DEF ImagesIInv, ImagesFilesAreFresh
    <1>6. ImagesRemovedFirst'
        BY <1>1, <1>2, <1>3 DEF ImagesIInv, ImagesRemovedFirst, Images!Step
    <1>7. ImagesLockHolds'
        <2>1. \A v \in im_Uploads : Images!Writes(v)' = Images!Writes(v)
            BY <1>2, <1>3 DEF Images!Writes
        <2>2. \A v \in Images!Busy \ {u} : Images!Writes(u) => ~(Images!Step(v) = "flushed" /\ Images!Writes(v) /\ im_edit[v].c = im_edit[u].c)
            BY <1>1, <1>3 DEF Images!Locked
        <2> QED  BY <1>1, <1>2, <1>3, <2>1, <2>2 DEF ImagesIInv, ImagesLockHolds, Images!Step
    <1>8. Images!FilesMatchRows'
        <2>1. Images!Leaving' = Images!Leaving \cup {im_edit[u].previous}
            BY <1>1, <1>2, <1>3 DEF Images!Leaving, Images!Step
        <2>2. Images!InFlight' = Images!InFlight
            BY <1>1, <1>2, <1>3 DEF Images!InFlight
        <2> QED  BY <1>1, <2>1, <2>2 DEF ImagesIInv, Images!FilesMatchRows
    <1> QED  BY <1>4, <1>5, <1>6, <1>7, <1>8 DEF ImagesIInv

LEMMA ImagesCommitKeeps ==
    ASSUME ImagesIInv, NEW u \in im_Uploads, Images!Commit(u)
    PROVE  ImagesIInv'
    <1> DEFINE file == im_edit[u].file
               previous == im_edit[u].previous
               c == im_edit[u].c
    <1>1. /\ im_rows' = (im_rows \cup ({file} \ {None})) \ {previous}
          /\ im_image' = [im_image EXCEPT ![c] = Images!Written(u)]
          /\ im_edit' = [im_edit EXCEPT ![u] = Images!Quiet] /\ Images!Step(u) = "flushed"
          /\ im_disk' = im_disk /\ im_spoiled' = im_spoiled
        BY DEF Images!Commit, Images!Replaced
    <1>2. u \in Images!Busy /\ ImagesIsEdit(im_edit[u]) /\ c \in im_Carriers
        BY <1>1 DEF Images!Busy, ImagesIInv, ImagesShape, Images!Step, Images!Quiet, ImagesIsEdit
    <1>3. /\ DOMAIN im_edit' = im_Uploads /\ im_edit'[u] = Images!Quiet
          /\ \A v \in im_Uploads \ {u} : im_edit'[v] = im_edit[v]
          /\ Images!Busy' = Images!Busy \ {u} /\ Images!Busy \subseteq im_Uploads
        <2>1. Images!Quiet.step = "idle" /\ ImagesShape /\ u \in Images!Busy
            BY <1>1 DEF ImagesIInv, Images!Busy, Images!Quiet, Images!Step
        <2> QED  BY <1>1, <2>1, ImagesOthersStay
    <1>4. \A v \in Images!Busy' : v \in Images!Busy /\ v # u /\ im_edit'[v] = im_edit[v] /\ (Images!Writes(v)' <=> Images!Writes(v))
        BY <1>3 DEF Images!Writes
    <1>5. im_carriers \ {c} \subseteq im_carriers' /\ (c \in im_carriers' \/ im_edit[u].op = "delete"
                                                          \/ (c \notin im_carriers /\ im_carriers' = im_carriers))
        BY <1>2 DEF Images!Commit, ImagesIsEdit, Images!Ops
    <1>6. ImagesShape'
        <2>1. im_carriers' \subseteq im_Carriers
            BY <1>2 DEF Images!Commit, ImagesIInv, ImagesShape
        <2> QED  BY <1>1, <1>3, <2>1 DEF ImagesIInv, ImagesShape, Images!Step
    <1>7. ImagesFilesAreFresh'
        BY <1>1, <1>2, <1>4 DEF ImagesIInv, ImagesFilesAreFresh
    <1>8. ImagesRemovedFirst'
        BY <1>1, <1>4 DEF ImagesIInv, ImagesRemovedFirst, Images!Step
    <1>9. ImagesLockHolds'
        <2>1. im_edit[u].op = "delete" => Images!Writes(u)
            BY DEF Images!Writes
        <2>2. \A v \in Images!Busy' : Images!Step(v) = "flushed" /\ Images!Writes(v) /\ im_edit[v].op \in {"set", "clear"}
                    => im_edit[v].c \in im_carriers /\ (im_edit[u].op = "delete" => im_edit[v].c # c)
            BY <1>1, <1>2, <1>4, <2>1 DEF ImagesIInv, ImagesLockHolds
        <2>3. \A v \in Images!Busy' : Images!Step(v) = "flushed" /\ Images!Writes(v) /\ im_edit[v].op \in {"set", "clear"}
                    => im_edit[v].c \in im_carriers'
            BY <1>5, <2>2
        <2> QED  BY <1>4, <2>3 DEF ImagesIInv, ImagesLockHolds, Images!Step
    <1>10. im_rows' \subseteq im_disk' \cup im_spoiled' \cup Images!Leaving'
        <2>1. Images!Leaving \subseteq Images!Leaving' \cup {previous}
            BY <1>4, <1>3 DEF Images!Leaving, Images!Step
        <2>2. file # None => file \in im_disk
            BY <1>2 DEF ImagesIInv, ImagesFilesAreFresh
        <2> QED  BY <1>1, <2>1, <2>2 DEF ImagesIInv, Images!FilesMatchRows
    <1>11. im_disk' \subseteq im_rows' \cup im_spoiled' \cup Images!InFlight'
        <2>1. Images!InFlight \subseteq Images!InFlight' \cup {file}
            BY <1>4, <1>3 DEF Images!InFlight
        <2>2. previous \notin im_disk
            BY <1>1, <1>2 DEF ImagesIInv, ImagesRemovedFirst
        <2> QED  BY <1>1, <2>1, <2>2 DEF ImagesIInv, ImagesShape, Images!FilesMatchRows
    <1>12. ASSUME NEW f \in im_rows'
           PROVE  f \in im_forgotten' \/ \E d \in im_carriers' : im_image'[d] = f
        <2>1. f # None /\ f # previous /\ (f \in im_rows \/ f = file)
            BY <1>1 DEF ImagesIInv, ImagesShape
        <2>2. im_forgotten' = im_forgotten \cup (({im_image[c]} \cap im_rows) \ {previous, Images!Written(u), None})
            BY DEF Images!Commit
        <2>3. im_image'[c] = Images!Written(u) /\ \A d \in im_Carriers \ {c} : im_image'[d] = im_image[d]
            BY <1>1, <1>2 DEF ImagesIInv, ImagesShape
        <2>4. CASE f = file
            <3>1. im_edit[u].op \in {"set", "scan"} /\ Images!Written(u) = f /\ Images!Writes(u)
                BY <1>2, <2>1, <2>4 DEF ImagesIsEdit, Images!Ops, Images!Written, Images!Writes
            <3>2. c \in im_carriers'
                BY <1>1, <1>2, <3>1 DEF ImagesIInv, ImagesLockHolds, Images!Commit
            <3> QED  BY <2>3, <3>1, <3>2
        <2>5. CASE f \in im_rows /\ f \notin im_forgotten
            <3>1. PICK d \in im_carriers : im_image[d] = f
                BY <2>5 DEF ImagesIInv, Images!FilesMatchRows
            <3>2. CASE d # c
                <4>1. d \in im_Carriers /\ d \in im_carriers'
                    BY <1>5, <3>1, <3>2 DEF ImagesIInv, ImagesShape
                <4> QED  BY <2>3, <3>1, <3>2, <4>1
            <3>3. CASE d = c /\ f = Images!Written(u)
                <4>1. im_edit[u].op # "delete"
                    BY <2>1, <3>3 DEF Images!Written
                <4> QED  BY <1>5, <2>3, <3>1, <3>3, <4>1
            <3>4. CASE d = c /\ f # Images!Written(u)
                BY <2>1, <2>2, <2>5, <3>1, <3>4
            <3> QED  BY <3>2, <3>3, <3>4
        <2> QED  BY <2>1, <2>2, <2>4, <2>5
    <1> QED  BY <1>6, <1>7, <1>8, <1>9, <1>10, <1>11, <1>12 DEF ImagesIInv, Images!FilesMatchRows

LEMMA ImagesFailKeeps ==
    ASSUME ImagesIInv, NEW u \in im_Uploads, Images!Fail(u)
    PROVE  ImagesIInv'
    <1>1. /\ im_edit' = [im_edit EXCEPT ![u] = Images!Quiet] /\ Images!Step(u) # "idle"
          /\ im_spoiled' = im_spoiled \cup (({im_edit[u].file}
                 \cup (IF Images!Step(u) = "flushed" THEN {im_edit[u].previous} ELSE {})) \ {None})
          /\ UNCHANGED <<im_disk, im_rows, im_carriers, im_image, im_forgotten>>
        BY DEF Images!Fail
    <1>2. /\ DOMAIN im_edit' = im_Uploads /\ im_edit'[u] = Images!Quiet /\ u \in Images!Busy
          /\ \A v \in im_Uploads \ {u} : im_edit'[v] = im_edit[v]
          /\ Images!Busy' = Images!Busy \ {u} /\ Images!Busy \subseteq im_Uploads
        <2>1. Images!Quiet.step = "idle" /\ ImagesShape /\ u \in Images!Busy
            BY <1>1 DEF ImagesIInv, Images!Busy, Images!Quiet, Images!Step
        <2> QED  BY <1>1, <2>1, ImagesOthersStay
    <1>3. ImagesShape'
        BY <1>1, <1>2 DEF ImagesIInv, ImagesShape, Images!Step
    <1>4. ImagesFilesAreFresh'
        BY <1>1, <1>2 DEF ImagesIInv, ImagesFilesAreFresh
    <1>5. ImagesRemovedFirst'
        BY <1>1, <1>2 DEF ImagesIInv, ImagesRemovedFirst, Images!Step
    <1>6. ImagesLockHolds'
        BY <1>1, <1>2 DEF ImagesIInv, ImagesLockHolds, Images!Step, Images!Writes
    <1>7. Images!FilesMatchRows'
        <2>1. Images!Leaving \subseteq Images!Leaving' \cup (IF Images!Step(u) = "flushed" THEN {im_edit[u].previous} ELSE {})
            BY <1>2 DEF Images!Leaving, Images!Step
        <2>2. Images!InFlight \subseteq Images!InFlight' \cup {im_edit[u].file}
            BY <1>2 DEF Images!InFlight
        <2> QED  BY <1>1, <2>1, <2>2 DEF ImagesIInv, ImagesShape, Images!FilesMatchRows
    <1> QED  BY <1>3, <1>4, <1>5, <1>6, <1>7 DEF ImagesIInv

LEMMA ImagesInductive == ASSUME ImagesNoneIsNoFile, ImagesIInv, [Images!Next]_(Images!vars) PROVE ImagesIInv'
    <1>1. ASSUME UNCHANGED Images!vars PROVE ImagesIInv'
        BY <1>1 DEF Images!vars, ImagesIInv, ImagesShape, ImagesFilesAreFresh, ImagesRemovedFirst, ImagesLockHolds, Images!FilesMatchRows,
            Images!Busy, Images!Step, Images!Writes, Images!Leaving, Images!InFlight
    <1> QED  BY <1>1, ImagesLoadKeeps, ImagesSaveKeeps, ImagesFlushKeeps, ImagesCommitKeeps, ImagesFailKeeps DEF Images!Next

\* Disk, attachments and carriers agree through every interleaving and failure
\* of the requests (save_image, remove, set_post_image), but for the files and
\* rows on record as spoiled or forgotten.
LEMMA ImagesDiskMatchesRows == ASSUME ImagesNoneIsNoFile PROVE Images!Spec => []Images!FilesMatchRows
    <1>1. ImagesIInv /\ [Images!Next]_(Images!vars) => ImagesIInv'
        BY ImagesInductive
    <1>2. ImagesIInv => Images!FilesMatchRows
        BY DEF ImagesIInv
    <1> QED  BY ImagesInitial, <1>1, <1>2, PTL DEF Images!Spec

\* A behaviour of the office is one of Images, with its steps or none.
LEMMA ImagesPart == Init /\ [][Next]_vars => Images!Spec
    <1>1. Init => Images!Init
        BY DEF Init
    <1>2. [Next]_vars => [Images!Next]_(Images!vars)
        <2>1. UNCHANGED imagesVars => UNCHANGED Images!vars
            BY DEF imagesVars, Images!vars
        <2> QED  BY <2>1 DEF Next, vars
    <1> QED  BY <1>1, <1>2, PTL DEF Images!Spec

\* Disk, attachments and carriers agree through every interleaving and failure
\* of the requests (save_image, remove, set_post_image), but for the files and
\* rows on record as spoiled or forgotten.
THEOREM DiskMatchesRows == ASSUME ImagesNoneIsNoFile PROVE Spec => []FilesMatchRows
    BY ImagesDiskMatchesRows, ImagesPart, PTL DEF Spec, FilesMatchRows

-----------------------------------------------------------------------------
(* Feed: what a manager took off, and the front page.                      *)

\* The sets of the module are counted as everywhere.
LEMMA FeedCount == \A S : Feed!Cardinality(S) = Cardinality(S)
    BY DEF Feed!Cardinality, Cardinality

\* Times are numbers, of which NULL is none.
FeedTimesGiven ==
    /\ None \notin Int
    /\ \A s \in fd_Starts : fd_Grid[s].at \in Int
    /\ \A b \in fd_Bodies : b.delay \in Int \cup {None} /\ b.life \in Int \cup {None}

FeedPost(p) ==
        /\ DOMAIN p = {"kind", "pinned", "published", "expires"}
        /\ p.published \in Int

\* What the loop has read is dated.
FeedPassType ==
    \/ fd_pass = Feed!Quiet
    \/ fd_pass.step = "read" /\ fd_pass.at \in Int /\ fd_pass.new \subseteq fd_Starts /\ fd_pass.kind # "none"

\* A start taken off the feed keeps its post, over since it began; a post by
\* hand is gone.
FeedTakenIsOver ==
    \A p \in fd_taken :
        /\ p \in fd_Starts \cup fd_Manual
        /\ p \in fd_Starts => Feed!Exists(p) /\ fd_posts[p].expires = fd_posts[p].published
        /\ p \notin fd_Starts => ~Feed!Exists(p)

FeedFeedInv ==
    /\ fd_now \in Int /\ FeedPassType
    /\ DOMAIN fd_posts = fd_Starts \cup fd_Manual
    /\ \A p \in fd_Starts \cup fd_Manual : FeedPost(fd_posts[p])
    /\ FeedTakenIsOver

LEMMA FeedFeedInvInit == Feed!Init => FeedFeedInv
    BY DEF Feed!Init, FeedFeedInv, FeedPassType, FeedPost, Feed!NoPost, FeedTakenIsOver

\* Writing one post keeps the others.
LEMMA FeedWriteOne ==
    ASSUME FeedFeedInv, NEW p \in fd_Starts \cup fd_Manual, NEW post, FeedPost(post), Feed!Write(p, post)
    PROVE  /\ DOMAIN fd_posts' = fd_Starts \cup fd_Manual
           /\ \A q \in fd_Starts \cup fd_Manual : FeedPost(fd_posts'[q])
           /\ fd_posts'[p] = post
           /\ \A q \in (fd_Starts \cup fd_Manual) \ {p} : fd_posts'[q] = fd_posts[q]
    BY DEF FeedFeedInv, Feed!Write

\* The others taken off stay as they are.
LEMMA FeedOthersStayOver ==
    ASSUME FeedFeedInv, NEW p \in fd_Starts \cup fd_Manual, NEW post, FeedPost(post), Feed!Write(p, post),
           NEW q \in fd_taken, q # p
    PROVE  /\ q \in fd_Starts \cup fd_Manual
           /\ q \in fd_Starts => fd_posts'[q].kind # "none" /\ fd_posts'[q].expires = fd_posts'[q].published
           /\ q \notin fd_Starts => fd_posts'[q].kind = "none"
    <1>1. q \in (fd_Starts \cup fd_Manual) \ {p}
        BY DEF FeedFeedInv, FeedTakenIsOver
    <1>2. fd_posts'[q] = fd_posts[q]
        BY <1>1, FeedWriteOne
    <1> QED  BY <1>1, <1>2 DEF FeedFeedInv, FeedTakenIsOver, Feed!Exists

LEMMA FeedAfterIsATime ==
    ASSUME FeedTimesGiven, FeedFeedInv, NEW n \in Int \cup {None}
    PROVE  Feed!After(n) \in Int \cup {None} /\ (n # None => Feed!After(n) \in Int)
    BY DEF FeedFeedInv, Feed!After, FeedTimesGiven

LEMMA FeedFeedInvCreate ==
    ASSUME FeedTimesGiven, FeedFeedInv, NEW p, NEW body \in fd_Bodies, Feed!create_post(p, body)
    PROVE  FeedFeedInv'
    <1> DEFINE post == [kind |-> "manual", pinned |-> body.pinned, expires |-> Feed!After(body.life),
                 published |-> IF body.delay = None THEN fd_now ELSE Feed!After(body.delay)]
    <1>1. p \in fd_Starts \cup fd_Manual /\ p \notin fd_taken /\ Feed!Write(p, post)
        BY DEF Feed!create_post
    <1>2. Feed!After(body.delay) \in Int \/ body.delay = None
        BY FeedAfterIsATime DEF FeedTimesGiven
    <1>3. FeedPost(post)
        BY <1>2 DEF FeedPost, FeedFeedInv
    <1> HIDE DEF post
    <1>4. UNCHANGED <<fd_now, fd_pass, fd_taken>>
        BY DEF Feed!create_post
    <1>5. FeedTakenIsOver'
        BY <1>1, <1>3, <1>4, FeedOthersStayOver DEF FeedTakenIsOver, Feed!Exists
    <1> QED  BY <1>1, <1>3, <1>4, <1>5, FeedWriteOne DEF FeedFeedInv, FeedPassType

LEMMA FeedFeedInvUpdate ==
    ASSUME FeedTimesGiven, FeedFeedInv, NEW p \in DOMAIN fd_posts, NEW body \in fd_Bodies, Feed!update_post(p, body)
    PROVE  FeedFeedInv'
    <1> DEFINE post == [fd_posts[p] EXCEPT !.pinned = body.pinned, !.expires = Feed!After(body.life),
                                    !.published = IF body.delay = None THEN @ ELSE Feed!After(body.delay)]
    <1>1. p \in fd_Starts \cup fd_Manual /\ Feed!Write(p, post)
        BY DEF Feed!update_post, FeedFeedInv
    <1>2. Feed!After(body.delay) \in Int \/ body.delay = None
        BY FeedAfterIsATime DEF FeedTimesGiven
    <1>3. FeedPost(fd_posts[p])
        BY <1>1 DEF FeedFeedInv
    <1>4. FeedPost(post)
        BY <1>2, <1>3 DEF FeedPost
    <1> HIDE DEF post
    <1>5. UNCHANGED <<fd_now, fd_pass>> /\ fd_taken' = fd_taken \ {p}
        BY DEF Feed!update_post
    <1>6. FeedTakenIsOver'
        BY <1>1, <1>4, <1>5, FeedOthersStayOver DEF FeedTakenIsOver, Feed!Exists
    <1> QED  BY <1>1, <1>4, <1>5, <1>6, FeedWriteOne DEF FeedFeedInv, FeedPassType

LEMMA FeedFeedInvDelete ==
    ASSUME FeedFeedInv, NEW p \in DOMAIN fd_posts, Feed!delete_post(p)
    PROVE  FeedFeedInv'
    <1>1. p \in fd_Starts \cup fd_Manual /\ Feed!Write(p, Feed!Removed(p)) /\ Feed!Exists(p)
        BY DEF Feed!delete_post, FeedFeedInv
    <1>2. FeedPost(fd_posts[p])
        BY <1>1 DEF FeedFeedInv
    <1>3. p \in fd_Starts => /\ Feed!Removed(p).kind # "none"
                             /\ Feed!Removed(p).expires = Feed!Removed(p).published
                             /\ FeedPost(Feed!Removed(p))
        BY <1>1, <1>2 DEF Feed!Removed, FeedPost, Feed!Exists
    <1>4. p \notin fd_Starts => Feed!Removed(p).kind = "none" /\ FeedPost(Feed!Removed(p))
        BY DEF Feed!Removed, FeedPost, Feed!NoPost
    <1>5. UNCHANGED <<fd_now, fd_pass>> /\ fd_taken' = fd_taken \cup {p}
        BY DEF Feed!delete_post
    <1>6. fd_posts'[p] = Feed!Removed(p)
        BY <1>1, <1>3, <1>4, FeedWriteOne
    <1>7. FeedTakenIsOver'
        BY <1>1, <1>3, <1>4, <1>5, <1>6, FeedOthersStayOver DEF FeedTakenIsOver, Feed!Exists
    <1> QED  BY <1>1, <1>3, <1>4, <1>5, <1>7, FeedWriteOne DEF FeedFeedInv, FeedPassType

LEMMA FeedFeedInvRemove ==
    ASSUME FeedFeedInv, NEW s \in fd_Starts, Feed!RemoveStart(s)
    PROVE  FeedFeedInv'
    <1>1. Feed!Write(s, Feed!NoPost) /\ FeedPost(Feed!NoPost)
        BY DEF Feed!RemoveStart, FeedPost, Feed!NoPost
    <1>2. UNCHANGED <<fd_now, fd_pass>> /\ fd_taken' = fd_taken \ {s}
        BY DEF Feed!RemoveStart
    <1>3. FeedTakenIsOver'
        BY <1>1, <1>2, FeedOthersStayOver DEF FeedTakenIsOver, Feed!Exists
    <1> QED  BY <1>1, <1>2, <1>3, FeedWriteOne DEF FeedFeedInv, FeedPassType

LEMMA FeedFeedInvRead ==
    ASSUME FeedFeedInv, Feed!SyncRead
    PROVE  FeedFeedInv'
    <1>1. FeedPassType'
        <2>1. Feed!list_tournaments(fd_now, Feed!DayStart(Feed!Day(fd_now) + 1)) \subseteq fd_Starts
            BY DEF Feed!list_tournaments, Feed!Online, Feed!Window, Feed!Scheduled
        <2>2. fd_now \in Int
            BY DEF FeedFeedInv
        <2> DEFINE upcoming == Feed!list_tournaments(fd_now, Feed!DayStart(Feed!Day(fd_now) + 1))
                   picked == {s \in upcoming : Feed!match_tournament(s)}
                   candidates == upcoming \cap Feed!major_ids(upcoming)
        <2>3. \/ fd_pass' = [step |-> "read", kind |-> "pick",
                             new |-> {s \in picked : ~Feed!Exists(s)}, at |-> fd_now]
              \/ \E s \in candidates :
                    fd_pass' = [step |-> "read", kind |-> "major", new |-> {s}, at |-> fd_now]
            BY DEF Feed!SyncRead
        <2>4. {s \in picked : ~Feed!Exists(s)} \subseteq fd_Starts /\ candidates \subseteq fd_Starts
            BY <2>1
        <2> HIDE DEF upcoming, picked, candidates
        <2> DEFINE due == {s \in picked : ~Feed!Exists(s)}
        <2>5. due \subseteq fd_Starts
            BY <2>4
        <2> HIDE DEF due
        <2> QED  BY <2>2, <2>3, <2>4, <2>5 DEF FeedPassType, due
    <1> QED  BY <1>1 DEF Feed!SyncRead, FeedFeedInv, FeedTakenIsOver, Feed!Exists

LEMMA FeedPublishedIsATime ==
    ASSUME FeedTimesGiven, NEW s \in fd_Starts, NEW t \in Int
    PROVE  Feed!published_at(s, t) \in Int
    BY DEF Feed!published_at, FeedTimesGiven, Feed!DayStart, Feed!Day, Feed!Slots, Feed!At

\* A post taken off is still in the way of its start's next one.
LEMMA FeedFeedInvCommit ==
    ASSUME FeedTimesGiven, FeedFeedInv, Feed!SyncCommit
    PROVE  FeedFeedInv'
    <1> DEFINE post(p) == [kind |-> fd_pass.kind, pinned |-> FALSE,
                           published |-> Feed!published_at(p, fd_pass.at), expires |-> None]
    <1>1. /\ fd_pass.new \subseteq fd_Starts /\ fd_pass.at \in Int /\ \A s \in fd_pass.new : ~Feed!Exists(s)
        BY DEF Feed!SyncCommit, FeedFeedInv, FeedPassType, Feed!Quiet, Feed!Insertable
    <1>2. fd_posts' = [p \in DOMAIN fd_posts |-> IF p \in fd_pass.new THEN post(p) ELSE fd_posts[p]]
        BY DEF Feed!SyncCommit
    <1>3. \A p \in fd_pass.new : FeedPost(post(p))
        BY <1>1, FeedPublishedIsATime DEF FeedPost
    <1> HIDE DEF post
    <1>4. DOMAIN fd_posts' = fd_Starts \cup fd_Manual
        BY <1>2 DEF FeedFeedInv
    <1>5. \A p \in fd_Starts \cup fd_Manual : fd_posts'[p] = IF p \in fd_pass.new THEN post(p) ELSE fd_posts[p]
        BY <1>2 DEF FeedFeedInv
    <1>6. UNCHANGED <<fd_now, fd_taken>> /\ fd_pass' = Feed!Quiet
        BY DEF Feed!SyncCommit
    <1>7. \A q \in fd_Starts \cup fd_Manual : FeedPost(fd_posts'[q])
        BY <1>3, <1>5 DEF FeedFeedInv
    <1>8. \A q \in fd_taken : q \notin fd_pass.new
        BY <1>1 DEF FeedFeedInv, FeedTakenIsOver
    <1>9. FeedTakenIsOver'
        BY <1>5, <1>6, <1>8 DEF FeedFeedInv, FeedTakenIsOver, Feed!Exists
    <1> QED  BY <1>4, <1>6, <1>7, <1>9 DEF FeedFeedInv, FeedPassType

LEMMA FeedFeedInvStep == FeedTimesGiven /\ FeedFeedInv /\ [Feed!Next]_(Feed!vars) => FeedFeedInv'
    <1> SUFFICES ASSUME FeedTimesGiven, FeedFeedInv, [Feed!Next]_(Feed!vars)  PROVE FeedFeedInv'
        OBVIOUS
    <1> USE DEF FeedFeedInv
    <1>1. CASE \E p \in DOMAIN fd_posts, body \in fd_Bodies : Feed!create_post(p, body) \/ Feed!update_post(p, body)
        BY <1>1, FeedFeedInvCreate, FeedFeedInvUpdate
    <1>2. CASE \E p \in DOMAIN fd_posts : Feed!delete_post(p)
        BY <1>2, FeedFeedInvDelete
    <1>3. CASE \E name \in Feed!Names : Feed!create_pick(name) \/ Feed!update_pick(name) \/ Feed!delete_pick(name)
        BY <1>3 DEF Feed!create_pick, Feed!update_pick, Feed!delete_pick, Feed!Pick, FeedPassType, FeedTakenIsOver, Feed!Exists
    <1>4. CASE \E s \in fd_Starts : Feed!CancelStart(s)
        BY <1>4 DEF Feed!CancelStart, FeedPassType, FeedTakenIsOver, Feed!Exists
    <1>5. CASE \E s \in fd_Starts : Feed!RemoveStart(s)
        BY <1>5, FeedFeedInvRemove
    <1>6. CASE Feed!SyncRead
        BY <1>6, FeedFeedInvRead
    <1>7. CASE Feed!SyncCommit
        BY <1>7, FeedFeedInvCommit
    <1>8. CASE Feed!SyncFails
        BY <1>8 DEF Feed!SyncFails, FeedPassType, FeedTakenIsOver, Feed!Exists
    <1>9. CASE Feed!Tick
        BY <1>9 DEF Feed!Tick, FeedPassType, FeedTakenIsOver, Feed!Exists
    <1>10. CASE UNCHANGED Feed!vars
        BY <1>10 DEF Feed!vars, FeedPassType, FeedTakenIsOver, Feed!Exists
    <1> QED  BY <1>1, <1>2, <1>3, <1>4, <1>5, <1>6, <1>7, <1>8, <1>9, <1>10 DEF Feed!Next

LEMMA FeedOverIsUnlisted == FeedTimesGiven /\ FeedFeedInv => Feed!TakenOffStaysOff
    <1> SUFFICES ASSUME FeedTimesGiven, FeedFeedInv, NEW p \in fd_taken  PROVE ~Feed!Visible(p)
        BY DEF Feed!TakenOffStaysOff, Feed!list_posts
    <1>1. CASE p \in fd_Starts
        BY <1>1 DEF FeedFeedInv, FeedTakenIsOver, Feed!Visible, FeedPost, FeedTimesGiven
    <1>2. CASE p \notin fd_Starts
        BY <1>2 DEF FeedFeedInv, FeedTakenIsOver, Feed!Visible
    <1> QED  BY <1>1, <1>2

\* A post a manager took off does not come back by itself (delete_post): an
\* automatic one stays in the way of the loop's next pass.
LEMMA FeedTakenStaysOff == ASSUME FeedTimesGiven PROVE Feed!Spec => []Feed!TakenOffStaysOff
    <1>1. FeedTimesGiven /\ Feed!Init => FeedFeedInv
        BY FeedFeedInvInit
    <1>2. FeedTimesGiven /\ FeedFeedInv /\ [Feed!Next]_(Feed!vars) => FeedFeedInv'
        BY FeedFeedInvStep
    <1> QED  BY <1>1, <1>2, FeedOverIsUnlisted, PTL DEF Feed!Spec

-----------------------------------------------------------------------------
(* The front page.                                                            *)

\* A grid: finitely many starts with numbers, and rates that are positive.
FeedGridGiven ==
    /\ FeedTimesGiven
    /\ IsFiniteSet(fd_Starts) /\ fd_Starts \subseteq Int
    /\ fd_LiveLookahead \in Int /\ fd_Ruble \in Nat \ {0}
    /\ \A s \in fd_Starts :
          fd_Grid[s].guarantee \in Int /\ fd_Rub[fd_Grid[s].club] \in (Nat \ {0}) \cup {None}

LEMMA FeedLeastOf ==
    ASSUME NEW T \in SUBSET Nat, T # {}
    PROVE  \E m \in T : \A n \in T : m <= n
    <1>1. T \subseteq Nat
        OBVIOUS
    <1>2. PICK m \in T : \A n \in T : ~(<<n, m>> \in OpToRel(<, Nat))
        BY <1>1, NatLessThanWellFounded, WFMin
    <1>3. \A n \in T : ~(n < m)
        BY <1>2 DEF OpToRel
    <1> QED  BY <1>1, <1>3

\* Rounding keeps the order.
LEMMA FeedRoundedIsMonotone ==
    ASSUME fd_Ruble \in Nat \ {0}, NEW x \in Int, NEW y \in Int, x <= y
    PROVE  Feed!Rounded(x) \in Int /\ Feed!Rounded(y) \in Int /\ Feed!Rounded(x) <= Feed!Rounded(y)
    <1>1. PICK q, r, p, o : q = x \div fd_Ruble /\ r = x % fd_Ruble /\ p = y \div fd_Ruble /\ o = y % fd_Ruble
        OBVIOUS
    <1>2. /\ q \in Int /\ p \in Int /\ r \in 0..(fd_Ruble - 1) /\ o \in 0..(fd_Ruble - 1)
          /\ x = fd_Ruble * q + r /\ y = fd_Ruble * p + o
        BY <1>1
    <1>3. /\ Feed!Rounded(x) = IF 2 * r > fd_Ruble \/ (2 * r = fd_Ruble /\ q % 2 = 1) THEN q + 1 ELSE q
          /\ Feed!Rounded(y) = IF 2 * o > fd_Ruble \/ (2 * o = fd_Ruble /\ p % 2 = 1) THEN p + 1 ELSE p
        BY <1>1 DEF Feed!Rounded
    <1>4. q <= p
        <2> SUFFICES ASSUME q >= p + 1
                     PROVE  FALSE
            BY <1>2
        <2>1. fd_Ruble * q >= fd_Ruble * (p + 1)
            BY <1>2
        <2>2. fd_Ruble * (p + 1) = fd_Ruble * p + fd_Ruble
            BY <1>2
        <2> QED  BY <1>2, <2>1, <2>2
    <1>5. q = p => r <= o
        BY <1>2
    <1> QED  BY <1>2, <1>3, <1>4, <1>5

LEMMA FeedRubles ==
    ASSUME FeedGridGiven, NEW s \in fd_Starts
    PROVE  Feed!guarantee_rub(s) \in Int /\ (Feed!guarantee_rub(s) > 0 => fd_Grid[s].guarantee > 0)
    <1>1. PICK r, g : r = fd_Rub[fd_Grid[s].club] /\ g = fd_Grid[s].guarantee
        OBVIOUS
    <1>2. g \in Int /\ r \in (Nat \ {0}) \cup {None} /\ fd_Ruble \in Nat \ {0}
        BY <1>1 DEF FeedGridGiven
    <1>3. Feed!guarantee_rub(s) = IF r = None THEN 0 ELSE Feed!Rounded(g * r)
        BY <1>1 DEF Feed!guarantee_rub
    <1>4. CASE r = None
        BY <1>3, <1>4
    <1>5. CASE r # None
        <2>1. r \in Nat \ {0} /\ g * r \in Int
            BY <1>2, <1>5
        <2>2. g <= 0 => g * r <= 0
            BY <1>2, <2>1
        <2>3. Feed!Rounded(0) = 0
            BY <1>2 DEF Feed!Rounded
        <2>4. g * r <= 0 => Feed!Rounded(g * r) <= 0
            BY <1>2, <2>1, <2>3, FeedRoundedIsMonotone
        <2>5. Feed!Rounded(g * r) \in Int
            BY <1>2, <2>1, FeedRoundedIsMonotone
        <2> QED  BY <1>1, <1>2, <1>3, <1>5, <2>2, <2>4, <2>5
    <1> QED  BY <1>4, <1>5

\* A bigger guarantee of one club is no fewer rubles.
LEMMA FeedRublesOfChips ==
    ASSUME FeedGridGiven, NEW a \in fd_Starts, NEW b \in fd_Starts, fd_Grid[a].club = fd_Grid[b].club,
           fd_Grid[a].guarantee <= fd_Grid[b].guarantee
    PROVE  Feed!guarantee_rub(a) <= Feed!guarantee_rub(b)
    <1>1. PICK r, g, h : r = fd_Rub[fd_Grid[a].club] /\ g = fd_Grid[a].guarantee /\ h = fd_Grid[b].guarantee
        OBVIOUS
    <1>2. /\ g \in Int /\ h \in Int /\ g <= h
          /\ r \in (Nat \ {0}) \cup {None} /\ fd_Ruble \in Nat \ {0}
        BY <1>1 DEF FeedGridGiven
    <1>3. /\ Feed!guarantee_rub(a) = IF r = None THEN 0 ELSE Feed!Rounded(g * r)
          /\ Feed!guarantee_rub(b) = IF r = None THEN 0 ELSE Feed!Rounded(h * r)
        BY <1>1 DEF Feed!guarantee_rub
    <1>4. CASE r = None
        BY <1>3, <1>4
    <1>5. CASE r # None
        <2>1. r \in Nat \ {0} /\ g * r \in Int /\ h * r \in Int
            BY <1>2, <1>5
        <2>2. g * r <= h * r
            BY <1>2, <2>1
        <2> QED  BY <1>2, <1>3, <1>5, <2>1, <2>2, FeedRoundedIsMonotone
    <1> QED  BY <1>4, <1>5

LEMMA FeedMajorsAreBiggestHolds == FeedGridGiven => Feed!MajorsAreBiggest
    <1> SUFFICES ASSUME FeedGridGiven, NEW s \in Feed!majors(fd_now), NEW o \in Feed!Scheduled,
                        fd_Grid[o].live = None, fd_Grid[o].sat = None, fd_Grid[o].club = fd_Grid[s].club,
                        Feed!Day(Feed!At(o)) = Feed!Day(Feed!At(s))
                 PROVE  fd_Grid[o].guarantee <= fd_Grid[s].guarantee
        BY DEF Feed!MajorsAreBiggest
    <1>1. PICK from, to : s \in Feed!MajorsFrom(from, to)
        BY Zenon DEF Feed!majors
    <1>2. PICK L : s \in L /\ s \in Feed!major_ids(L)
        BY <1>1 DEF Feed!MajorsFrom
    <1>3. s \in Feed!Contenders(L) /\ o \in fd_Starts
        BY <1>2 DEF Feed!major_ids, Feed!Scheduled
    <1>4. s \in fd_Starts /\ fd_Grid[s].guarantee > 0
        BY <1>3 DEF Feed!Contenders, Feed!Scheduled
    <1>5. fd_Grid[s].guarantee \in Int /\ fd_Grid[o].guarantee \in Int
        BY <1>3, <1>4 DEF FeedGridGiven
    <1>6. CASE fd_Grid[o].guarantee > 0 /\ o # s
        <2>1. o \in Feed!Contenders(L)
            BY <1>2, <1>6 DEF Feed!Contenders
        <2>2. ~Feed!Beats(o, s)
            BY <1>2, <1>6, <2>1 DEF Feed!major_ids
        <2> QED  BY <1>5, <2>2 DEF Feed!Beats
    <1> QED  BY <1>4, <1>5, <1>6

LEMMA FeedBrightestIsMajorHolds == FeedGridGiven => Feed!BrightestIsMajor
    <1> DEFINE tonight == Feed!list_tournaments(fd_now, Feed!DayStart(Feed!Day(fd_now) + 1))
    <1> SUFFICES ASSUME FeedGridGiven, NEW s \in Feed!list_highlights(fd_now, Feed!DayStart(Feed!Day(fd_now) + 1)),
                        Feed!Day(Feed!At(s)) = Feed!Day(fd_now), fd_Grid[s].sat = None,
                        \A o \in tonight \ {s} : Feed!Day(Feed!At(o)) = Feed!Day(fd_now) => ~Feed!Brighter(o, s),
                        NEW m \in Feed!major_ids({s}) \cap tonight
                 PROVE  /\ Feed!guarantee_rub(m) = Feed!guarantee_rub(s)
                        /\ fd_Grid[m].guarantee = fd_Grid[s].guarantee => Feed!At(m) = Feed!At(s)
        BY Zenon DEF Feed!BrightestIsMajor
    <1>1. s \in tonight /\ Feed!guarantee_rub(s) > 0
        BY DEF Feed!list_highlights
    <1>2. s \in Feed!Scheduled /\ fd_Grid[s].live = None
        BY <1>1 DEF Feed!list_tournaments, Feed!Online, Feed!Window
    <1>3. s \in fd_Starts
        BY <1>2 DEF Feed!Scheduled
    <1>4. m \in Feed!Contenders({s})
        BY DEF Feed!major_ids
    <1>5. m \in fd_Starts /\ fd_Grid[m].club = fd_Grid[s].club /\ Feed!Day(Feed!At(m)) = Feed!Day(Feed!At(s))
        BY <1>4 DEF Feed!Contenders, Feed!Scheduled
    <1>6. fd_Grid[s].guarantee > 0
        BY <1>1, <1>3, FeedRubles
    <1>7. s \in Feed!Contenders({s})
        BY <1>2, <1>6 DEF Feed!Contenders
    <1>8. CASE m # s
        <2>1. ~Feed!Beats(s, m)
            BY <1>5, <1>7, <1>8 DEF Feed!major_ids
        <2>2. ~Feed!Brighter(m, s)
            BY <1>5, <1>8
        <2>3. /\ fd_Grid[s].guarantee \in Int /\ fd_Grid[m].guarantee \in Int
              /\ Feed!At(s) \in Int /\ Feed!At(m) \in Int
              /\ Feed!guarantee_rub(s) \in Int /\ Feed!guarantee_rub(m) \in Int
            BY <1>3, <1>5, FeedRubles DEF FeedGridGiven, FeedTimesGiven, Feed!At
        <2>4. fd_Grid[s].guarantee <= fd_Grid[m].guarantee
            BY <2>1, <2>3 DEF Feed!Beats
        <2>5. Feed!guarantee_rub(s) <= Feed!guarantee_rub(m)
            BY <1>3, <1>5, <2>4, FeedRublesOfChips
        <2>6. Feed!guarantee_rub(m) = Feed!guarantee_rub(s)
            BY <2>2, <2>3, <2>5 DEF Feed!Brighter
        <2>7. fd_Grid[m].guarantee = fd_Grid[s].guarantee => Feed!At(m) = Feed!At(s)
            BY <2>1, <2>2, <2>3, <2>6 DEF Feed!Beats, Feed!Brighter
        <2> QED  BY <2>6, <2>7
    <1> QED  BY <1>8

LEMMA FeedEveryStartIsShownHolds == FeedGridGiven => Feed!EveryStartIsShown
    <1> SUFFICES ASSUME FeedGridGiven, NEW s \in Feed!Window(fd_now, fd_now + fd_LiveLookahead)
                 PROVE  \/ s \in Feed!list_tournaments(fd_now, fd_now + fd_LiveLookahead)
                        \/ Feed!Cardinality({e \in Feed!list_live_events(fd_now) : s \in e}) = 1
                        \/ /\ Feed!is_minor_satellite(s)
                           /\ \A target \in Feed!Scheduled :
                                 /\ fd_Grid[target].name = fd_Grid[s].sat /\ fd_Grid[target].club = fd_Grid[s].club
                                 /\ Feed!At(target) > Feed!At(s) /\ Feed!At(target) > fd_now
                                 => s \in Feed!list_satellites(target, fd_now)
        BY Zenon DEF Feed!EveryStartIsShown
    <1>1. CASE fd_Grid[s].live # None
        <2> DEFINE live == {o \in Feed!Window(fd_now, fd_now + fd_LiveLookahead) : fd_Grid[o].live # None}
                   Group(o) == {p \in live : fd_Grid[p].club = fd_Grid[o].club /\ fd_Grid[p].live = fd_Grid[o].live}
        <2>1. s \in live /\ Feed!list_live_events(fd_now) = {Group(o) : o \in live}
            BY <1>1 DEF Feed!list_live_events
        <2>2. s \in Group(s)
            BY <2>1
        <2>3. \A o \in live : s \in Group(o) => Group(o) = Group(s)
            OBVIOUS
        <2> HIDE DEF live, Group
        <2>4. {e \in Feed!list_live_events(fd_now) : s \in e} = {Group(s)}
            BY <2>1, <2>2, <2>3
        <2> QED  BY <2>4, FS_Singleton, FeedCount
    <1>2. CASE fd_Grid[s].live = None /\ ~Feed!is_minor_satellite(s)
        BY <1>2 DEF Feed!list_tournaments, Feed!Online
    <1>3. CASE fd_Grid[s].live = None /\ Feed!is_minor_satellite(s)
        <2> SUFFICES ASSUME NEW target \in Feed!Scheduled, fd_Grid[target].name = fd_Grid[s].sat,
                            fd_Grid[target].club = fd_Grid[s].club,
                            Feed!At(target) > Feed!At(s), Feed!At(target) > fd_now
                     PROVE  s \in Feed!list_satellites(target, fd_now)
            BY <1>3
        <2>1. fd_onGrid[target] # "none"
            BY DEF Feed!Scheduled
        <2>2. s \in Feed!Online(fd_now, Feed!At(target))
            BY <1>3 DEF Feed!Online, Feed!Window
        <2> QED  BY <2>1, <2>2 DEF Feed!list_satellites
    <1> QED  BY <1>1, <1>2, <1>3

LEMMA FeedPicksAreCountedHolds == FeedGridGiven => Feed!PicksAreCounted
    <1> SUFFICES ASSUME FeedGridGiven, NEW name \in Feed!active_picks
                 PROVE  Feed!Cardinality({s \in Feed!list_tournaments(fd_now, fd_now + 7 * Feed!Slots) :
                                        Feed!At(s) >= fd_now /\ Feed!match_tournament(s) /\ fd_Grid[s].name = name})
                          <= Feed!list_admin_picks(name, fd_now)
        BY Zenon DEF Feed!PicksAreCounted
    <1> DEFINE marked == {s \in Feed!list_tournaments(fd_now, fd_now + 7 * Feed!Slots) :
                             Feed!At(s) >= fd_now /\ Feed!match_tournament(s) /\ fd_Grid[s].name = name}
               counted == {s \in fd_Starts :
                             fd_onGrid[s] # "none" /\ fd_Grid[s].name = name /\ fd_now <= Feed!At(s) /\ Feed!At(s) < fd_now + 7 * Feed!Slots}
    <1>1. marked \subseteq counted
        <2> SUFFICES ASSUME NEW s \in marked
                     PROVE  s \in counted
            OBVIOUS
        <2>1. s \in Feed!Window(fd_now, fd_now + 7 * Feed!Slots) /\ Feed!At(s) >= fd_now /\ fd_Grid[s].name = name
            BY DEF Feed!list_tournaments, Feed!Online
        <2>2. s \in fd_Starts /\ fd_onGrid[s] = "scheduled" /\ Feed!At(s) < fd_now + 7 * Feed!Slots
            BY <2>1 DEF Feed!Window, Feed!Scheduled
        <2> QED  BY <2>1, <2>2
    <1>2. IsFiniteSet(counted)
        <2>1. counted \subseteq fd_Starts
            OBVIOUS
        <2> HIDE DEF counted
        <2> QED  BY <2>1, FS_Subset DEF FeedGridGiven
    <1>3. Cardinality(marked) <= Cardinality(counted)
        <2> HIDE DEF marked, counted
        <2> QED  BY <1>1, <1>2, FS_Subset
    <1>4. Feed!list_admin_picks(name, fd_now) = Feed!Cardinality(counted)
        BY Zenon DEF Feed!list_admin_picks
    <1> QED  BY <1>3, <1>4, FeedCount

\* Being replaced by a later or a smaller start keeps an order.
LEMMA FeedBetterIsTransitive ==
    ASSUME FeedGridGiven, NEW a \in fd_Starts, NEW b \in fd_Starts, NEW c \in fd_Starts,
           Feed!Better(a, b), ~Feed!Better(c, b)
    PROVE  ~Feed!Better(c, a) /\ ~Feed!Better(a, a)
    <1>1. /\ Feed!guarantee_rub(a) \in Int /\ Feed!guarantee_rub(b) \in Int /\ Feed!guarantee_rub(c) \in Int
          /\ Feed!Day(Feed!At(a)) \in Int /\ Feed!Day(Feed!At(b)) \in Int /\ Feed!Day(Feed!At(c)) \in Int
        BY FeedRubles DEF FeedGridGiven, FeedTimesGiven, Feed!At, Feed!Day, Feed!Slots
    <1> QED  BY <1>1 DEF Feed!Better

\* The last of the starts that have come, and one start fewer.
LEMMA FeedLastIsThere ==
    ASSUME FeedGridGiven, NEW S, S \subseteq fd_Starts, S # {}
    PROVE  Feed!LastOf(S) \in S
    <1> DEFINE Last(T) == \E s \in T : \A o \in T : Feed!At(o) < Feed!At(s) \/ (Feed!At(o) = Feed!At(s) /\ o <= s)
               N == {Cardinality(T) : T \in {T \in SUBSET fd_Starts : T # {} /\ ~Last(T)}}
    <1>1. \A T \in SUBSET fd_Starts : IsFiniteSet(T) /\ Cardinality(T) \in Nat
        BY FS_Subset, FS_CardinalityType DEF FeedGridGiven
    <1>2. \A s \in fd_Starts : Feed!At(s) \in Int /\ s \in Int
        BY DEF FeedGridGiven, FeedTimesGiven, Feed!At
    <1>3. N = {}
        <2> SUFFICES ASSUME N # {}
                     PROVE  FALSE
            OBVIOUS
        <2>1. PICK n \in N : \A k \in N : n <= k
            <3>1. N \in SUBSET Nat
                BY <1>1
            <3> HIDE DEF N
            <3> QED  BY <3>1, FeedLeastOf
        <2>2. PICK T \in SUBSET fd_Starts : T # {} /\ ~Last(T) /\ n = Cardinality(T)
            BY <2>1
        <2>3. PICK x : x \in T
            BY <2>2
        <2>4. Cardinality(T \ {x}) = Cardinality(T) - 1
            BY <1>1, <2>3, FS_RemoveElement
        <2>5. T \ {x} \in SUBSET fd_Starts /\ Cardinality(T) \in Nat
            BY <1>1
        <2>6. ~(Cardinality(T \ {x}) \in N)
            <3> HIDE DEF N
            <3>1. ~(n <= n - 1)
                BY <2>2, <2>5
            <3> QED  BY <2>1, <2>2, <2>4, <3>1
        <2>7. T \ {x} = {} \/ Last(T \ {x})
            BY <2>5, <2>6
        <2>8. CASE T \ {x} = {}
            BY <1>2, <2>2, <2>3, <2>8
        <2>9. CASE Last(T \ {x})
            <3>1. PICK y \in T \ {x} : \A o \in T \ {x} : Feed!At(o) < Feed!At(y) \/ (Feed!At(o) = Feed!At(y) /\ o <= y)
                BY <2>9
            <3>2. \A o \in T : Feed!At(o) \in Int /\ o \in Int
                BY <1>2
            <3>3. CASE Feed!At(x) < Feed!At(y) \/ (Feed!At(x) = Feed!At(y) /\ x <= y)
                BY <2>2, <3>1, <3>3
            <3>4. CASE ~(Feed!At(x) < Feed!At(y) \/ (Feed!At(x) = Feed!At(y) /\ x <= y))
                <4>1. \A o \in T : Feed!At(o) < Feed!At(x) \/ (Feed!At(o) = Feed!At(x) /\ o <= x)
                    BY <2>3, <3>1, <3>2, <3>4
                <4> QED  BY <2>2, <2>3, <4>1
            <3> QED  BY <3>3, <3>4
        <2> QED  BY <2>7, <2>8, <2>9
    <1>4. Last(S)
        BY <1>3
    <1> QED  BY <1>4 DEF Feed!LastOf

\* One start of each club, none worse than another that came.
FeedKept(best, S) ==
        /\ best \subseteq S
        /\ \A b \in best, c \in best : fd_Grid[b].club = fd_Grid[c].club => b = c
        /\ \A s \in S : \E b \in best : fd_Grid[b].club = fd_Grid[s].club /\ ~Feed!Better(s, b)

LEMMA FeedKeepKeeps ==
    ASSUME FeedGridGiven, NEW S, S \subseteq fd_Starts, NEW best, NEW s \in S, FeedKept(best, S \ {s})
    PROVE  FeedKept(Feed!Keep(best, s), S)
    <1> DEFINE rival == {b \in best : fd_Grid[b].club = fd_Grid[s].club}
    <1>1. best \subseteq S \ {s} /\ best \subseteq fd_Starts /\ s \in fd_Starts
        BY DEF FeedKept
    <1>2. ~Feed!Better(s, s)
        <2>1. Feed!guarantee_rub(s) \in Int /\ Feed!Day(Feed!At(s)) \in Int
            <3>1. Feed!At(s) \in Int
                BY <1>1 DEF FeedGridGiven, FeedTimesGiven, Feed!At
            <3> QED  BY <1>1, <3>1, FeedRubles DEF Feed!Day, Feed!Slots
        <2> QED  BY <2>1 DEF Feed!Better
    <1>3. CASE rival = {}
        <2>1. Feed!Keep(best, s) = best \cup {s}
            BY <1>3 DEF Feed!Keep
        <2> QED  BY <1>1, <1>2, <1>3, <2>1 DEF FeedKept
    <1>4. CASE \E b \in rival : Feed!Better(s, b)
        <2>1. PICK b \in rival : Feed!Better(s, b)
            BY <1>4
        <2>2. rival = {b}
            BY <2>1 DEF FeedKept
        <2>3. Feed!Keep(best, s) = (best \ {b}) \cup {s}
            <3>1. Feed!Keep(best, s) = (best \ rival) \cup {s}
                BY <1>4 DEF Feed!Keep
            <3> QED  BY <2>2, <3>1
        <2>4. \A o \in S : \E c \in (best \ {b}) \cup {s} : fd_Grid[c].club = fd_Grid[o].club /\ ~Feed!Better(o, c)
            <3> SUFFICES ASSUME NEW o \in S, o # s
                         PROVE  \E c \in (best \ {b}) \cup {s} : fd_Grid[c].club = fd_Grid[o].club /\ ~Feed!Better(o, c)
                BY <1>2
            <3>1. PICK c \in best : fd_Grid[c].club = fd_Grid[o].club /\ ~Feed!Better(o, c)
                BY DEF FeedKept
            <3>2. CASE c = b
                <4>1. ~Feed!Better(o, s)
                    BY <1>1, <2>1, <3>1, <3>2, FeedBetterIsTransitive
                <4> QED  BY <2>1, <3>1, <3>2, <4>1
            <3> QED  BY <3>1, <3>2
        <2> QED  BY <1>1, <2>1, <2>2, <2>3, <2>4 DEF FeedKept
    <1>5. CASE rival # {} /\ ~\E b \in rival : Feed!Better(s, b)
        <2>1. Feed!Keep(best, s) = best
            BY <1>5 DEF Feed!Keep
        <2> QED  BY <1>1, <1>5, <2>1 DEF FeedKept
    <1> QED  BY <1>3, <1>4, <1>5

\* g is what is kept of every part of E with at most n starts.
FeedWalked(g, E, n) ==
    /\ g = [S \in SUBSET E |-> g[S]]
    /\ \A S \in SUBSET E : Cardinality(S) <= n =>
          g[S] = IF S = {} THEN {} ELSE Feed!Keep(g[S \ {Feed!LastOf(S)}], Feed!LastOf(S))

LEMMA FeedWalkExists ==
    ASSUME FeedGridGiven, NEW E, E \subseteq fd_Starts, NEW n \in Nat
    PROVE  \E g : FeedWalked(g, E, n)
    <1> DEFINE N == {k \in Nat : ~\E g : FeedWalked(g, E, k)}
    <1> SUFFICES ASSUME N # {}
                 PROVE  FALSE
        OBVIOUS
    <1>1. PICK m \in N : \A k \in N : m <= k
        <2>1. N \in SUBSET Nat
            OBVIOUS
        <2> HIDE DEF N
        <2> QED  BY <2>1, FeedLeastOf
    <1>2. \A S \in SUBSET E : /\ IsFiniteSet(S) /\ Cardinality(S) \in Nat
                              /\ (Cardinality(S) = 0 <=> S = {})
        BY FS_Subset, FS_CardinalityType, FS_EmptySet DEF FeedGridGiven
    <1>3. \A S \in SUBSET E : S # {} => /\ S \ {Feed!LastOf(S)} \in SUBSET E
                                        /\ Cardinality(S \ {Feed!LastOf(S)}) = Cardinality(S) - 1
        <2> SUFFICES ASSUME NEW S \in SUBSET E, S # {}
                     PROVE  Cardinality(S \ {Feed!LastOf(S)}) = Cardinality(S) - 1
            OBVIOUS
        <2>1. Feed!LastOf(S) \in S
            BY FeedLastIsThere
        <2> QED  BY <1>2, <2>1, FS_RemoveElement
    <1>4. m # 0
        <2> DEFINE g == [S \in SUBSET E |-> {}]
        <2>1. g = [S \in SUBSET E |-> g[S]] /\ g[{}] = {}
            OBVIOUS
        <2> HIDE DEF g
        <2>2. \A S \in SUBSET E : Cardinality(S) <= 0 => S = {}
            BY <1>2
        <2>3. FeedWalked(g, E, 0)
            BY <2>1, <2>2 DEF FeedWalked
        <2> QED  BY <2>3
    <1>5. m - 1 \in Nat /\ m - 1 \notin N
        BY <1>1, <1>4
    <1>6. PICK g : FeedWalked(g, E, m - 1)
        BY <1>5
    <1> DEFINE e == [S \in SUBSET E |-> IF Cardinality(S) < m THEN g[S]
                                        ELSE Feed!Keep(g[S \ {Feed!LastOf(S)}], Feed!LastOf(S))]
    <1>7. FeedWalked(e, E, m)
        <2>1. \A S \in SUBSET E : e[S] = IF Cardinality(S) < m THEN g[S]
                                         ELSE Feed!Keep(g[S \ {Feed!LastOf(S)}], Feed!LastOf(S))
            OBVIOUS
        <2>2. e = [S \in SUBSET E |-> e[S]]
            OBVIOUS
        <2> HIDE DEF e
        <2>3. ASSUME NEW S \in SUBSET E, Cardinality(S) <= m
              PROVE  e[S] = IF S = {} THEN {} ELSE Feed!Keep(e[S \ {Feed!LastOf(S)}], Feed!LastOf(S))
            <3>1. S # {} => e[S \ {Feed!LastOf(S)}] = g[S \ {Feed!LastOf(S)}]
                <4> SUFFICES ASSUME S # {}
                             PROVE  e[S \ {Feed!LastOf(S)}] = g[S \ {Feed!LastOf(S)}]
                    OBVIOUS
                <4>1. PICK R : R = S \ {Feed!LastOf(S)}
                    OBVIOUS
                <4>2. R \in SUBSET E /\ Cardinality(R) = Cardinality(S) - 1
                    BY <1>3, <4>1
                <4>3. Cardinality(S) \in Nat /\ m \in Nat
                    BY <1>1, <1>2
                <4>4. Cardinality(R) < m
                    BY <2>3, <4>2, <4>3
                <4> QED  BY <2>1, <4>1, <4>2, <4>4
            <3>2. CASE Cardinality(S) < m
                <4>1. e[S] = g[S]
                    BY <2>1, <3>2
                <4>2. Cardinality(S) \in Nat /\ m \in Nat
                    BY <1>1, <1>2
                <4>3. Cardinality(S) <= m - 1
                    BY <3>2, <4>2
                <4> QED  BY <1>6, <3>1, <4>1, <4>3 DEF FeedWalked
            <3>3. CASE ~(Cardinality(S) < m)
                <4>1. S # {}
                    BY <1>2, <1>5, <3>3
                <4> QED  BY <2>1, <3>1, <3>3, <4>1
            <3> QED  BY <3>2, <3>3
        <2> QED  BY <2>2, <2>3 DEF FeedWalked
    <1> QED  BY <1>5, <1>7

\* What is kept of an evening.
LEMMA FeedEveningKept ==
    ASSUME FeedGridGiven, NEW t
    PROVE  FeedKept(Feed!evening_by_club(t), Feed!Evening(t))
    <1> DEFINE E == Feed!Evening(t)
               F(g) == g = [S \in SUBSET E |-> IF S = {} THEN {}
                                               ELSE Feed!Keep(g[S \ {Feed!LastOf(S)}], Feed!LastOf(S))]
               best == CHOOSE g : F(g)
    <1>1. E \subseteq fd_Starts
        BY DEF Feed!Evening, Feed!list_tournaments, Feed!Online, Feed!Window, Feed!Scheduled
    <1>2. Feed!evening_by_club(t) = best[E]
        BY Zenon DEF Feed!evening_by_club
    <1> HIDE DEF E
    <1>3. \A S \in SUBSET E : IsFiniteSet(S) /\ Cardinality(S) \in Nat
        BY <1>1, FS_Subset, FS_CardinalityType DEF FeedGridGiven
    <1>4. F(best)
        <2>1. IsFiniteSet(E) /\ Cardinality(E) \in Nat
            BY <1>3
        <2>2. PICK g : FeedWalked(g, E, Cardinality(E))
            BY <1>1, <2>1, FeedWalkExists
        <2>3. \A S \in SUBSET E : Cardinality(S) <= Cardinality(E)
            BY <2>1, FS_Subset
        <2>4. \A S \in SUBSET E : g[S] = IF S = {} THEN {} ELSE Feed!Keep(g[S \ {Feed!LastOf(S)}], Feed!LastOf(S))
            BY <2>2, <2>3 DEF FeedWalked
        <2>5. g = [S \in SUBSET E |-> g[S]]
            BY <2>2 DEF FeedWalked
        <2>6. F(g)
            BY <2>4, <2>5
        <2> HIDE DEF F
        <2> QED  BY <2>6
    <1> HIDE DEF best
    <1>5. \A S \in SUBSET E : best[S] = IF S = {} THEN {} ELSE Feed!Keep(best[S \ {Feed!LastOf(S)}], Feed!LastOf(S))
        BY <1>4
    <1> HIDE DEF F
    <1> DEFINE N == {Cardinality(S) : S \in {S \in SUBSET E : ~FeedKept(best[S], S)}}
    <1>6. N = {}
        <2> SUFFICES ASSUME N # {}
                     PROVE  FALSE
            OBVIOUS
        <2>1. PICK n \in N : \A k \in N : n <= k
            <3>1. N \in SUBSET Nat
                BY <1>3
            <3> HIDE DEF N
            <3> QED  BY <3>1, FeedLeastOf
        <2>2. PICK S \in SUBSET E : ~FeedKept(best[S], S) /\ n = Cardinality(S)
            BY <2>1
        <2>3. CASE S = {}
            <3>1. best[S] = {}
                BY <1>5, <2>3
            <3> QED  BY <2>2, <2>3, <3>1 DEF FeedKept
        <2>4. CASE S # {}
            <3>1. Feed!LastOf(S) \in S
                BY <1>1, <2>4, FeedLastIsThere
            <3>2. PICK s, R : s = Feed!LastOf(S) /\ R = S \ {s}
                OBVIOUS
            <3>3. Cardinality(R) = Cardinality(S) - 1 /\ Cardinality(S) \in Nat /\ R \in SUBSET E
                BY <1>3, <3>1, <3>2, FS_RemoveElement
            <3>4. ~(Cardinality(R) \in N)
                <4> HIDE DEF N
                <4>1. ~(n <= n - 1)
                    BY <2>2, <3>3
                <4> QED  BY <2>1, <2>2, <3>3, <4>1
            <3>5. FeedKept(best[R], R)
                BY <3>3, <3>4
            <3>6. best[S] = Feed!Keep(best[R], s)
                BY <1>5, <2>4, <3>2
            <3> QED  BY <1>1, <2>2, <3>1, <3>2, <3>5, <3>6, FeedKeepKeeps
        <2> QED  BY <2>3, <2>4
    <1>7. FeedKept(best[E], E)
        BY <1>6
    <1> QED  BY <1>2, <1>7 DEF E

LEMMA FeedEveningsAreBiggestHolds == FeedGridGiven => Feed!EveningsAreBiggest
    BY FeedEveningKept DEF Feed!EveningsAreBiggest, FeedKept

\* The front page shows what it promises, whatever the managers, the schedule
\* and the loop did before (majors, evening_by_club, list_highlights,
\* list_live_events, list_satellites, list_admin_picks).
LEMMA FeedFrontPageIsExact == ASSUME FeedGridGiven PROVE Feed!Spec => []Feed!ShowcaseIsExact
    <1>1. Feed!ShowcaseIsExact
        BY FeedMajorsAreBiggestHolds, FeedEveningsAreBiggestHolds, FeedBrightestIsMajorHolds,
           FeedEveryStartIsShownHolds, FeedPicksAreCountedHolds DEF Feed!ShowcaseIsExact
    <1> QED  BY <1>1, PTL DEF Feed!Spec

\* A behaviour of the office is one of Feed, with its steps or none.
LEMMA FeedPart == Init /\ [][Next]_vars => Feed!Spec
    <1>1. Init => Feed!Init
        BY DEF Init
    <1>2. [Next]_vars => [Feed!Next]_(Feed!vars)
        <2>1. UNCHANGED feedVars => UNCHANGED Feed!vars
            BY DEF feedVars, Feed!vars
        <2> QED  BY <2>1 DEF Next, vars
    <1> QED  BY <1>1, <1>2, PTL DEF Feed!Spec

\* A post a manager took off does not come back by itself (delete_post): an
\* automatic one stays in the way of the loop's next pass.
THEOREM TakenStaysOff == ASSUME FeedTimesGiven PROVE Spec => []TakenOffStaysOff
    BY FeedTakenStaysOff, FeedPart, PTL DEF Spec, TakenOffStaysOff

\* The front page shows what it promises, for any grid and rates, whatever the
\* managers, the schedule and the loop did before (majors, evening_by_club,
\* list_highlights, list_live_events, list_satellites, list_admin_picks).
THEOREM FrontPageExact == ASSUME FeedGridGiven PROVE Spec => []ShowcaseIsExact
    BY FeedFrontPageIsExact, FeedPart, PTL DEF Spec, ShowcaseIsExact

-----------------------------------------------------------------------------
(* CashDesk: the list of the lobby.                                        *)

-----------------------------------------------------------------------------
(* The inductive invariant.                                                   *)

CashInFlight == {r \in ca_Runs : ca_snapshot[r] # Cash!Quiet}

\* A snapshot in flight was sent, and knows whether another has committed
\* since it read the rows.
CashIsSnapshot(x) ==
    /\ DOMAIN x = {"step", "list", "link", "existing", "stale"}
    /\ x.list \subseteq ca_Limits /\ x.stale \in BOOLEAN

CashShape ==
    /\ ca_sent \in Nat
    /\ DOMAIN ca_games = ca_Limits
    /\ DOMAIN ca_snapshot = ca_Runs
    /\ \A r \in CashInFlight : ca_sent # 0 /\ CashIsSnapshot(ca_snapshot[r])

\* What a snapshot has read is what is there, until another one commits.
CashReadIsFresh == \A r \in CashInFlight : ~ca_snapshot[r].stale => ca_snapshot[r].existing = ca_games

CashIInv == CashShape /\ CashReadIsFresh /\ Cash!ShownIsOneSnapshot

-----------------------------------------------------------------------------
(* The steps.                                                                 *)

LEMMA CashInitial == Cash!Init => CashIInv
    BY DEF Cash!Init, CashIInv, CashShape, CashIsSnapshot, CashReadIsFresh, CashInFlight, Cash!ShownIsOneSnapshot, Cash!Present, Cash!NoGame

LEMMA CashReadKeeps ==
    ASSUME CashIInv, NEW r \in ca_Runs, NEW list \in SUBSET ca_Limits, NEW link, Cash!IngestRead(r, list, link)
    PROVE  CashIInv'
    <1>1. /\ ca_snapshot' = [ca_snapshot EXCEPT ![r] =
                [step |-> "read", list |-> list, link |-> link, existing |-> ca_games, stale |-> FALSE]]
          /\ ca_sent' = ca_sent + 1 /\ ca_games' = ca_games /\ ca_last' = ca_last /\ ca_mixed' = ca_mixed
        BY DEF Cash!IngestRead
    <1>2. /\ DOMAIN ca_snapshot' = ca_Runs
          /\ ca_snapshot'[r] = [step |-> "read", list |-> list, link |-> link, existing |-> ca_games, stale |-> FALSE]
          /\ \A s \in ca_Runs \ {r} : ca_snapshot'[s] = ca_snapshot[s]
        BY <1>1 DEF CashIInv, CashShape
    <1>3. \A s \in CashInFlight' \ {r} : s \in CashInFlight /\ ca_snapshot'[s] = ca_snapshot[s]
        BY <1>2 DEF CashInFlight
    <1>4. CashShape'
        <2>1. CashIsSnapshot(ca_snapshot'[r])
            BY <1>2 DEF CashIsSnapshot
        <2>2. ca_sent' \in Nat /\ ca_sent' # 0
            BY <1>1 DEF CashIInv, CashShape
        <2>3. \A s \in CashInFlight' : CashIsSnapshot(ca_snapshot'[s])
            BY <1>3, <2>1 DEF CashIInv, CashShape
        <2> QED  BY <1>1, <1>2, <2>2, <2>3 DEF CashIInv, CashShape, CashIsSnapshot
    <1>5. CashReadIsFresh'
        BY <1>1, <1>2, <1>3 DEF CashIInv, CashReadIsFresh
    <1>6. Cash!ShownIsOneSnapshot'
        BY <1>1 DEF CashIInv, Cash!ShownIsOneSnapshot, Cash!Present
    <1> QED  BY <1>4, <1>5, <1>6 DEF CashIInv

\* The commit of a snapshot that overlapped with no other leaves the rows of
\* its list and no other, all of them seen now.
LEMMA CashCommitShows ==
    ASSUME CashIInv, NEW r \in ca_Runs, Cash!IngestCommit(r), ~ca_snapshot[r].stale
    PROVE  /\ Cash!Present' = ca_snapshot[r].list
           /\ \A l \in Cash!Present' : ca_games'[l].seen = ca_now
    <1>1. r \in CashInFlight
        BY DEF Cash!IngestCommit, CashInFlight, Cash!Quiet
    <1>2. ca_snapshot[r].existing = ca_games /\ ca_sent # 0 /\ ca_snapshot[r].list \subseteq ca_Limits
        BY <1>1 DEF CashIInv, CashShape, CashIsSnapshot, CashReadIsFresh
    <1>3. Cash!Existing(r) = Cash!Present
        BY <1>2 DEF Cash!Existing, Cash!Present
    <1>4. Cash!Updated(r) = ca_snapshot[r].list \cap Cash!Present /\ Cash!Closed(r) = Cash!Present \ ca_snapshot[r].list
        BY <1>3 DEF Cash!Updated, Cash!Closed
    <1>5. ASSUME NEW l \in ca_Limits
          PROVE  /\ l \in ca_snapshot[r].list => ca_games'[l].row # 0 /\ ca_games'[l].seen = ca_now
                 /\ l \notin ca_snapshot[r].list => ca_games'[l].row = 0
        <2>1. ca_games'[l] =
                  IF l \in Cash!Updated(r) THEN Cash!Kept(r, l)
                  ELSE IF l \in ca_snapshot[r].list
                       THEN [row |-> ca_sent, link |-> ca_snapshot[r].link, seen |-> ca_now]
                  ELSE IF l \in Cash!Closed(r) /\ ca_games[l].row = ca_snapshot[r].existing[l].row THEN Cash!NoGame
                  ELSE ca_games[l]
            BY DEF Cash!IngestCommit
        <2>2. CASE l \in ca_snapshot[r].list /\ l \in Cash!Present
            <3>1. ca_games'[l] = Cash!Kept(r, l)
                BY <1>4, <2>1, <2>2
            <3> QED  BY <2>2, <3>1 DEF Cash!Kept, Cash!Present
        <2>3. CASE l \in ca_snapshot[r].list /\ l \notin Cash!Present
            BY <1>2, <1>4, <2>1, <2>3
        <2>4. CASE l \notin ca_snapshot[r].list /\ l \in Cash!Present
            BY <1>2, <1>4, <2>1, <2>4 DEF Cash!NoGame
        <2>5. CASE l \notin ca_snapshot[r].list /\ l \notin Cash!Present
            BY <1>4, <2>1, <2>5 DEF Cash!Present
        <2> QED  BY <2>2, <2>3, <2>4, <2>5
    <1> QED  BY <1>2, <1>5 DEF Cash!Present

LEMMA CashCommitKeeps ==
    ASSUME CashIInv, NEW r \in ca_Runs, Cash!IngestCommit(r)
    PROVE  CashIInv'
    <1>1. /\ DOMAIN ca_games' = ca_Limits /\ ca_sent' = ca_sent
          /\ ca_last' = ca_snapshot[r].list /\ ca_mixed' = ca_snapshot[r].stale
          /\ ca_snapshot' = [s \in ca_Runs |->
                IF s = r THEN Cash!Quiet
                ELSE IF ca_snapshot[s] = Cash!Quiet THEN Cash!Quiet ELSE [ca_snapshot[s] EXCEPT !.stale = TRUE]]
        BY DEF Cash!IngestCommit
    <1>2. \A s \in CashInFlight' : s \in CashInFlight /\ ca_snapshot'[s] = [ca_snapshot[s] EXCEPT !.stale = TRUE]
        BY <1>1 DEF CashInFlight
    <1>3. \A s \in CashInFlight' : CashIsSnapshot(ca_snapshot'[s]) /\ ca_snapshot'[s].stale
        BY <1>2 DEF CashIInv, CashShape, CashIsSnapshot
    <1>4. CashShape'
        BY <1>1, <1>2, <1>3 DEF CashIInv, CashShape, CashIsSnapshot
    <1>5. CashReadIsFresh'
        BY <1>3 DEF CashReadIsFresh
    <1>6. Cash!ShownIsOneSnapshot'
        BY <1>1, CashCommitShows DEF Cash!ShownIsOneSnapshot
    <1> QED  BY <1>4, <1>5, <1>6 DEF CashIInv

LEMMA CashInductive == CashIInv /\ [Cash!Next]_(Cash!vars) => CashIInv'
    <1> SUFFICES ASSUME CashIInv, [Cash!Next]_(Cash!vars) PROVE CashIInv'
        OBVIOUS
    <1>1. ASSUME NEW r \in ca_Runs, Cash!IngestFails(r) PROVE CashIInv'
        <2>1. /\ ca_snapshot' = [ca_snapshot EXCEPT ![r] = Cash!Quiet]
              /\ UNCHANGED <<ca_games, ca_last, ca_mixed, ca_sent>>
            BY <1>1 DEF Cash!IngestFails
        <2>2. DOMAIN ca_snapshot' = ca_Runs /\ \A s \in CashInFlight' : s \in CashInFlight /\ ca_snapshot'[s] = ca_snapshot[s]
            BY <2>1 DEF CashIInv, CashShape, CashInFlight
        <2>3. CashShape'
            BY <2>1, <2>2 DEF CashIInv, CashShape, CashIsSnapshot
        <2> QED  BY <2>1, <2>2, <2>3 DEF CashIInv, CashReadIsFresh, Cash!ShownIsOneSnapshot, Cash!Present
    <1>2. ASSUME UNCHANGED <<ca_games, ca_snapshot, ca_last, ca_mixed, ca_sent>> PROVE CashIInv'
        BY <1>2 DEF CashIInv, CashShape, CashIsSnapshot, CashReadIsFresh, CashInFlight, Cash!ShownIsOneSnapshot, Cash!Present
    <1> QED  BY <1>1, <1>2, CashReadKeeps, CashCommitKeeps DEF Cash!Next, Cash!vars, Cash!finish_run, Cash!update_pick, Cash!Tick

\* The rows players see are the limits sent last and no other, all of one
\* moment (ingest_cash_snapshot), unless two snapshots overlapped.
LEMMA CashLobbyIsOneList == Cash!Spec => []Cash!ShownIsOneSnapshot
    <1>1. CashIInv => Cash!ShownIsOneSnapshot
        BY DEF CashIInv
    <1> QED  BY CashInitial, CashInductive, <1>1, PTL DEF Cash!Spec

\* A behaviour of the office is one of CashDesk, with its steps or none.
LEMMA CashPart == Init /\ [][Next]_vars => Cash!Spec
    <1>1. Init => Cash!Init
        BY DEF Init
    <1>2. [Next]_vars => [Cash!Next]_(Cash!vars)
        <2>1. UNCHANGED cashVars => UNCHANGED Cash!vars
            BY DEF cashVars, Cash!vars
        <2> QED  BY <2>1 DEF Next, vars
    <1> QED  BY <1>1, <1>2, PTL DEF Cash!Spec

\* The rows players see are the limits sent last and no other, all of one
\* moment (ingest_cash_snapshot), unless two snapshots overlapped.
THEOREM LobbyIsOneList == Spec => []ShownIsOneSnapshot
    BY CashLobbyIsOneList, CashPart, PTL DEF Spec, ShownIsOneSnapshot

-----------------------------------------------------------------------------
(* Threads: the marks, the status and the pushes of a dialogue.            *)

\* The sets of the module are counted as everywhere.
LEMMA ThreadsCount == \A S : Threads!Cardinality(S) = Cardinality(S)
    BY DEF Threads!Cardinality, Cardinality

ThreadsCountGiven == th_ManagerCount \in Nat

ThreadsTRow == [status : Threads!Status, last : Nat, said : [Threads!Sides -> Nat], read : [Threads!Sides -> Nat],
                closed : Nat]
ThreadsTMessage == [by : Threads!Sides, at : Nat]

ThreadsOpen(h) == th_txn[h].op # "idle"
ThreadsIsTxn(x) ==
    /\ x.op \in Threads!Ops /\ x.by \in Threads!Sides /\ x.moment \in Nat
    /\ x.op # "autoclose" => x.thread \in th_Threads /\ x.snap \in ThreadsTRow
    /\ x.op = "create" => x.by = "player"

\* The times, the rows and the transactions.
ThreadsShape ==
    /\ th_clock \in Nat
    /\ th_thread \in [th_Threads -> ThreadsTRow]
    /\ th_messages \in [th_Threads -> Seq(ThreadsTMessage)]
    /\ th_shown \in [th_Threads -> [Threads!Sides -> Nat]]
    /\ th_pushed \in [th_Threads -> Nat]
    /\ DOMAIN th_txn = th_Handlers
    /\ \A h \in th_Handlers : ThreadsOpen(h) => ThreadsIsTxn(th_txn[h])
    /\ \A t \in th_Threads, s \in Threads!Sides : th_shown[t][s] <= Len(th_messages[t])

\* While requests do not overlap, one transaction is open at most, what it
\* loaded is what the rows hold, and it is later than every mark.
ThreadsSerial ==
    ~th_overlap =>
        /\ \A h, k \in th_Handlers : ThreadsOpen(h) /\ ThreadsOpen(k) => h = k
        /\ \A t \in th_Threads, s \in Threads!Sides :
              th_thread[t].said[s] <= th_clock /\ th_thread[t].read[s] <= th_clock
        /\ \A h \in th_Handlers : ThreadsOpen(h) =>
              /\ th_txn[h].op \in {"post", "close"} => th_txn[h].snap = th_thread[th_txn[h].thread]
              /\ \A t \in th_Threads, s \in Threads!Sides :
                    th_thread[t].said[s] < th_txn[h].moment /\ th_thread[t].read[s] < th_txn[h].moment
              /\ th_txn[h].moment <= th_clock


\* A dialogue whose marks fit its messages.
ThreadsFits(t) ==
           /\ \A s \in Threads!Sides : Threads!Unread(th_thread[t], s) <=> Threads!Unseen(t, s) # {}
           /\ LET n == Len(th_messages[t]) IN
              /\ n > 0 => th_thread[t].last = th_messages[t][n].at
              /\ th_thread[t].status = "answered" => th_messages[t][n].by = "manager"
              /\ th_thread[t].status = "open" => th_messages[t][n].by = "player"

ThreadsExact == ~th_overlap => \A t \in th_Threads : ThreadsFits(t)

ThreadsIInv == ThreadsShape /\ ThreadsSerial /\ ThreadsExact /\ Threads!EveryMessageIsPushed

-----------------------------------------------------------------------------
(* What the helpers return.                                                   *)

LEMMA ThreadsSidesAreTwo ==
    ASSUME NEW s \in Threads!Sides
    PROVE  Threads!Other(s) \in Threads!Sides /\ Threads!Other(s) # s /\ Threads!Other(Threads!Other(s)) = s
           /\ \A q \in Threads!Sides : q = s \/ q = Threads!Other(s)
    BY DEF Threads!Sides, Threads!Other

LEMMA ThreadsNoRowIsARow == Threads!NoRow \in ThreadsTRow /\ Threads!NoRow.said = Threads!Never /\ Threads!NoRow.read = Threads!Never
    BY DEF Threads!NoRow, ThreadsTRow, Threads!Status, Threads!Never

LEMMA ThreadsMergeIsARow ==
    ASSUME NEW d \in ThreadsTRow, NEW o \in ThreadsTRow, NEW n \in ThreadsTRow
    PROVE  Threads!Merge(d, o, n) \in ThreadsTRow
    BY DEF Threads!Merge, ThreadsTRow

\* A row nobody changed in between is written as the handler means it.
LEMMA ThreadsMergeOfCurrent ==
    ASSUME NEW d \in ThreadsTRow, NEW n \in ThreadsTRow
    PROVE  Threads!Merge(d, d, n) = n
    <1>1. /\ Threads!Merge(d, d, n).status = n.status /\ Threads!Merge(d, d, n).last = n.last
          /\ Threads!Merge(d, d, n).closed = n.closed
        BY DEF Threads!Merge
    <1>2. \A s \in Threads!Sides : Threads!Merge(d, d, n).said[s] = n.said[s] /\ Threads!Merge(d, d, n).read[s] = n.read[s]
        BY DEF Threads!Merge
    <1>3. Threads!Merge(d, d, n) \in ThreadsTRow
        BY ThreadsMergeIsARow
    <1> DEFINE m == Threads!Merge(d, d, n)
    <1>4. /\ m.status = n.status /\ m.last = n.last /\ m.closed = n.closed /\ m \in ThreadsTRow
          /\ \A s \in Threads!Sides : m.said[s] = n.said[s] /\ m.read[s] = n.read[s]
        BY <1>1, <1>2, <1>3
    <1> HIDE DEF m
    <1>5. m.said \in [Threads!Sides -> Nat] /\ n.said \in [Threads!Sides -> Nat]
          /\ m.read \in [Threads!Sides -> Nat] /\ n.read \in [Threads!Sides -> Nat]
        BY <1>4 DEF ThreadsTRow
    <1>6. m.said = n.said /\ m.read = n.read
        BY <1>4, <1>5
    <1>7. m = n
        BY <1>4, <1>6 DEF ThreadsTRow
    <1> QED  BY <1>7 DEF m

LEMMA ThreadsSaidMovesMarks ==
    ASSUME NEW row \in ThreadsTRow, NEW s \in Threads!Sides, NEW m \in Nat
    PROVE  /\ Threads!Said(row, s, m) \in ThreadsTRow
           /\ Threads!Said(row, s, m).last = m /\ Threads!Said(row, s, m).said[s] = m /\ Threads!Said(row, s, m).read[s] = m
           /\ Threads!Said(row, s, m).said[Threads!Other(s)] = row.said[Threads!Other(s)]
           /\ Threads!Said(row, s, m).read[Threads!Other(s)] = row.read[Threads!Other(s)]
           /\ Threads!Said(row, s, m).status = IF s = "manager" THEN "answered" ELSE "open"
    <1>1. Threads!Other(s) # s /\ Threads!Other(s) \in Threads!Sides
        BY ThreadsSidesAreTwo
    <1>2. row.said \in [Threads!Sides -> Nat] /\ row.read \in [Threads!Sides -> Nat]
        BY DEF ThreadsTRow
    <1>3. [row.said EXCEPT ![s] = m] \in [Threads!Sides -> Nat] /\ [row.read EXCEPT ![s] = m] \in [Threads!Sides -> Nat]
        BY <1>2
    <1> QED  BY <1>1, <1>2, <1>3 DEF Threads!Said, ThreadsTRow, Threads!Status

-----------------------------------------------------------------------------
(* One dialogue is written to.                                                *)

\* A message of s at moment m, later than the marks of the other side, shown to s.
LEMMA ThreadsMessageFits ==
    ASSUME NEW t \in th_Threads, NEW s \in Threads!Sides, NEW m \in Nat, ThreadsShape,
           th_messages'[t] = Append(th_messages[t], [by |-> s, at |-> m]),
           th_thread'[t] \in ThreadsTRow, th_thread'[t].last = m, th_thread'[t].said[s] = m, th_thread'[t].read[s] = m,
           th_thread'[t].said[Threads!Other(s)] < m, th_thread'[t].read[Threads!Other(s)] < m,
           th_thread'[t].status = IF s = "manager" THEN "answered" ELSE "open",
           th_shown'[t][s] = Len(th_messages'[t]), th_shown'[t][Threads!Other(s)] = th_shown[t][Threads!Other(s)]
    PROVE  ThreadsFits(t)'
    <1> DEFINE n == Len(th_messages[t])
    <1>1. /\ n \in Nat /\ Len(th_messages'[t]) = n + 1
          /\ th_messages'[t][n + 1] = [by |-> s, at |-> m]
        BY DEF ThreadsShape
    <1>2. th_shown[t][Threads!Other(s)] \in Nat /\ th_shown[t][Threads!Other(s)] <= n
        BY ThreadsSidesAreTwo DEF ThreadsShape
    <1> HIDE DEF n
    <1>3. Threads!Other(s) \in Threads!Sides /\ Threads!Other(Threads!Other(s)) = s /\ \A q \in Threads!Sides : q = s \/ q = Threads!Other(s)
        BY ThreadsSidesAreTwo
    <1>4. Threads!Unseen(t, s)' = {}
        BY <1>1 DEF Threads!Unseen, Threads!By
    <1>5. n + 1 \in Threads!Unseen(t, Threads!Other(s))'
        BY <1>1, <1>2, <1>3 DEF Threads!Unseen, Threads!By
    <1>6. ~Threads!Unread(th_thread'[t], s)
        BY <1>3 DEF Threads!Unread, ThreadsTRow
    <1>7. Threads!Unread(th_thread'[t], Threads!Other(s))
        BY <1>3 DEF Threads!Unread
    <1>8. \A q \in Threads!Sides : Threads!Unread(th_thread'[t], q) <=> Threads!Unseen(t, q)' # {}
        BY <1>3, <1>4, <1>5, <1>6, <1>7
    <1>9. th_messages'[t][n + 1].at = m /\ th_messages'[t][n + 1].by = s
        BY <1>1
    <1>10. s = "manager" \/ s = "player"
        BY DEF Threads!Sides
    <1> QED  BY <1>1, <1>8, <1>9, <1>10 DEF ThreadsFits

\* A dialogue that s opens at moment m, later than every message.
LEMMA ThreadsReadingFits ==
    ASSUME NEW t \in th_Threads, NEW s \in Threads!Sides, NEW m \in Nat, ThreadsShape, ThreadsFits(t),
           th_messages'[t] = th_messages[t],
           th_thread'[t].last = th_thread[t].last, th_thread'[t].status = th_thread[t].status,
           th_thread'[t].said = th_thread[t].said, th_thread'[t].read[s] = m,
           th_thread'[t].read[Threads!Other(s)] = th_thread[t].read[Threads!Other(s)],
           th_thread[t].said[Threads!Other(s)] < m,
           th_shown'[t][s] = Len(th_messages'[t]), th_shown'[t][Threads!Other(s)] = th_shown[t][Threads!Other(s)]
    PROVE  ThreadsFits(t)'
    <1>1. Threads!Unseen(t, s)' = {}
        BY DEF Threads!Unseen, Threads!By, ThreadsShape
    <1>2. ~Threads!Unread(th_thread'[t], s)
        BY ThreadsSidesAreTwo DEF Threads!Unread, ThreadsShape, ThreadsTRow
    <1>3. Threads!Unseen(t, Threads!Other(s))' = Threads!Unseen(t, Threads!Other(s))
        BY DEF Threads!Unseen, Threads!By
    <1>4. Threads!Unread(th_thread'[t], Threads!Other(s)) <=> Threads!Unread(th_thread[t], Threads!Other(s))
        BY ThreadsSidesAreTwo DEF Threads!Unread
    <1>5. \A q \in Threads!Sides : Threads!Unread(th_thread'[t], q) <=> Threads!Unseen(t, q)' # {}
        BY <1>1, <1>2, <1>3, <1>4, ThreadsSidesAreTwo DEF ThreadsFits
    <1> QED  BY <1>5 DEF ThreadsFits

\* A dialogue where at most its status changes, to closed.
LEMMA ThreadsClosingFits ==
    ASSUME NEW t \in th_Threads, ThreadsFits(t), th_messages'[t] = th_messages[t], th_shown'[t] = th_shown[t],
           th_thread'[t].last = th_thread[t].last, th_thread'[t].said = th_thread[t].said,
           th_thread'[t].read = th_thread[t].read,
           th_thread'[t].status \in {th_thread[t].status, "closed"}
    PROVE  ThreadsFits(t)'
    <1>1. \A s \in Threads!Sides : Threads!Unseen(t, s)' = Threads!Unseen(t, s)
        BY DEF Threads!Unseen, Threads!By
    <1>2. \A s \in Threads!Sides : Threads!Unread(th_thread'[t], s) <=> Threads!Unread(th_thread[t], s)
        BY DEF Threads!Unread
    <1> QED  BY <1>1, <1>2 DEF ThreadsFits

\* A message of the player is one more of his.
LEMMA ThreadsCountOfMessages ==
    ASSUME NEW t \in th_Threads, NEW s \in Threads!Sides, NEW m, ThreadsShape, ThreadsCountGiven,
           th_messages'[t] = Append(th_messages[t], [by |-> s, at |-> m]),
           th_pushed[t] = th_ManagerCount * Cardinality(Threads!By(t, "player")),
           th_pushed'[t] = IF s = "player" THEN th_pushed[t] + th_ManagerCount ELSE th_pushed[t]
    PROVE  th_pushed'[t] = th_ManagerCount * Cardinality(Threads!By(t, "player")')
    <1> DEFINE n == Len(th_messages[t])
               mine == Threads!By(t, "player")
    <1>1. /\ n \in Nat /\ Len(th_messages'[t]) = n + 1
          /\ th_messages'[t][n + 1].by = s
          /\ \A i \in 1..n : th_messages'[t][i] = th_messages[t][i]
        BY DEF ThreadsShape
    <1>2. mine \subseteq 1..n /\ n + 1 \notin mine
        BY <1>1 DEF Threads!By
    <1>3. IsFiniteSet(mine) /\ Cardinality(mine) \in Nat
        <2>1. IsFiniteSet(1..n)
            BY <1>1, FS_Interval
        <2> HIDE DEF mine
        <2>2. IsFiniteSet(mine)
            BY <1>2, <2>1, FS_Subset
        <2> QED  BY <2>2, FS_CardinalityType
    <1>4. CASE s = "player"
        <2>1. Threads!By(t, "player")' = mine \cup {n + 1}
            BY <1>1, <1>4 DEF Threads!By
        <2> HIDE DEF mine, n
        <2>2. Cardinality(mine \cup {n + 1}) = Cardinality(mine) + 1
            BY <1>2, <1>3, FS_AddElement
        <2> DEFINE c == Cardinality(mine)
        <2>3. th_pushed'[t] = th_ManagerCount * c + th_ManagerCount
            BY <1>4 DEF mine
        <2>4. c \in Nat /\ Cardinality(mine \cup {n + 1}) = c + 1
            BY <1>3, <2>2
        <2> HIDE DEF c
        <2>5. th_ManagerCount * (c + 1) = th_ManagerCount * c + th_ManagerCount
            BY <2>4 DEF ThreadsCountGiven
        <2> QED  BY <2>1, <2>3, <2>4, <2>5
    <1>5. CASE s # "player"
        <2>1. Threads!By(t, "player")' = mine
            BY <1>1, <1>5 DEF Threads!By
        <2> QED  BY <1>5, <2>1
    <1> QED  BY <1>4, <1>5

-----------------------------------------------------------------------------
(* The steps.                                                                 *)

LEMMA ThreadsInitial == ThreadsCountGiven /\ Threads!Init => ThreadsIInv
    <1> SUFFICES ASSUME ThreadsCountGiven, Threads!Init  PROVE ThreadsIInv
        OBVIOUS
    <1>1. ThreadsShape
        BY ThreadsNoRowIsARow DEF Threads!Init, ThreadsShape, ThreadsOpen, Threads!Idle, Threads!Sides, ThreadsTMessage
    <1>2. ThreadsSerial
        BY DEF Threads!Init, ThreadsSerial, ThreadsOpen, Threads!Idle, Threads!NoRow, Threads!Never
    <1>3. ASSUME NEW t \in th_Threads, NEW s \in Threads!Sides  PROVE Threads!By(t, s) = {}
        BY <1>3 DEF Threads!Init, Threads!By
    <1>4. ThreadsExact
        BY <1>3, ThreadsSidesAreTwo DEF Threads!Init, ThreadsExact, ThreadsFits, Threads!Unseen, Threads!Unread, Threads!NoRow, Threads!Never
    <1>5. Threads!EveryMessageIsPushed
        <2> SUFFICES ASSUME NEW t \in th_Threads
                     PROVE  th_pushed[t] = th_ManagerCount * Cardinality(Threads!By(t, "player"))
            BY ThreadsCount DEF Threads!EveryMessageIsPushed
        <2>1. Cardinality(Threads!By(t, "player")) = 0
            BY <1>3, FS_EmptySet DEF Threads!Sides
        <2> QED  BY <2>1 DEF Threads!Init, ThreadsCountGiven
    <1> QED  BY <1>1, <1>2, <1>4, <1>5 DEF ThreadsIInv

\* A dialogue nobody touches keeps fitting.
LEMMA ThreadsRestFits ==
    ASSUME NEW t \in th_Threads, th_thread'[t] = th_thread[t], th_messages'[t] = th_messages[t],
           th_shown'[t] = th_shown[t]
    PROVE  ThreadsFits(t)' <=> ThreadsFits(t)
    BY DEF ThreadsFits, Threads!Unseen, Threads!By

LEMMA ThreadsBeginKeeps ==
    ASSUME ThreadsIInv, NEW h \in th_Handlers, NEW op \in Threads!Ops, NEW s \in Threads!Sides, NEW t,
           op # "autoclose" => t \in th_Threads, op = "create" => s = "player",
           Threads!Begin(h, op, s, t)
    PROVE  ThreadsIInv'
    <1> DEFINE x == [op |-> op, by |-> s, thread |-> t, snap |-> th_thread[t], moment |-> th_clock + 1]
    <1>1. /\ th_clock' = th_clock + 1 /\ th_txn' = [th_txn EXCEPT ![h] = x] /\ ~ThreadsOpen(h)
          /\ th_overlap' = (th_overlap \/ \E k \in th_Handlers \ {h} : ThreadsOpen(k))
          /\ UNCHANGED <<th_thread, th_messages, th_pushed, th_shown, th_rollbacks>>
        BY DEF Threads!Begin, ThreadsOpen
    <1>2. /\ x.op = op /\ x.by = s /\ x.thread = t /\ x.snap = th_thread[t] /\ x.moment = th_clock + 1
          /\ x.op # "idle"
        BY DEF Threads!Ops
    <1> HIDE DEF x
    <1>3. /\ DOMAIN th_txn' = th_Handlers /\ th_txn'[h] = x
          /\ \A k \in th_Handlers \ {h} : th_txn'[k] = th_txn[k]
        BY <1>1 DEF ThreadsIInv, ThreadsShape
    <1>4. th_clock \in Nat /\ ThreadsIsTxn(x)
        BY <1>2 DEF ThreadsIInv, ThreadsShape, ThreadsIsTxn
    <1>5. ThreadsShape'
        <2>1. \A k \in th_Handlers : ThreadsOpen(k)' => ThreadsIsTxn(th_txn'[k])
            BY <1>3, <1>4 DEF ThreadsIInv, ThreadsShape, ThreadsOpen
        <2> QED  BY <1>1, <1>3, <2>1 DEF ThreadsIInv, ThreadsShape
    <1>6. ThreadsSerial'
        <2> SUFFICES ASSUME ~th_overlap'  PROVE ThreadsSerial'
            BY DEF ThreadsSerial
        <2>1. ~th_overlap /\ \A k \in th_Handlers \ {h} : ~ThreadsOpen(k)
            BY <1>1
        <2>2. \A k \in th_Handlers \ {h} : ~ThreadsOpen(k)'
            BY <2>1, <1>3 DEF ThreadsOpen
        <2>3. \A q \in th_Threads, p \in Threads!Sides : /\ th_thread[q].said[p] \in Nat /\ th_thread[q].read[p] \in Nat
                                                         /\ th_thread[q].said[p] <= th_clock /\ th_thread[q].read[p] <= th_clock
            BY <2>1 DEF ThreadsIInv, ThreadsShape, ThreadsSerial, ThreadsTRow
        <2> QED  BY <1>1, <1>2, <1>3, <1>4, <2>2, <2>3 DEF ThreadsSerial
    <1>7. ThreadsExact' /\ Threads!EveryMessageIsPushed'
        BY <1>1, ThreadsRestFits DEF ThreadsIInv, ThreadsExact, Threads!EveryMessageIsPushed, Threads!By
    <1> QED  BY <1>5, <1>6, <1>7 DEF ThreadsIInv

\* When a handler ends, and requests do not overlap, no transaction is open.
LEMMA ThreadsNobodyIsLeft ==
    ASSUME ThreadsShape, ThreadsSerial, NEW h \in th_Handlers, ThreadsOpen(h), Threads!Done(h)
    PROVE  /\ DOMAIN th_txn' = th_Handlers /\ th_overlap' = th_overlap
           /\ \A k \in th_Handlers : ThreadsOpen(k)' => ThreadsIsTxn(th_txn'[k])
           /\ ~th_overlap => \A k \in th_Handlers : ~ThreadsOpen(k)'
    <1>1. th_txn' = [th_txn EXCEPT ![h] = Threads!Idle] /\ th_overlap' = th_overlap
        BY DEF Threads!Done
    <1>2. /\ DOMAIN th_txn' = th_Handlers /\ th_txn'[h] = Threads!Idle
          /\ \A k \in th_Handlers \ {h} : th_txn'[k] = th_txn[k]
        BY <1>1 DEF ThreadsShape
    <1>3. ~ThreadsOpen(h)'
        BY <1>2 DEF ThreadsOpen, Threads!Idle
    <1>4. \A k \in th_Handlers \ {h} : ThreadsOpen(k)' <=> ThreadsOpen(k)
        BY <1>2 DEF ThreadsOpen
    <1> QED  BY <1>1, <1>2, <1>3, <1>4 DEF ThreadsShape, ThreadsSerial

LEMMA ThreadsMessageKeeps ==
    ASSUME ThreadsIInv, ThreadsCountGiven, NEW h \in th_Handlers, ThreadsOpen(h), NEW t \in th_Threads, NEW s \in Threads!Sides,
           NEW m \in Nat, NEW row \in ThreadsTRow,
           th_thread' = [th_thread EXCEPT ![t] = row],
           Threads!AddMessage(t, s, m), Threads!Notify(t, s), Threads!ShowAll(t, s), Threads!Done(h), th_clock' = th_clock,
           ~th_overlap => /\ row.last = m /\ row.said[s] = m /\ row.read[s] = m
                          /\ row.said[Threads!Other(s)] < m /\ row.read[Threads!Other(s)] < m /\ m <= th_clock
                          /\ row.status = IF s = "manager" THEN "answered" ELSE "open"
    PROVE  ThreadsIInv'
    <1> DEFINE msg == [by |-> s, at |-> m]
    <1>1. /\ DOMAIN th_txn' = th_Handlers /\ th_overlap' = th_overlap
          /\ \A k \in th_Handlers : ThreadsOpen(k)' => ThreadsIsTxn(th_txn'[k])
          /\ ~th_overlap => \A k \in th_Handlers : ~ThreadsOpen(k)'
        BY ThreadsNobodyIsLeft DEF ThreadsIInv
    <1>2. th_thread' \in [th_Threads -> ThreadsTRow] /\ th_thread'[t] = row
          /\ \A q \in th_Threads \ {t} : th_thread'[q] = th_thread[q]
        BY DEF ThreadsIInv, ThreadsShape
    <1>3. /\ th_messages' \in [th_Threads -> Seq(ThreadsTMessage)] /\ th_messages'[t] = Append(th_messages[t], msg)
          /\ \A q \in th_Threads \ {t} : th_messages'[q] = th_messages[q]
        <2>1. msg \in ThreadsTMessage
            BY DEF ThreadsTMessage
        <2> HIDE DEF msg
        <2> QED  BY <2>1 DEF Threads!AddMessage, ThreadsIInv, ThreadsShape, msg
    <1>4. Len(th_messages'[t]) \in Nat /\ Len(th_messages'[t]) = Len(th_messages[t]) + 1
        BY <1>3 DEF ThreadsIInv, ThreadsShape
    <1>5. /\ th_shown' \in [th_Threads -> [Threads!Sides -> Nat]] /\ th_shown'[t][s] = Len(th_messages'[t])
          /\ \A q \in Threads!Sides \ {s} : th_shown'[t][q] = th_shown[t][q]
          /\ \A q \in th_Threads \ {t} : th_shown'[q] = th_shown[q]
        BY <1>4 DEF Threads!ShowAll, ThreadsIInv, ThreadsShape
    <1>6. /\ th_pushed' \in [th_Threads -> Nat]
          /\ th_pushed'[t] = IF s = "player" THEN th_pushed[t] + th_ManagerCount ELSE th_pushed[t]
          /\ \A q \in th_Threads \ {t} : th_pushed'[q] = th_pushed[q]
        BY DEF Threads!Notify, ThreadsIInv, ThreadsShape, ThreadsCountGiven
    <1> HIDE DEF msg
    <1>7. ThreadsShape'
        <2>1. \A q \in th_Threads, p \in Threads!Sides : th_shown'[q][p] <= Len(th_messages'[q])
            <3> TAKE q \in th_Threads, p \in Threads!Sides
            <3>1. th_shown[q][p] <= Len(th_messages[q]) /\ th_shown[q][p] \in Nat /\ Len(th_messages[q]) \in Nat
                BY DEF ThreadsIInv, ThreadsShape
            <3>2. CASE q = t /\ p = s
                BY <1>4, <1>5, <3>2
            <3>3. CASE q = t /\ p # s
                BY <1>4, <1>5, <3>1, <3>3
            <3>4. CASE q # t
                BY <1>3, <1>5, <3>1, <3>4
            <3> QED  BY <3>2, <3>3, <3>4
        <2>2. th_clock' \in Nat
            BY DEF ThreadsIInv, ThreadsShape
        <2> QED  BY <1>1, <1>2, <1>3, <1>5, <1>6, <2>1, <2>2 DEF ThreadsShape
    <1>8. ThreadsSerial'
        <2> SUFFICES ASSUME ~th_overlap'  PROVE ThreadsSerial'
            BY DEF ThreadsSerial
        <2>1. \A q \in th_Threads, p \in Threads!Sides :
                  th_thread[q].said[p] <= th_clock /\ th_thread[q].read[p] <= th_clock
            BY <1>1 DEF ThreadsIInv, ThreadsSerial
        <2>2. \A p \in Threads!Sides : p = s \/ p = Threads!Other(s)
            BY ThreadsSidesAreTwo
        <2>3. \A p \in Threads!Sides : row.said[p] <= th_clock /\ row.read[p] <= th_clock
            <3>1. /\ row.said[Threads!Other(s)] \in Nat /\ row.read[Threads!Other(s)] \in Nat /\ th_clock \in Nat
                BY ThreadsSidesAreTwo DEF ThreadsIInv, ThreadsShape, ThreadsTRow
            <3>2. /\ row.said[s] = m /\ row.read[s] = m /\ m <= th_clock
                  /\ row.said[Threads!Other(s)] < m /\ row.read[Threads!Other(s)] < m
                BY <1>1
            <3> QED  BY <2>2, <3>1, <3>2
        <2>4. \A q \in th_Threads, p \in Threads!Sides :
                  th_thread'[q].said[p] <= th_clock' /\ th_thread'[q].read[p] <= th_clock'
            BY <1>2, <2>1, <2>3
        <2> QED  BY <1>1, <2>4 DEF ThreadsSerial
    <1>9. ThreadsExact'
        <2> SUFFICES ASSUME ~th_overlap', NEW q \in th_Threads  PROVE ThreadsFits(q)'
            BY DEF ThreadsExact
        <2>1. CASE q = t
            <3>1. th_shown'[t][Threads!Other(s)] = th_shown[t][Threads!Other(s)]
                BY <1>5, ThreadsSidesAreTwo
            <3>2. ThreadsShape
                BY DEF ThreadsIInv
            <3> QED  BY <1>1, <1>2, <1>3, <1>5, <2>1, <3>1, <3>2, ThreadsMessageFits DEF msg
        <2>2. CASE q # t
            BY <1>1, <1>2, <1>3, <1>5, <2>2, ThreadsRestFits DEF ThreadsIInv, ThreadsExact
        <2> QED  BY <2>1, <2>2
    <1>10. Threads!EveryMessageIsPushed'
        <2> SUFFICES ASSUME NEW q \in th_Threads
                     PROVE  th_pushed'[q] = th_ManagerCount * Cardinality(Threads!By(q, "player")')
            BY ThreadsCount DEF Threads!EveryMessageIsPushed
        <2>1. CASE q = t
            BY <1>3, <1>6, <2>1, ThreadsCount, ThreadsCountOfMessages DEF msg, ThreadsIInv, Threads!EveryMessageIsPushed
        <2>2. CASE q # t
            <3>1. Threads!By(q, "player")' = Threads!By(q, "player")
                BY <1>3, <2>2 DEF Threads!By
            <3> QED  BY <1>6, <2>2, <3>1, ThreadsCount DEF ThreadsIInv, Threads!EveryMessageIsPushed
        <2> QED  BY <2>1, <2>2
    <1> QED  BY <1>7, <1>8, <1>9, <1>10 DEF ThreadsIInv

LEMMA ThreadsCreateKeeps ==
    ASSUME ThreadsIInv, ThreadsCountGiven, NEW h \in th_Handlers, Threads!CommitCreate(h)
    PROVE  ThreadsIInv'
    <1> DEFINE t == th_txn[h].thread
               m == th_txn[h].moment
               said == Threads!Said(Threads!NoRow, "player", m)
               row == [said EXCEPT !.status = "open"]
    <1>1. /\ ThreadsOpen(h) /\ th_txn[h].op = "create"
          /\ th_thread' = [th_thread EXCEPT ![t] = row]
          /\ Threads!AddMessage(t, "player", m) /\ Threads!Notify(t, "player") /\ Threads!ShowAll(t, "player")
          /\ Threads!Done(h) /\ th_clock' = th_clock
        BY DEF Threads!CommitCreate, ThreadsOpen
    <1>2. t \in th_Threads /\ m \in Nat
        BY <1>1 DEF ThreadsIInv, ThreadsShape, ThreadsIsTxn
    <1> HIDE DEF t, m
    <1>3. "player" \in Threads!Sides /\ Threads!Other("player") \in Threads!Sides /\ Threads!Other("player") # "player"
        BY ThreadsSidesAreTwo DEF Threads!Sides
    <1>4. /\ said \in ThreadsTRow /\ said.status = "open" /\ said.last = m
          /\ said.said["player"] = m /\ said.read["player"] = m
          /\ said.said[Threads!Other("player")] = 0 /\ said.read[Threads!Other("player")] = 0
        BY <1>2, <1>3, ThreadsNoRowIsARow, ThreadsSaidMovesMarks DEF Threads!Never
    <1> HIDE DEF said
    <1>5. row = said
        BY <1>4 DEF ThreadsTRow
    <1> HIDE DEF row
    <1>6. ~th_overlap => m <= th_clock /\ 0 < m
        <2>1. ThreadsOpen(h) /\ ThreadsSerial /\ ThreadsShape
            BY <1>1 DEF ThreadsIInv
        <2>2. ~th_overlap => m <= th_clock /\ th_thread[t].said["player"] < m
            BY <1>2, <1>3, <2>1 DEF ThreadsSerial, m
        <2>3. th_thread[t].said["player"] \in Nat
            BY <1>2, <1>3, <2>1 DEF ThreadsShape, ThreadsTRow
        <2> QED  BY <1>2, <2>2, <2>3
    <1>7. row \in ThreadsTRow
        BY <1>4, <1>5
    <1>8. ~th_overlap =>
              /\ row.last = m /\ row.said["player"] = m /\ row.read["player"] = m
              /\ row.said[Threads!Other("player")] < m /\ row.read[Threads!Other("player")] < m /\ m <= th_clock
              /\ row.status = IF "player" = "manager" THEN "answered" ELSE "open"
        BY <1>4, <1>5, <1>6
    <1> QED  BY <1>1, <1>2, <1>3, <1>7, <1>8, ThreadsMessageKeeps

LEMMA ThreadsPostKeeps ==
    ASSUME ThreadsIInv, ThreadsCountGiven, NEW h \in th_Handlers, Threads!CommitPost(h)
    PROVE  ThreadsIInv'
    <1> DEFINE t == th_txn[h].thread
               s == th_txn[h].by
               m == th_txn[h].moment
               snap == th_txn[h].snap
               said == Threads!Said(snap, s, m)
               row == Threads!Merge(th_thread[t], snap, said)
    <1>1. /\ ThreadsOpen(h) /\ th_txn[h].op = "post"
          /\ th_thread' = [th_thread EXCEPT ![t] = row]
          /\ Threads!AddMessage(t, s, m) /\ Threads!Notify(t, s) /\ Threads!ShowAll(t, s)
          /\ Threads!Done(h) /\ th_clock' = th_clock
        BY DEF Threads!CommitPost, ThreadsOpen
    <1>2. t \in th_Threads /\ s \in Threads!Sides /\ m \in Nat /\ snap \in ThreadsTRow /\ th_thread[t] \in ThreadsTRow
        BY <1>1 DEF ThreadsIInv, ThreadsShape, ThreadsIsTxn
    <1>3. ~th_overlap => /\ snap = th_thread[t] /\ m <= th_clock
                         /\ th_thread[t].said[Threads!Other(s)] < m /\ th_thread[t].read[Threads!Other(s)] < m
        BY <1>1, <1>2, ThreadsSidesAreTwo DEF ThreadsIInv, ThreadsSerial
    <1> HIDE DEF t, m, s, snap
    <1>4. /\ said \in ThreadsTRow /\ said.last = m /\ said.said[s] = m /\ said.read[s] = m
          /\ said.said[Threads!Other(s)] = snap.said[Threads!Other(s)]
          /\ said.read[Threads!Other(s)] = snap.read[Threads!Other(s)]
          /\ said.status = IF s = "manager" THEN "answered" ELSE "open"
        BY <1>2, ThreadsSaidMovesMarks
    <1> HIDE DEF said
    <1>5. row \in ThreadsTRow /\ (~th_overlap => row = said)
        BY <1>2, <1>3, <1>4, ThreadsMergeIsARow, ThreadsMergeOfCurrent
    <1> HIDE DEF row
    <1>6. ~th_overlap =>
              /\ row.last = m /\ row.said[s] = m /\ row.read[s] = m
              /\ row.said[Threads!Other(s)] < m /\ row.read[Threads!Other(s)] < m /\ m <= th_clock
              /\ row.status = IF s = "manager" THEN "answered" ELSE "open"
        BY <1>3, <1>4, <1>5
    <1> QED  BY <1>1, <1>2, <1>5, <1>6, ThreadsMessageKeeps

LEMMA ThreadsReadKeeps ==
    ASSUME ThreadsIInv, NEW h \in th_Handlers, Threads!CommitRead(h)
    PROVE  ThreadsIInv'
    <1> DEFINE t == th_txn[h].thread
               s == th_txn[h].by
               m == th_txn[h].moment
    <1>1. /\ ThreadsOpen(h) /\ th_txn[h].op = "read"
          /\ th_thread' = [th_thread EXCEPT ![t].read[s] = m]
          /\ Threads!ShowAll(t, s) /\ Threads!Done(h) /\ UNCHANGED <<th_messages, th_pushed, th_clock>>
        BY DEF Threads!CommitRead, ThreadsOpen
    <1>2. t \in th_Threads /\ s \in Threads!Sides /\ m \in Nat /\ th_thread[t] \in ThreadsTRow
        BY <1>1 DEF ThreadsIInv, ThreadsShape, ThreadsIsTxn
    <1>3. ~th_overlap => /\ m <= th_clock
                         /\ \A p \in Threads!Sides : th_thread[t].said[p] < m /\ th_thread[t].read[p] < m
        BY <1>1, <1>2 DEF ThreadsIInv, ThreadsSerial
    <1>4. /\ DOMAIN th_txn' = th_Handlers /\ th_overlap' = th_overlap
          /\ \A k \in th_Handlers : ThreadsOpen(k)' => ThreadsIsTxn(th_txn'[k])
          /\ ~th_overlap => \A k \in th_Handlers : ~ThreadsOpen(k)'
        BY <1>1, ThreadsNobodyIsLeft DEF ThreadsIInv
    <1> HIDE DEF t, m, s
    <1> DEFINE row == [th_thread[t] EXCEPT !.read[s] = m]
    <1>5. /\ row \in ThreadsTRow /\ row.last = th_thread[t].last /\ row.status = th_thread[t].status
          /\ row.said = th_thread[t].said /\ row.read[s] = m
          /\ \A p \in Threads!Sides \ {s} : row.read[p] = th_thread[t].read[p]
        BY <1>2 DEF ThreadsTRow
    <1>6. th_thread' = [th_thread EXCEPT ![t] = row]
        BY <1>1, <1>2 DEF ThreadsIInv, ThreadsShape
    <1> HIDE DEF row
    <1>7. /\ th_thread' \in [th_Threads -> ThreadsTRow] /\ th_thread'[t] = row
          /\ \A q \in th_Threads \ {t} : th_thread'[q] = th_thread[q]
        BY <1>2, <1>5, <1>6 DEF ThreadsIInv, ThreadsShape
    <1>8. /\ th_shown' \in [th_Threads -> [Threads!Sides -> Nat]] /\ th_shown'[t][s] = Len(th_messages'[t])
          /\ \A q \in Threads!Sides \ {s} : th_shown'[t][q] = th_shown[t][q]
          /\ \A q \in th_Threads \ {t} : th_shown'[q] = th_shown[q]
        BY <1>1, <1>2 DEF Threads!ShowAll, ThreadsIInv, ThreadsShape
    <1>9. ThreadsShape'
        <2>1. \A q \in th_Threads, p \in Threads!Sides : th_shown'[q][p] <= Len(th_messages'[q])
            <3> TAKE q \in th_Threads, p \in Threads!Sides
            <3>1. th_shown[q][p] <= Len(th_messages[q]) /\ Len(th_messages[q]) \in Nat
                BY DEF ThreadsIInv, ThreadsShape
            <3>2. CASE q = t /\ p = s
                BY <1>1, <1>8, <3>1, <3>2
            <3>3. CASE q = t /\ p # s
                BY <1>1, <1>8, <3>1, <3>3
            <3>4. CASE q # t
                BY <1>1, <1>8, <3>1, <3>4
            <3> QED  BY <3>2, <3>3, <3>4
        <2> QED  BY <1>1, <1>4, <1>7, <1>8, <2>1 DEF ThreadsIInv, ThreadsShape
    <1>10. ThreadsSerial'
        <2> SUFFICES ASSUME ~th_overlap'  PROVE ThreadsSerial'
            BY DEF ThreadsSerial
        <2>1. \A q \in th_Threads, p \in Threads!Sides :
                  th_thread[q].said[p] <= th_clock /\ th_thread[q].read[p] <= th_clock
            BY <1>4 DEF ThreadsIInv, ThreadsSerial
        <2>2. \A p \in Threads!Sides : row.said[p] <= th_clock /\ row.read[p] <= th_clock
            BY <1>2, <1>3, <1>4, <1>5, <2>1
        <2>3. \A q \in th_Threads, p \in Threads!Sides :
                  th_thread'[q].said[p] <= th_clock' /\ th_thread'[q].read[p] <= th_clock'
            BY <1>1, <1>7, <2>1, <2>2
        <2> QED  BY <1>4, <2>3 DEF ThreadsSerial
    <1>11. ThreadsExact'
        <2> SUFFICES ASSUME ~th_overlap', NEW q \in th_Threads  PROVE ThreadsFits(q)'
            BY DEF ThreadsExact
        <2>1. ThreadsFits(q) /\ ThreadsShape
            BY <1>4 DEF ThreadsIInv, ThreadsExact
        <2>2. CASE q = t
            <3>1. Threads!Other(s) \in Threads!Sides \ {s}
                BY <1>2, ThreadsSidesAreTwo
            <3> QED  BY <1>1, <1>2, <1>3, <1>4, <1>5, <1>7, <1>8, <2>1, <2>2, <3>1, ThreadsReadingFits
        <2>3. CASE q # t
            BY <1>1, <1>7, <1>8, <2>1, <2>3, ThreadsRestFits
        <2> QED  BY <2>2, <2>3
    <1>12. Threads!EveryMessageIsPushed'
        BY <1>1 DEF ThreadsIInv, Threads!EveryMessageIsPushed, Threads!By
    <1> QED  BY <1>9, <1>10, <1>11, <1>12 DEF ThreadsIInv

\* A step that at most closes dialogues, by a handler that ends.
LEMMA ThreadsClosingKeeps ==
    ASSUME ThreadsIInv, NEW h \in th_Handlers, ThreadsOpen(h), Threads!Done(h),
           UNCHANGED <<th_messages, th_pushed, th_shown, th_clock>>, th_thread' \in [th_Threads -> ThreadsTRow],
           ~th_overlap => \A t \in th_Threads :
               /\ th_thread'[t].last = th_thread[t].last /\ th_thread'[t].said = th_thread[t].said
               /\ th_thread'[t].read = th_thread[t].read
               /\ th_thread'[t].status \in {th_thread[t].status, "closed"}
    PROVE  ThreadsIInv'
    <1>1. /\ DOMAIN th_txn' = th_Handlers /\ th_overlap' = th_overlap
          /\ \A k \in th_Handlers : ThreadsOpen(k)' => ThreadsIsTxn(th_txn'[k])
          /\ ~th_overlap => \A k \in th_Handlers : ~ThreadsOpen(k)'
        BY ThreadsNobodyIsLeft DEF ThreadsIInv
    <1>2. ThreadsShape'
        BY <1>1 DEF ThreadsIInv, ThreadsShape
    <1>3. ThreadsSerial'
        BY <1>1 DEF ThreadsIInv, ThreadsSerial
    <1>4. ThreadsExact'
        BY <1>1, ThreadsClosingFits DEF ThreadsIInv, ThreadsExact
    <1>5. Threads!EveryMessageIsPushed'
        BY DEF ThreadsIInv, Threads!EveryMessageIsPushed, Threads!By
    <1> QED  BY <1>2, <1>3, <1>4, <1>5 DEF ThreadsIInv

LEMMA ThreadsCloseKeeps ==
    ASSUME ThreadsIInv, NEW h \in th_Handlers, Threads!CommitClose(h)
    PROVE  ThreadsIInv'
    <1> DEFINE t == th_txn[h].thread
               snap == th_txn[h].snap
               new == IF snap.status = "closed" THEN snap
                      ELSE [snap EXCEPT !.status = "closed", !.closed = th_txn[h].moment]
               row == Threads!Merge(th_thread[t], snap, new)
    <1>1. /\ ThreadsOpen(h) /\ th_txn[h].op = "close" /\ th_thread' = [th_thread EXCEPT ![t] = row] /\ Threads!Done(h)
          /\ UNCHANGED <<th_messages, th_pushed, th_shown, th_clock>>
        BY DEF Threads!CommitClose, ThreadsOpen
    <1>2. t \in th_Threads /\ snap \in ThreadsTRow /\ th_thread[t] \in ThreadsTRow /\ th_txn[h].moment \in Nat
        BY <1>1 DEF ThreadsIInv, ThreadsShape, ThreadsIsTxn
    <1>3. ~th_overlap => snap = th_thread[t]
        BY <1>1, <1>2 DEF ThreadsIInv, ThreadsSerial
    <1>4. /\ new \in ThreadsTRow /\ new.last = snap.last /\ new.said = snap.said /\ new.read = snap.read
          /\ new.status = "closed"
        BY <1>2 DEF ThreadsTRow, Threads!Status
    <1> HIDE DEF t, snap, new
    <1>5. row \in ThreadsTRow /\ (~th_overlap => row = new)
        BY <1>2, <1>3, <1>4, ThreadsMergeIsARow, ThreadsMergeOfCurrent
    <1> HIDE DEF row
    <1>6. /\ th_thread' \in [th_Threads -> ThreadsTRow] /\ th_thread'[t] = row
          /\ \A q \in th_Threads \ {t} : th_thread'[q] = th_thread[q]
        BY <1>1, <1>2, <1>5 DEF ThreadsIInv, ThreadsShape
    <1>7. ~th_overlap => \A q \in th_Threads :
              /\ th_thread'[q].last = th_thread[q].last /\ th_thread'[q].said = th_thread[q].said
              /\ th_thread'[q].read = th_thread[q].read
              /\ th_thread'[q].status \in {th_thread[q].status, "closed"}
        BY <1>3, <1>4, <1>5, <1>6
    <1> QED  BY <1>1, <1>6, <1>7, ThreadsClosingKeeps

LEMMA ThreadsAutocloseKeeps ==
    ASSUME ThreadsIInv, NEW h \in th_Handlers, Threads!CommitAutoclose(h)
    PROVE  ThreadsIInv'
    <1> DEFINE row(t) == [th_thread[t] EXCEPT !.status = "closed", !.closed = th_txn[h].moment]
    <1>1. /\ ThreadsOpen(h) /\ Threads!Done(h) /\ UNCHANGED <<th_messages, th_pushed, th_shown, th_clock>>
          /\ th_thread' = [t \in th_Threads |-> IF Threads!Silent(th_thread[t], th_txn[h].moment)
                                                THEN row(t) ELSE th_thread[t]]
        BY DEF Threads!CommitAutoclose, ThreadsOpen
    <1>2. th_txn[h].moment \in Nat /\ \A t \in th_Threads : th_thread[t] \in ThreadsTRow
        BY <1>1 DEF ThreadsIInv, ThreadsShape, ThreadsIsTxn
    <1>3. \A t \in th_Threads : /\ row(t) \in ThreadsTRow /\ row(t).last = th_thread[t].last
                                /\ row(t).said = th_thread[t].said /\ row(t).read = th_thread[t].read
                                /\ row(t).status = "closed"
        BY <1>2 DEF ThreadsTRow, Threads!Status
    <1> HIDE DEF row
    <1>4. \A t \in th_Threads : th_thread'[t] \in {row(t), th_thread[t]}
        BY <1>1
    <1>5. th_thread' \in [th_Threads -> ThreadsTRow]
        BY <1>1, <1>2, <1>3
    <1>6. \A t \in th_Threads :
              /\ th_thread'[t].last = th_thread[t].last /\ th_thread'[t].said = th_thread[t].said
              /\ th_thread'[t].read = th_thread[t].read
              /\ th_thread'[t].status \in {th_thread[t].status, "closed"}
        BY <1>3, <1>4
    <1> QED  BY <1>1, <1>5, <1>6, ThreadsClosingKeeps

LEMMA ThreadsRollbackKeeps ==
    ASSUME ThreadsIInv, NEW h \in th_Handlers, Threads!Rollback(h)
    PROVE  ThreadsIInv'
    <1>1. /\ ThreadsOpen(h) /\ Threads!Done(h) /\ UNCHANGED <<th_thread, th_messages, th_pushed, th_shown, th_clock>>
        BY DEF Threads!Rollback, ThreadsOpen
    <1>2. th_thread' \in [th_Threads -> ThreadsTRow]
        BY <1>1 DEF ThreadsIInv, ThreadsShape
    <1> QED  BY <1>1, <1>2, ThreadsClosingKeeps

LEMMA ThreadsLoadKeeps ==
    ASSUME ThreadsIInv, NEW h \in th_Handlers, Threads!Load(h)
    PROVE  ThreadsIInv'
    <1>1. \E op \in Threads!Ops, s \in Threads!Sides : \E t :
              /\ op # "autoclose" => t \in th_Threads
              /\ op = "create" => s = "player"
              /\ Threads!Begin(h, op, s, t)
        <2>1. CASE \E t \in th_Threads : Threads!LoadForCreate(h, t)
            BY <2>1 DEF Threads!LoadForCreate, Threads!Ops, Threads!Sides
        <2>2. CASE \E t \in th_Threads : Threads!LoadForClose(h, t)
            BY <2>2 DEF Threads!LoadForClose, Threads!Ops, Threads!Sides
        <2>3. CASE \E t \in th_Threads, s \in Threads!Sides : Threads!LoadForPost(h, s, t)
            BY <2>3 DEF Threads!LoadForPost, Threads!Ops
        <2>4. CASE \E t \in th_Threads, s \in Threads!Sides : Threads!LoadForRead(h, s, t)
            BY <2>4 DEF Threads!LoadForRead, Threads!Ops
        <2>5. CASE Threads!LoadForHousekeeping(h)
            BY <2>5 DEF Threads!LoadForHousekeeping, Threads!Ops, Threads!Sides
        <2> QED  BY <2>1, <2>2, <2>3, <2>4, <2>5 DEF Threads!Load
    <1> QED  BY <1>1, ThreadsBeginKeeps

LEMMA ThreadsStutterKeeps == ThreadsIInv /\ UNCHANGED Threads!vars => ThreadsIInv'
    <1> SUFFICES ASSUME ThreadsIInv, UNCHANGED Threads!vars  PROVE ThreadsIInv'
        OBVIOUS
    <1>1. ThreadsShape'
        BY DEF ThreadsIInv, ThreadsShape, Threads!vars, ThreadsOpen
    <1>2. ThreadsSerial'
        BY DEF ThreadsIInv, ThreadsSerial, Threads!vars, ThreadsOpen
    <1>3. ThreadsExact' /\ Threads!EveryMessageIsPushed'
        BY ThreadsRestFits DEF ThreadsIInv, ThreadsExact, Threads!vars, Threads!EveryMessageIsPushed, Threads!By
    <1> QED  BY <1>1, <1>2, <1>3 DEF ThreadsIInv

LEMMA ThreadsStep == ThreadsCountGiven /\ ThreadsIInv /\ [Threads!Next]_(Threads!vars) => ThreadsIInv'
    BY ThreadsLoadKeeps, ThreadsCreateKeeps, ThreadsPostKeeps, ThreadsReadKeeps, ThreadsCloseKeeps, ThreadsAutocloseKeeps, ThreadsRollbackKeeps,
       ThreadsStutterKeeps DEF Threads!Next, Threads!Commit

LEMMA ThreadsInvIsExact == ThreadsIInv => Threads!DialoguesAreExact
    BY DEF ThreadsIInv, ThreadsExact, ThreadsFits, Threads!DialoguesAreExact, Threads!UnreadIsExact, Threads!StatusTellsWhoWroteLast

\* While requests do not overlap, a dialogue is unread for a side just when the
\* other wrote something it was not shown, and the status and the time tell who
\* wrote last; and every message of a player is pushed to every manager.
LEMMA ThreadsDialoguesExact == ASSUME ThreadsCountGiven PROVE Threads!Spec => []Threads!DialoguesAreExact
    <1>1. ThreadsCountGiven /\ Threads!Init => ThreadsIInv
        BY ThreadsInitial
    <1>2. ThreadsCountGiven /\ ThreadsIInv /\ [Threads!Next]_(Threads!vars) => ThreadsIInv'
        BY ThreadsStep
    <1> QED  BY <1>1, <1>2, ThreadsInvIsExact, PTL DEF Threads!Spec

\* A behaviour of the office is one of Threads, with its steps or none.
LEMMA ThreadsPart == Init /\ [][Next]_vars => Threads!Spec
    <1>1. Init => Threads!Init
        BY DEF Init
    <1>2. [Next]_vars => [Threads!Next]_(Threads!vars)
        <2>1. UNCHANGED threadsVars => UNCHANGED Threads!vars
            BY DEF threadsVars, Threads!vars
        <2> QED  BY <2>1 DEF Next, vars
    <1> QED  BY <1>1, <1>2, PTL DEF Threads!Spec

\* While requests do not overlap, a dialogue is unread for a side just when the
\* other wrote something it was not shown, and the status and the time tell who
\* wrote last; and every message of a player is pushed to every manager.
THEOREM DialoguesExact == ASSUME ThreadsCountGiven PROVE Spec => []DialoguesAreExact
    BY ThreadsDialoguesExact, ThreadsPart, PTL DEF Spec, DialoguesAreExact

-----------------------------------------------------------------------------
(* Crm: a broadcast and its segment.                                       *)

\* The sets of the module are counted as everywhere.
LEMMA CrmCount == \A S : Crm!Cardinality(S) = Cardinality(S)
    BY DEF Crm!Cardinality, Cardinality

\* What is asked of the constants: no moment is no number, and a save of a card
\* does not name the moment the player was made.
CrmMomentsGiven ==
    /\ None \notin Int /\ cr_SleepingAfter \in Int
    /\ \A b \in cr_Bodies : "created" \notin DOMAIN b

-----------------------------------------------------------------------------
(* The inductive invariant.                                                   *)

CrmIsMoment(p, t) == t = None \/ (t \in Nat /\ t <= cr_acted[p])

CrmShape ==
    /\ cr_now \in Nat
    /\ DOMAIN cr_sessions = cr_Players /\ DOMAIN cr_asked = cr_Players /\ DOMAIN cr_wrote = cr_Players
    /\ DOMAIN cr_player = cr_Players /\ DOMAIN cr_request = cr_Managers
    /\ cr_acted \in [cr_Players -> Nat]
    /\ \A p \in cr_Players :
          /\ cr_acted[p] <= cr_now
          /\ cr_sessions[p] \subseteq Nat /\ \A t \in cr_sessions[p] : t <= cr_acted[p]
          /\ CrmIsMoment(p, cr_asked[p]) /\ CrmIsMoment(p, cr_wrote[p])
          /\ DOMAIN cr_player[p] = {"status", "kind", "tags", "created"} /\ cr_player[p].created = 0

\* A request to save a card has a body of the form.
CrmSavesAreBodies ==
    \A m \in cr_Managers : cr_request[m].step = "update" => cr_request[m].player \in cr_Players /\ cr_request[m].body \in cr_Bodies

\* Who has not logged out since: one table or another knows what was done last.
CrmLastIsKnown == \A p \in cr_Players \ cr_left : cr_acted[p] \in cr_sessions[p] \cup {cr_asked[p], cr_wrote[p]}

\* What a broadcast has read fits.
CrmGood(r) ==
       /\ \A p \in r.players : Crm!Fits(r, p)
       /\ r.segment.kind = "sleeping" => r.truth.idle \cap r.truth.active \subseteq r.players
       /\ r.segment.kind = "all" => r.players = r.truth.active
CrmReadFits ==
    \A m \in cr_Managers :
        /\ cr_request[m].step \in {"segment", "reach"} => CrmGood(cr_request[m])
        /\ cr_request[m].step = "reach" => cr_request[m].with_push \subseteq cr_request[m].players

\* Broadcasts are numbered, and no row is of one that was not sent.
CrmNumbered ==
    /\ IsFiniteSet(cr_sent)
    /\ \A s \in cr_sent : s.id \in 1..Cardinality(cr_sent)
    /\ \A r \in cr_inbox : r.broadcast \in 1..Cardinality(cr_sent)

CrmActsInv == CrmShape /\ CrmLastIsKnown
CrmSentInv == CrmReadFits /\ CrmNumbered /\ Crm!BroadcastFitsSegment
CrmIInv == CrmActsInv /\ CrmSavesAreBodies /\ CrmSentInv

-----------------------------------------------------------------------------
(* Who is asleep.                                                             *)

\* A set of numbers with a bound has a largest one.
LEMMA CrmMaxIsLargest ==
    ASSUME NEW n \in Nat, NEW T \in SUBSET Nat, \A x \in T : x <= n, T # {}
    PROVE  Crm!Max(T) \in T /\ \A y \in T : y <= Crm!Max(T)
    <1> DEFINE D == {n - x : x \in T}
    <1>0. \A x \in T : n - x \in Nat
        OBVIOUS
    <1>1. D \subseteq Nat /\ D # {}
        BY <1>0
    <1> DEFINE R == OpToRel(<, Nat)
    <1>2. IsWellFoundedOn(R, Nat)
        BY NatLessThanWellFounded
    <1>3. PICK d \in D : \A y \in D : ~(<<y, d>> \in R)
        <2> HIDE DEF D, R
        <2> QED  BY <1>1, <1>2, WFMin
    <1>4. \A y \in D : ~(y < d)
        BY <1>1, <1>3 DEF OpToRel
    <1>5. PICK x \in T : d = n - x
        OBVIOUS
    <1>6. \A y \in T : x >= y
        <2> SUFFICES ASSUME NEW y \in T PROVE x >= y
            OBVIOUS
        <2>1. n - y \in D /\ x \in Nat /\ y \in Nat
            OBVIOUS
        <2>2. ~(n - y < n - x)
            BY <1>4, <1>5, <2>1
        <2> QED  BY <2>1, <2>2
    <1>7. \E z \in T : \A y \in T : z >= y
        BY <1>6
    <1>8. Crm!Max(T) \in T /\ \A y \in T : Crm!Max(T) >= y
        BY <1>7 DEF Crm!Max
    <1>9. \A y \in T : y \in Nat /\ Crm!Max(T) \in Nat
        BY <1>8
    <1> QED  BY <1>8, <1>9

\* The last activity is the latest the tables know of, and never later than the
\* last thing the player did.
LEMMA CrmLastActivity ==
    ASSUME CrmMomentsGiven, CrmActsInv, NEW p \in cr_Players
    PROVE  /\ Crm!last_activity_at(p) = None \/ (Crm!last_activity_at(p) \in Nat /\ Crm!last_activity_at(p) <= cr_acted[p])
           /\ p \notin cr_left => Crm!last_activity_at(p) = cr_acted[p]
    <1> DEFINE S == Crm!Seen(p)
               M == Crm!Range(Crm!activity(p)) \ {None}
    <1>1. /\ cr_acted[p] \in Nat /\ cr_sessions[p] \subseteq Nat /\ (\A t \in cr_sessions[p] : t <= cr_acted[p])
          /\ CrmIsMoment(p, cr_asked[p]) /\ CrmIsMoment(p, cr_wrote[p]) /\ None \notin Nat
        BY DEF CrmActsInv, CrmShape, CrmMomentsGiven
    <1>2. cr_sessions[p] # {} => S \in cr_sessions[p] /\ \A t \in cr_sessions[p] : t <= S
        BY <1>1, CrmMaxIsLargest DEF Crm!Seen
    <1>3. cr_sessions[p] = {} => S = None
        BY DEF Crm!Seen
    <1>4. CrmIsMoment(p, S)
        BY <1>1, <1>2, <1>3 DEF CrmIsMoment
    <1>5. M = {S, cr_asked[p], cr_wrote[p]} \ {None}
        BY DEF Crm!Range, Crm!activity
    <1> HIDE DEF S, M
    <1>6. M \in SUBSET Nat /\ \A x \in M : x <= cr_acted[p]
        BY <1>1, <1>4, <1>5 DEF CrmIsMoment
    <1>7. Crm!last_activity_at(p) = IF M = {} THEN None ELSE Crm!Max(M)
        BY DEF Crm!last_activity_at, M
    <1>8. M # {} => Crm!Max(M) \in M /\ \A y \in M : y <= Crm!Max(M)
        BY <1>1, <1>6, CrmMaxIsLargest
    <1>9. ASSUME p \notin cr_left PROVE Crm!last_activity_at(p) = cr_acted[p]
        <2>1. cr_acted[p] \in cr_sessions[p] \cup {cr_asked[p], cr_wrote[p]}
            BY <1>9 DEF CrmActsInv, CrmLastIsKnown
        <2>2. cr_acted[p] \in M
            <3>1. CASE cr_acted[p] \in cr_sessions[p]
                <4>1. S \in Nat /\ S <= cr_acted[p] /\ cr_acted[p] <= S
                    BY <1>1, <1>2, <3>1
                <4> QED  BY <1>1, <1>5, <4>1
            <3>2. CASE cr_acted[p] \in {cr_asked[p], cr_wrote[p]}
                BY <1>1, <1>5, <3>2
            <3> QED  BY <2>1, <3>1, <3>2
        <2>3. Crm!Max(M) \in Nat /\ Crm!Max(M) <= cr_acted[p] /\ cr_acted[p] <= Crm!Max(M)
            BY <1>6, <1>8, <2>2
        <2> QED  BY <1>1, <1>7, <2>2, <2>3
    <1>10. Crm!last_activity_at(p) = None \/ (Crm!last_activity_at(p) \in Nat /\ Crm!last_activity_at(p) <= cr_acted[p])
        BY <1>6, <1>7, <1>8
    <1> QED  BY <1>9, <1>10

\* Who is asleep did nothing for a while, or logged out; who did nothing for a
\* while is asleep.
LEMMA CrmSleepersIdle ==
    ASSUME CrmMomentsGiven, CrmActsInv, NEW p \in cr_Players
    PROVE  /\ Crm!is_sleeping(p) => cr_player[p].status = "active" /\ (cr_acted[p] < cr_now - cr_SleepingAfter \/ p \in cr_left)
           /\ cr_player[p].status = "active" /\ cr_acted[p] < cr_now - cr_SleepingAfter => Crm!is_sleeping(p)
    <1> DEFINE last == Crm!last_activity_at(p)
               reference == IF last = None THEN cr_player[p].created ELSE last
    <1>1. /\ last = None \/ (last \in Nat /\ last <= cr_acted[p])
          /\ p \notin cr_left => last = cr_acted[p]
        BY CrmLastActivity
    <1>2. /\ cr_acted[p] \in Nat /\ cr_now \in Nat /\ cr_SleepingAfter \in Int /\ cr_player[p].created = 0
          /\ None \notin Nat
        BY DEF CrmActsInv, CrmShape, CrmMomentsGiven
    <1>3. Crm!is_sleeping(p) <=> cr_player[p].status = "active" /\ reference < cr_now - cr_SleepingAfter
        BY DEF Crm!is_sleeping
    <1> HIDE DEF last
    <1>4. reference \in Nat /\ reference <= cr_acted[p]
        BY <1>1, <1>2
    <1>5. p \notin cr_left => reference = cr_acted[p]
        BY <1>1, <1>2
    <1> HIDE DEF reference
    <1> DEFINE edge == cr_now - cr_SleepingAfter
    <1>6. edge \in Int
        BY <1>2
    <1> HIDE DEF edge
    <1>7. cr_acted[p] < edge => reference < edge
        BY <1>2, <1>4, <1>6
    <1>8. Crm!is_sleeping(p) <=> cr_player[p].status = "active" /\ reference < edge
        BY <1>3 DEF edge
    <1>9. /\ Crm!is_sleeping(p) => cr_player[p].status = "active" /\ (cr_acted[p] < edge \/ p \in cr_left)
          /\ cr_player[p].status = "active" /\ cr_acted[p] < edge => Crm!is_sleeping(p)
        BY <1>5, <1>7, <1>8
    <1> QED  BY <1>9 DEF edge

\* What a broadcast reads fits.
LEMMA CrmSegmentFits ==
    ASSUME CrmMomentsGiven, CrmActsInv, NEW segment,
           NEW r, r.players = Crm!segment_players(segment), r.segment = segment, r.truth = Crm!Truth
    PROVE  CrmGood(r)
    <1>1. ASSUME NEW p \in r.players PROVE Crm!Fits(r, p)
        <2>1. /\ p \in cr_Players /\ p \in Crm!Active
              /\ segment.kind = "sleeping" => Crm!is_sleeping(p)
              /\ segment.kind = "player_kind" => cr_player[p].kind = segment.of
              /\ segment.kind = "tag" => segment.of \in cr_player[p].tags
            BY <1>1 DEF Crm!segment_players, Crm!Active
        <2>2. segment.kind = "sleeping" => p \in Crm!Truth.idle \cup Crm!Truth.left
            BY <2>1, CrmSleepersIdle DEF Crm!Truth
        <2> QED  BY <2>1, <2>2 DEF Crm!Fits, Crm!Truth
    <1>2. segment.kind = "sleeping" => Crm!Truth.idle \cap Crm!Truth.active \subseteq r.players
        <2> SUFFICES ASSUME segment.kind = "sleeping", NEW p \in Crm!Truth.idle \cap Crm!Truth.active
                     PROVE  p \in Crm!segment_players(segment)
            OBVIOUS
        <2>1. p \in Crm!Active /\ p \in cr_Players /\ cr_acted[p] < cr_now - cr_SleepingAfter
            BY DEF Crm!Truth, Crm!Active
        <2>2. Crm!is_sleeping(p)
            BY <2>1, CrmSleepersIdle DEF Crm!Active
        <2> QED  BY <2>1, <2>2 DEF Crm!segment_players
    <1>3. segment.kind = "all" => r.players = Crm!Truth.active
        BY DEF Crm!segment_players, Crm!Truth
    <1> QED  BY <1>1, <1>2, <1>3 DEF CrmGood

-----------------------------------------------------------------------------
(* What the players do.                                                       *)

\* A player does something: it is in one of the tables, and later than all else.
LEMMA CrmActsKeep ==
    ASSUME CrmActsInv, NEW p \in cr_Players, cr_acted' = [cr_acted EXCEPT ![p] = cr_now],
           UNCHANGED <<cr_now, cr_player, cr_request>>,
           DOMAIN cr_sessions' = cr_Players, DOMAIN cr_asked' = cr_Players, DOMAIN cr_wrote' = cr_Players,
           \A q \in cr_Players \ {p} : /\ cr_sessions'[q] = cr_sessions[q] /\ cr_asked'[q] = cr_asked[q] /\ cr_wrote'[q] = cr_wrote[q]
                                       /\ q \in cr_left' <=> q \in cr_left,
           cr_sessions'[p] \subseteq cr_sessions[p] \cup {cr_now}, cr_asked'[p] \in {cr_asked[p], cr_now},
           cr_wrote'[p] \in {cr_wrote[p], cr_now},
           cr_now \in cr_sessions'[p] \cup {cr_asked'[p], cr_wrote'[p]}
    PROVE  CrmActsInv'
    <1>1. /\ cr_now \in Nat /\ cr_acted \in [cr_Players -> Nat] /\ cr_acted[p] <= cr_now
          /\ cr_sessions[p] \subseteq Nat /\ (\A t \in cr_sessions[p] : t <= cr_acted[p])
          /\ CrmIsMoment(p, cr_asked[p]) /\ CrmIsMoment(p, cr_wrote[p])
        BY DEF CrmActsInv, CrmShape
    <1>2. cr_acted' \in [cr_Players -> Nat] /\ cr_acted'[p] = cr_now /\ \A q \in cr_Players \ {p} : cr_acted'[q] = cr_acted[q]
        BY <1>1
    <1>3. /\ cr_sessions'[p] \subseteq Nat /\ (\A t \in cr_sessions'[p] : t <= cr_acted'[p])
          /\ CrmIsMoment(p, cr_asked[p])' /\ CrmIsMoment(p, cr_wrote[p])'
        BY <1>1, <1>2 DEF CrmIsMoment
    <1>4. ASSUME NEW q \in cr_Players
          PROVE  /\ cr_acted'[q] <= cr_now
                 /\ cr_sessions'[q] \subseteq Nat /\ \A t \in cr_sessions'[q] : t <= cr_acted'[q]
                 /\ CrmIsMoment(q, cr_asked[q])' /\ CrmIsMoment(q, cr_wrote[q])'
                 /\ DOMAIN cr_player[q] = {"status", "kind", "tags", "created"} /\ cr_player[q].created = 0
        <2>1. CASE q = p
            BY <1>1, <1>2, <1>3, <2>1 DEF CrmActsInv, CrmShape
        <2>2. CASE q # p
            BY <1>2, <2>2 DEF CrmActsInv, CrmShape, CrmIsMoment
        <2> QED  BY <2>1, <2>2
    <1>5. CrmShape'
        BY <1>1, <1>2, <1>4 DEF CrmActsInv, CrmShape
    <1>6. CrmLastIsKnown'
        BY <1>2 DEF CrmActsInv, CrmLastIsKnown
    <1> QED  BY <1>5, <1>6 DEF CrmActsInv

\* The end of a session is remembered.
LEMMA CrmLogoutKeeps ==
    ASSUME CrmActsInv, NEW p \in cr_Players, NEW old, Crm!logout_session(p, old)
    PROVE  CrmActsInv'
    <1>1. /\ cr_sessions' = [cr_sessions EXCEPT ![p] = @ \ {old}]
          /\ cr_left' = cr_left \cup {p}
          /\ UNCHANGED <<cr_now, cr_player, cr_asked, cr_wrote, cr_request, cr_acted>>
        BY DEF Crm!logout_session
    <1>2. CrmShape'
        BY <1>1 DEF CrmActsInv, CrmShape, CrmIsMoment
    <1>3. CrmLastIsKnown'
        BY <1>1 DEF CrmActsInv, CrmLastIsKnown, CrmShape
    <1> QED  BY <1>2, <1>3 DEF CrmActsInv

\* A saved card keeps its fields and the moment it was made.
LEMMA CrmSaveKeeps ==
    ASSUME CrmMomentsGiven, CrmIInv, NEW m \in cr_Managers, Crm!UpdateCommit(m)
    PROVE  CrmActsInv'
    <1> DEFINE q == cr_request[m].player
               b == cr_request[m].body
               new == [f \in DOMAIN cr_player[q] |->
                          IF f \in DOMAIN b /\ b[f] # cr_request[m].was[f] THEN b[f] ELSE cr_player[q][f]]
    <1>1. q \in cr_Players /\ "created" \notin DOMAIN b
        BY DEF Crm!UpdateCommit, CrmIInv, CrmSavesAreBodies, CrmMomentsGiven
    <1>2. cr_player' = [cr_player EXCEPT ![q] = new]
        BY DEF Crm!UpdateCommit
    <1>3. UNCHANGED <<cr_now, cr_sessions, cr_asked, cr_wrote, cr_acted, cr_left>> /\ DOMAIN cr_request' = cr_Managers
        BY DEF Crm!UpdateCommit, CrmIInv, CrmActsInv, CrmShape
    <1>4. DOMAIN cr_player[q] = {"status", "kind", "tags", "created"} /\ cr_player[q].created = 0 /\ DOMAIN cr_player = cr_Players
        BY <1>1 DEF CrmIInv, CrmActsInv, CrmShape
    <1>5. DOMAIN new = {"status", "kind", "tags", "created"} /\ new.created = 0
        BY <1>1, <1>4
    <1> HIDE DEF q, new
    <1>6. \A p \in cr_Players : cr_player'[p] = IF p = q THEN new ELSE cr_player[p]
        BY <1>1, <1>2, <1>4
    <1>7. CrmShape'
        BY <1>2, <1>3, <1>4, <1>5, <1>6 DEF CrmIInv, CrmActsInv, CrmShape, CrmIsMoment
    <1>8. CrmLastIsKnown'
        BY <1>3 DEF CrmIInv, CrmActsInv, CrmLastIsKnown
    <1> QED  BY <1>7, <1>8 DEF CrmActsInv

\* Steps that none of the tables of activity sees.
LEMMA CrmActsRest ==
    ASSUME CrmActsInv, UNCHANGED Crm!acts, cr_now' \in Nat, cr_now <= cr_now', DOMAIN cr_request' = cr_Managers
    PROVE  CrmActsInv'
    <1>1. \A p \in cr_Players : cr_acted[p] \in Nat /\ cr_acted[p] <= cr_now /\ cr_now \in Nat
        BY DEF CrmActsInv, CrmShape
    <1>2. \A p \in cr_Players : cr_acted[p] <= cr_now'
        BY <1>1
    <1>3. CrmShape'
        BY <1>2 DEF CrmActsInv, CrmShape, CrmIsMoment, Crm!acts
    <1>4. CrmLastIsKnown'
        BY DEF CrmActsInv, CrmLastIsKnown, Crm!acts
    <1> QED  BY <1>3, <1>4 DEF CrmActsInv

-----------------------------------------------------------------------------
(* Broadcasts.                                                                *)

\* Steps that leave what was read and sent alone.
LEMMA CrmSentRests ==
    ASSUME CrmSentInv, UNCHANGED <<cr_inbox, cr_sent>>,
           \A m \in cr_Managers : cr_request'[m] = cr_request[m] \/ cr_request'[m].step \notin {"segment", "reach"}
    PROVE  CrmSentInv'
    <1>1. CrmReadFits'
        BY DEF CrmSentInv, CrmReadFits
    <1> QED  BY <1>1 DEF CrmSentInv, CrmNumbered, Crm!BroadcastFitsSegment

\* A request goes on with what it has read.
LEMMA CrmReadKeeps ==
    ASSUME CrmSentInv, NEW m \in cr_Managers, NEW r, DOMAIN cr_request = cr_Managers,
           cr_request' = [cr_request EXCEPT ![m] = r], UNCHANGED <<cr_inbox, cr_sent>>,
           CrmGood(r), r.step = "reach" => r.with_push \subseteq r.players
    PROVE  CrmSentInv'
    <1>1. CrmReadFits'
        BY DEF CrmSentInv, CrmReadFits
    <1> QED  BY <1>1 DEF CrmSentInv, CrmNumbered, Crm!BroadcastFitsSegment

\* A broadcast is queued: its number is new, and its rows are of those it reached.
LEMMA CrmBroadcastKeeps ==
    ASSUME CrmSentInv, NEW m \in cr_Managers, DOMAIN cr_request = cr_Managers, Crm!BroadcastCommit(m)
    PROVE  CrmSentInv'
    <1> DEFINE r == cr_request[m]
               n == Cardinality(cr_sent)
               new == [id |-> n + 1, segment |-> r.segment, recipients |-> r.players,
                       pushes |-> Cardinality(r.with_push), truth |-> r.truth]
    <1>1. /\ r.step = "reach"
          /\ cr_inbox' = cr_inbox \cup Crm!Queued(m, n + 1)
          /\ cr_sent' = cr_sent \cup {new}
          /\ cr_request' = [cr_request EXCEPT ![m] = Crm!Quiet]
        BY CrmCount DEF Crm!BroadcastCommit
    <1>2. CrmGood(r) /\ r.with_push \subseteq r.players
        BY <1>1 DEF CrmSentInv, CrmReadFits
    <1>3. n \in Nat /\ IsFiniteSet(cr_sent)
        BY FS_CardinalityType DEF CrmSentInv, CrmNumbered
    <1>4. /\ new.id = n + 1 /\ new.segment = r.segment /\ new.recipients = r.players /\ new.truth = r.truth
        OBVIOUS
    <1>5. \A x \in Crm!Queued(m, n + 1) : x.broadcast = n + 1 /\ x.player \in r.with_push
        BY DEF Crm!Queued, Crm!Rows
    <1> HIDE DEF new, n
    <1>6. \A s \in cr_sent : s.id \in 1..n
        BY DEF CrmSentInv, CrmNumbered, n
    <1>7. new \notin cr_sent
        BY <1>3, <1>4, <1>6
    <1>8. IsFiniteSet(cr_sent') /\ Cardinality(cr_sent') = n + 1
        BY <1>1, <1>3, <1>7, FS_AddElement DEF n
    <1>9. \A x \in cr_inbox : x.broadcast \in 1..n
        BY DEF CrmSentInv, CrmNumbered, n
    <1>10. CrmNumbered'
        <2>1. \A s \in cr_sent' : s.id \in 1..(n + 1)
            BY <1>1, <1>3, <1>4, <1>6
        <2>2. \A x \in cr_inbox' : x.broadcast \in 1..(n + 1)
            BY <1>1, <1>3, <1>5, <1>9
        <2> QED  BY <1>8, <2>1, <2>2 DEF CrmNumbered
    <1>11. CrmReadFits'
        BY <1>1 DEF CrmSentInv, CrmReadFits, Crm!Quiet
    <1>12. Crm!BroadcastFitsSegment'
        <2> SUFFICES ASSUME NEW s \in cr_sent'
                     PROVE  /\ \A p \in s.recipients : Crm!Fits(s, p)
                            /\ \A x \in cr_inbox' : x.broadcast = s.id => x.player \in s.recipients
                            /\ s.segment.kind = "sleeping" => s.truth.idle \cap s.truth.active \subseteq s.recipients
                            /\ s.segment.kind = "all" => s.recipients = s.truth.active
            BY DEF Crm!BroadcastFitsSegment, Crm!Fits
        <2>1. CASE s = new
            <3>1. \A p \in s.recipients : Crm!Fits(s, p)
                BY <1>2, <1>4, <2>1 DEF CrmGood, Crm!Fits
            <3>2. \A x \in cr_inbox' : x.broadcast = s.id => x.player \in s.recipients
                BY <1>1, <1>2, <1>3, <1>4, <1>5, <1>9, <2>1
            <3> QED  BY <1>2, <1>4, <2>1, <3>1, <3>2 DEF CrmGood
        <2>2. CASE s \in cr_sent
            <3>1. \A x \in cr_inbox' : x.broadcast = s.id => x \in cr_inbox
                BY <1>1, <1>3, <1>5, <1>6, <2>2
            <3> QED  BY <2>2, <3>1 DEF CrmSentInv, Crm!BroadcastFitsSegment
        <2> QED  BY <1>1, <2>1, <2>2
    <1> QED  BY <1>10, <1>11, <1>12 DEF CrmSentInv

\* Delivering and reading change the state of a row and not whose it is.
LEMMA CrmInboxKeeps ==
    ASSUME CrmSentInv, UNCHANGED <<cr_sent, cr_request>>,
           \A y \in cr_inbox' : \E x \in cr_inbox : y.broadcast = x.broadcast /\ y.player = x.player
    PROVE  CrmSentInv'
    <1>1. CrmReadFits'
        BY DEF CrmSentInv, CrmReadFits
    <1>2. CrmNumbered'
        BY DEF CrmSentInv, CrmNumbered
    <1>3. Crm!BroadcastFitsSegment'
        <2>1. \A s \in cr_sent, y \in cr_inbox' : y.broadcast = s.id => y.player \in s.recipients
            BY DEF CrmSentInv, Crm!BroadcastFitsSegment
        <2> QED  BY <2>1 DEF CrmSentInv, Crm!BroadcastFitsSegment
    <1> QED  BY <1>1, <1>2, <1>3 DEF CrmSentInv

\* A row of the queue has the fields a broadcast gives it.
CrmIsRow(r) == DOMAIN r = {"broadcast", "player", "channel", "status", "read"}
CrmRowsAreRows == \A r \in cr_inbox : CrmIsRow(r)

LEMMA CrmRowChanges ==
    ASSUME NEW r, CrmIsRow(r), NEW v
    PROVE  /\ CrmIsRow([r EXCEPT !.status = v]) /\ [r EXCEPT !.status = v].broadcast = r.broadcast
           /\ [r EXCEPT !.status = v].player = r.player
           /\ CrmIsRow([r EXCEPT !.read = v]) /\ [r EXCEPT !.read = v].broadcast = r.broadcast
           /\ [r EXCEPT !.read = v].player = r.player
    BY DEF CrmIsRow

LEMMA CrmRowsStayRows == CrmRowsAreRows /\ [Crm!Next]_(Crm!vars) => CrmRowsAreRows'
    <1> SUFFICES ASSUME CrmRowsAreRows, [Crm!Next]_(Crm!vars) PROVE CrmRowsAreRows'
        OBVIOUS
    <1>1. CASE cr_inbox' = cr_inbox
        BY <1>1 DEF CrmRowsAreRows
    <1>2. ASSUME NEW m, Crm!BroadcastCommit(m) PROVE CrmRowsAreRows'
        <2>1. PICK b : cr_inbox' = cr_inbox \cup Crm!Queued(m, b)
            BY <1>2 DEF Crm!BroadcastCommit
        <2>2. \A r \in Crm!Queued(m, b) : CrmIsRow(r)
            BY DEF Crm!Queued, Crm!Rows, CrmIsRow
        <2> QED  BY <2>1, <2>2 DEF CrmRowsAreRows
    <1>3. ASSUME NEW row, Crm!Deliver(row) PROVE CrmRowsAreRows'
        <2>1. PICK v : cr_inbox' = (cr_inbox \ {row}) \cup {[row EXCEPT !.status = v]} /\ row \in cr_inbox
            BY <1>3 DEF Crm!Deliver
        <2> QED  BY <2>1, CrmRowChanges DEF CrmRowsAreRows
    <1>4. ASSUME NEW p, Crm!mark_notifications_read(p) PROVE CrmRowsAreRows'
        <2>1. cr_inbox' = (cr_inbox \ Crm!Unread(p)) \cup {[r EXCEPT !.read = TRUE] : r \in Crm!Unread(p)} /\ Crm!Unread(p) \subseteq cr_inbox
            BY <1>4 DEF Crm!mark_notifications_read, Crm!Unread, Crm!Listed
        <2> QED  BY <2>1, CrmRowChanges DEF CrmRowsAreRows
    <1>5. cr_inbox' = cr_inbox \/ (\E m : Crm!BroadcastCommit(m)) \/ (\E row : Crm!Deliver(row)) \/ (\E p : Crm!mark_notifications_read(p))
        BY DEF Crm!Next, Crm!vars, Crm!Visit, Crm!create_request, Crm!post_player_message, Crm!logout_session, Crm!SwitchPush,
               Crm!UpdateRead, Crm!UpdateCommit, Crm!BroadcastRead, Crm!BroadcastReach, Crm!Tick
    <1> QED  BY <1>1, <1>2, <1>3, <1>4, <1>5

-----------------------------------------------------------------------------
(* The steps.                                                                 *)

\* Steps of the players leave the requests and what was sent alone.
LEMMA CrmPlayersStep ==
    ASSUME CrmMomentsGiven, CrmIInv, NEW p \in cr_Players, NEW old,
           \/ Crm!Visit(p, old) \/ Crm!create_request(p) \/ Crm!post_player_message(p)
           \/ Crm!logout_session(p, old) \/ Crm!SwitchPush(p)
    PROVE  CrmIInv'
    <1>1. UNCHANGED <<cr_request, cr_inbox, cr_sent>>
        BY DEF Crm!Visit, Crm!create_request, Crm!post_player_message, Crm!logout_session, Crm!SwitchPush
    <1>2. CrmSavesAreBodies' /\ CrmSentInv'
        BY <1>1, CrmSentRests DEF CrmIInv, CrmSavesAreBodies
    <1>3. CASE Crm!Visit(p, old)
        <2>1. /\ cr_acted' = [cr_acted EXCEPT ![p] = cr_now] /\ cr_sessions' = [cr_sessions EXCEPT ![p] = (@ \ {old}) \cup {cr_now}]
              /\ cr_left' = cr_left \ {p} /\ UNCHANGED <<cr_now, cr_player, cr_request, cr_asked, cr_wrote>>
            BY <1>3 DEF Crm!Visit, Crm!Acts
        <2> QED  BY <1>2, <2>1, CrmActsKeep DEF CrmIInv, CrmActsInv, CrmShape
    <1>4. CASE Crm!create_request(p)
        <2>1. /\ cr_acted' = [cr_acted EXCEPT ![p] = cr_now] /\ cr_asked' = [cr_asked EXCEPT ![p] = cr_now]
              /\ UNCHANGED <<cr_now, cr_player, cr_request, cr_sessions, cr_wrote, cr_left>>
            BY <1>4 DEF Crm!create_request, Crm!Acts
        <2> QED  BY <1>2, <2>1, CrmActsKeep DEF CrmIInv, CrmActsInv, CrmShape
    <1>5. CASE Crm!post_player_message(p)
        <2>1. /\ cr_acted' = [cr_acted EXCEPT ![p] = cr_now] /\ cr_wrote' = [cr_wrote EXCEPT ![p] = cr_now]
              /\ UNCHANGED <<cr_now, cr_player, cr_request, cr_sessions, cr_asked, cr_left>>
            BY <1>5 DEF Crm!post_player_message, Crm!Acts
        <2> QED  BY <1>2, <2>1, CrmActsKeep DEF CrmIInv, CrmActsInv, CrmShape
    <1>6. CASE Crm!logout_session(p, old)
        BY <1>2, <1>6, CrmLogoutKeeps DEF CrmIInv
    <1>7. CASE Crm!SwitchPush(p)
        <2>1. UNCHANGED <<cr_now, Crm!acts, cr_request>>
            BY <1>7 DEF Crm!SwitchPush
        <2> QED  BY <1>2, <2>1, CrmActsRest DEF CrmIInv, CrmActsInv, CrmShape
    <1> QED  BY <1>3, <1>4, <1>5, <1>6, <1>7

LEMMA CrmManagersStep ==
    ASSUME CrmMomentsGiven, CrmIInv, NEW m \in cr_Managers, NEW p \in cr_Players, NEW body \in cr_Bodies, Crm!UpdateRead(m, p, body)
    PROVE  CrmIInv'
    <1> DEFINE r == [step |-> "update", player |-> p, body |-> body, was |-> cr_player[p]]
    <1>1. cr_request' = [cr_request EXCEPT ![m] = r] /\ UNCHANGED <<cr_now, Crm!acts, cr_inbox, cr_sent>>
        BY DEF Crm!UpdateRead
    <1>2. r.step = "update" /\ r.player = p /\ r.body = body
        OBVIOUS
    <1> HIDE DEF r
    <1>3. DOMAIN cr_request' = cr_Managers /\ \A k \in cr_Managers : cr_request'[k] = IF k = m THEN r ELSE cr_request[k]
        BY <1>1 DEF CrmIInv, CrmActsInv, CrmShape
    <1>4. CrmSavesAreBodies' /\ CrmSentInv'
        BY <1>1, <1>2, <1>3, CrmSentRests DEF CrmIInv, CrmSavesAreBodies
    <1> QED  BY <1>1, <1>3, <1>4, CrmActsRest DEF CrmIInv, CrmActsInv, CrmShape

LEMMA CrmSaveStep ==
    ASSUME CrmMomentsGiven, CrmIInv, NEW m \in cr_Managers, Crm!UpdateCommit(m)
    PROVE  CrmIInv'
    <1>1. cr_request' = [cr_request EXCEPT ![m] = Crm!Quiet] /\ UNCHANGED <<cr_inbox, cr_sent>> /\ DOMAIN cr_request = cr_Managers
        BY DEF Crm!UpdateCommit, CrmIInv, CrmActsInv, CrmShape
    <1>2. \A k \in cr_Managers : cr_request'[k] = cr_request[k] \/ cr_request'[k].step = "idle"
        BY <1>1 DEF Crm!Quiet
    <1>3. CrmSavesAreBodies' /\ CrmSentInv'
        BY <1>1, <1>2, CrmSentRests DEF CrmIInv, CrmSavesAreBodies
    <1> QED  BY <1>3, CrmSaveKeeps DEF CrmIInv

LEMMA CrmBroadcastStep ==
    ASSUME CrmMomentsGiven, CrmIInv, NEW m \in cr_Managers, NEW segment,
           Crm!BroadcastRead(m, segment) \/ Crm!BroadcastReach(m) \/ Crm!BroadcastCommit(m)
    PROVE  CrmIInv'
    <1>0. DOMAIN cr_request = cr_Managers /\ cr_now \in Nat /\ cr_now <= cr_now
        BY DEF CrmIInv, CrmActsInv, CrmShape
    <1>1. ASSUME NEW r, r.step # "update", cr_request' = [cr_request EXCEPT ![m] = r], UNCHANGED <<cr_now, Crm!acts>>
          PROVE  CrmActsInv' /\ CrmSavesAreBodies'
        <2>1. DOMAIN cr_request' = cr_Managers /\ \A k \in cr_Managers : cr_request'[k] = IF k = m THEN r ELSE cr_request[k]
            BY <1>0, <1>1
        <2> QED  BY <1>0, <1>1, <2>1, CrmActsRest DEF CrmIInv, CrmSavesAreBodies
    <1>2. CASE Crm!BroadcastRead(m, segment)
        <2> DEFINE r == [step |-> "segment", segment |-> segment, players |-> Crm!segment_players(segment), truth |-> Crm!Truth]
        <2>1. cr_request' = [cr_request EXCEPT ![m] = r] /\ UNCHANGED <<cr_now, Crm!acts, cr_inbox, cr_sent>>
            BY <1>2 DEF Crm!BroadcastRead
        <2>2. r.step = "segment" /\ r.players = Crm!segment_players(segment) /\ r.segment = segment /\ r.truth = Crm!Truth
            OBVIOUS
        <2> HIDE DEF r
        <2>3. CrmGood(r)
            BY <2>2, CrmSegmentFits DEF CrmIInv
        <2>4. CrmSentInv'
            BY <1>0, <2>1, <2>2, <2>3, CrmReadKeeps DEF CrmIInv
        <2> QED  BY <1>1, <2>1, <2>2, <2>4 DEF CrmIInv
    <1>3. CASE Crm!BroadcastReach(m)
        <2> DEFINE o == cr_request[m]
                   r == [step |-> "reach", segment |-> o.segment, players |-> o.players,
                         truth |-> o.truth, with_push |-> Crm!users_with_push(o.players)]
        <2>1. cr_request' = [cr_request EXCEPT ![m] = r] /\ UNCHANGED <<cr_now, Crm!acts, cr_inbox, cr_sent>> /\ o.step = "segment"
            BY <1>3 DEF Crm!BroadcastReach
        <2>2. /\ r.step = "reach" /\ r.players = o.players /\ r.segment = o.segment /\ r.truth = o.truth
              /\ r.with_push \subseteq r.players
            BY DEF Crm!users_with_push
        <2> HIDE DEF r
        <2>3. CrmGood(r)
            BY <2>1, <2>2 DEF CrmIInv, CrmSentInv, CrmReadFits, CrmGood, Crm!Fits
        <2>4. CrmSentInv'
            BY <1>0, <2>1, <2>2, <2>3, CrmReadKeeps DEF CrmIInv
        <2> QED  BY <1>1, <2>1, <2>2, <2>4 DEF CrmIInv
    <1>4. CASE Crm!BroadcastCommit(m)
        <2>1. cr_request' = [cr_request EXCEPT ![m] = Crm!Quiet] /\ UNCHANGED <<cr_now, Crm!acts>> /\ Crm!Quiet.step # "update"
            BY <1>4 DEF Crm!BroadcastCommit, Crm!Quiet
        <2>2. CrmSentInv'
            BY <1>0, <1>4, CrmBroadcastKeeps DEF CrmIInv
        <2> QED  BY <1>1, <2>1, <2>2 DEF CrmIInv
    <1> QED  BY <1>2, <1>3, <1>4

LEMMA CrmInboxStep ==
    ASSUME CrmMomentsGiven, CrmIInv, CrmRowsAreRows, NEW row, NEW p, Crm!Deliver(row) \/ Crm!mark_notifications_read(p)
    PROVE  CrmIInv'
    <1>1. UNCHANGED <<cr_now, Crm!acts, cr_request, cr_sent>>
        BY DEF Crm!Deliver, Crm!mark_notifications_read
    <1>2. \A y \in cr_inbox' : \E x \in cr_inbox : y.broadcast = x.broadcast /\ y.player = x.player
        <2>1. CASE Crm!Deliver(row)
            <3>1. PICK v : cr_inbox' = (cr_inbox \ {row}) \cup {[row EXCEPT !.status = v]} /\ row \in cr_inbox
                BY <2>1 DEF Crm!Deliver
            <3> DEFINE z == [row EXCEPT !.status = v]
            <3>2. z.broadcast = row.broadcast /\ z.player = row.player
                BY <3>1, CrmRowChanges DEF CrmRowsAreRows
            <3> HIDE DEF z
            <3>3. \A y \in cr_inbox' : y \in cr_inbox \/ y = z
                BY <3>1 DEF z
            <3> QED  BY <3>1, <3>2, <3>3
        <2>2. CASE Crm!mark_notifications_read(p)
            <3>1. cr_inbox' = (cr_inbox \ Crm!Unread(p)) \cup {[r EXCEPT !.read = TRUE] : r \in Crm!Unread(p)} /\ Crm!Unread(p) \subseteq cr_inbox
                BY <2>2 DEF Crm!mark_notifications_read, Crm!Unread, Crm!Listed
            <3>2. ASSUME NEW r \in Crm!Unread(p)
                  PROVE  [r EXCEPT !.read = TRUE].broadcast = r.broadcast /\ [r EXCEPT !.read = TRUE].player = r.player
                BY <3>1, CrmRowChanges DEF CrmRowsAreRows
            <3> SUFFICES ASSUME NEW y \in cr_inbox', y \notin cr_inbox
                         PROVE  \E x \in cr_inbox : y.broadcast = x.broadcast /\ y.player = x.player
                OBVIOUS
            <3>3. PICK r \in Crm!Unread(p) : y = [r EXCEPT !.read = TRUE]
                BY <3>1
            <3> QED  BY <3>1, <3>2, <3>3
        <2> QED  BY <2>1, <2>2
    <1>3. CrmSentInv'
        BY <1>1, <1>2, CrmInboxKeeps DEF CrmIInv
    <1> QED  BY <1>1, <1>3, CrmActsRest DEF CrmIInv, CrmActsInv, CrmShape, CrmSavesAreBodies

LEMMA CrmInductive == ASSUME CrmMomentsGiven, CrmIInv, CrmRowsAreRows, [Crm!Next]_(Crm!vars) PROVE CrmIInv'
    <1>1. CASE Crm!Tick
        <2>1. cr_now' = cr_now + 1 /\ cr_now \in Nat /\ UNCHANGED <<Crm!acts, cr_inbox, cr_request, cr_sent>> /\ DOMAIN cr_request = cr_Managers
            BY <1>1 DEF Crm!Tick, CrmIInv, CrmActsInv, CrmShape
        <2>2. cr_now' \in Nat /\ cr_now <= cr_now' /\ DOMAIN cr_request' = cr_Managers
            BY <2>1
        <2> QED  BY <2>1, <2>2, CrmActsRest, CrmSentRests DEF CrmIInv, CrmSavesAreBodies
    <1>2. CASE UNCHANGED Crm!vars
        <2>1. UNCHANGED <<cr_now, Crm!acts, cr_inbox, cr_request, cr_sent>> /\ cr_now \in Nat /\ cr_now <= cr_now /\ DOMAIN cr_request = cr_Managers
            BY <1>2 DEF Crm!vars, Crm!acts, CrmIInv, CrmActsInv, CrmShape
        <2> QED  BY <2>1, CrmActsRest, CrmSentRests DEF CrmIInv, CrmSavesAreBodies
    <1> QED  BY <1>1, <1>2, CrmPlayersStep, CrmManagersStep, CrmSaveStep, CrmBroadcastStep, CrmInboxStep DEF Crm!Next

LEMMA CrmInitial == ASSUME CrmMomentsGiven PROVE Crm!Init => CrmIInv /\ CrmRowsAreRows
    <1> SUFFICES ASSUME Crm!Init PROVE CrmIInv /\ CrmRowsAreRows
        OBVIOUS
    <1>1. CrmActsInv
        <2>1. \A p \in cr_Players : cr_player[p] = [status |-> "active", kind |-> "credit", tags |-> {}, created |-> 0]
            BY DEF Crm!Init
        <2>2. \A p \in cr_Players : DOMAIN cr_player[p] = {"status", "kind", "tags", "created"} /\ cr_player[p].created = 0
            BY <2>1
        <2> QED  BY <2>2 DEF Crm!Init, CrmActsInv, CrmShape, CrmLastIsKnown, CrmIsMoment
    <1>2. CrmSentInv
        BY FS_EmptySet DEF Crm!Init, CrmSentInv, CrmReadFits, CrmNumbered, Crm!BroadcastFitsSegment, Crm!Quiet
    <1> QED  BY <1>1, <1>2 DEF Crm!Init, CrmIInv, CrmSavesAreBodies, Crm!Quiet, CrmRowsAreRows

\* A broadcast goes to the players of its segment and to nobody else, whatever
\* the players and the managers do between its reads and its commit.
LEMMA CrmBroadcastFits == ASSUME CrmMomentsGiven PROVE Crm!Spec => []Crm!BroadcastFitsSegment
    <1>1. CrmIInv /\ CrmRowsAreRows /\ [Crm!Next]_(Crm!vars) => CrmIInv' /\ CrmRowsAreRows'
        BY CrmInductive, CrmRowsStayRows
    <1>2. CrmIInv => Crm!BroadcastFitsSegment
        BY DEF CrmIInv, CrmSentInv
    <1> QED  BY CrmInitial, <1>1, <1>2, PTL DEF Crm!Spec

\* A behaviour of the office is one of Crm, with its steps or none.
LEMMA CrmPart == Init /\ [][Next]_vars => Crm!Spec
    <1>1. Init => Crm!Init
        BY DEF Init
    <1>2. [Next]_vars => [Crm!Next]_(Crm!vars)
        <2>1. UNCHANGED crmVars => UNCHANGED Crm!vars
            BY DEF crmVars, Crm!vars
        <2> QED  BY <2>1 DEF Next, vars
    <1> QED  BY <1>1, <1>2, PTL DEF Crm!Spec

\* A broadcast goes to the players of its segment and to nobody else, whatever
\* the players and the managers do between its reads and its commit.
THEOREM BroadcastFits == ASSUME CrmMomentsGiven PROVE Spec => []BroadcastFitsSegment
    BY CrmBroadcastFits, CrmPart, PTL DEF Spec, BroadcastFitsSegment

-----------------------------------------------------------------------------
(* References: unions, clubs and the rates.                                *)

\* The sets of the module are counted as everywhere.
LEMMA ReferencesCount == \A S : References!Cardinality(S) = Cardinality(S)
    BY DEF References!Cardinality, Cardinality

\* What is asked of the constants: the clubs can be counted, NULL is no union,
\* and the days of the bank are numbers.
ReferencesClubsAndDaysGiven ==
    /\ IsFiniteSet(rf_Clubs) /\ None \notin rf_Unions /\ rf_MaxDay \in Nat \ {0}
    /\ DOMAIN rf_EffectiveOn = 1..rf_MaxDay /\ \A d \in 1..rf_MaxDay : rf_EffectiveOn[d] \in Int

-----------------------------------------------------------------------------
(* The inductive invariant.                                                   *)

\* A rate speaks of the day it is stored for.
ReferencesIsRate(r) == r.day \in Int /\ r.of = r.day

ReferencesIsClub(c) == DOMAIN c = {"organizer", "chip_value", "chip_currency"}

ReferencesShape ==
    /\ rf_edits \in Nat /\ rf_today \in Int /\ rf_today >= 1 /\ rf_today <= rf_MaxDay
    /\ DOMAIN rf_clubs = rf_Clubs /\ DOMAIN rf_request = rf_Managers
    /\ \A c \in rf_Clubs : ReferencesIsClub(rf_clubs[c])
    /\ rf_joined \in [rf_Clubs -> Nat]
    /\ \A m \in rf_Managers :
          /\ rf_request[m].step = "club" => rf_request[m].club \in rf_Clubs
          /\ rf_request[m].step = "delete_organizer" =>
                /\ rf_request[m].union \in rf_Unions
                /\ rf_request[m].at \in Nat /\ rf_request[m].at <= rf_edits

\* A union about to be deleted was empty when its clubs were counted: the clubs
\* it has now joined since.
ReferencesCountedBeforeJoined ==
    \A m \in rf_Managers, c \in rf_Clubs :
        rf_request[m].step = "delete_organizer" /\ rf_request[m].union = rf_clubs[c].organizer
            => rf_joined[c] >= rf_request[m].at

ReferencesRatesSpeakOfTheirDay ==
    /\ \A r \in rf_rates : ReferencesIsRate(r)
    /\ rf_job.ran \in 0..rf_today
    /\ rf_job.step = "upsert" => \A r \in rf_job.rows : ReferencesIsRate(r)
    /\ rf_job.step = "fetch" => rf_job.ran >= 1

ReferencesUnionsInv == ReferencesShape /\ ReferencesCountedBeforeJoined
ReferencesIInv == ReferencesUnionsInv /\ ReferencesRatesSpeakOfTheirDay

ReferencesClubStep == \A c \in rf_Clubs :
    rf_clubs'[c].organizer = rf_clubs[c].organizer \/ \E m \in rf_Managers : References!TakesAway(m, c)
ReferencesRateStep == \A c \in rf_Clubs : References!GivesWay(c)

-----------------------------------------------------------------------------
(* Unions.                                                                    *)

\* Nobody's union changes.
LEMMA ReferencesUnionsRest ==
    ASSUME ReferencesUnionsInv, UNCHANGED <<rf_clubs, rf_joined>>, rf_today' \in Int, rf_today' >= 1, rf_today' <= rf_MaxDay,
           rf_edits' \in Nat, rf_edits <= rf_edits', DOMAIN rf_request' = rf_Managers,
           \A m \in rf_Managers : rf_request'[m] = rf_request[m] \/ rf_request'[m].step \notin {"club", "delete_organizer"}
    PROVE  ReferencesUnionsInv' /\ ReferencesClubStep
    <1>1. ReferencesShape'
        BY DEF ReferencesUnionsInv, ReferencesShape, ReferencesIsClub
    <1>2. ReferencesCountedBeforeJoined'
        BY DEF ReferencesUnionsInv, ReferencesCountedBeforeJoined
    <1> QED  BY <1>1, <1>2 DEF ReferencesUnionsInv, ReferencesClubStep

\* A request that has read; one to delete a union found it without clubs.
LEMMA ReferencesReadsKeep ==
    ASSUME ReferencesClubsAndDaysGiven, ReferencesUnionsInv, NEW m \in rf_Managers, NEW r, References!Reads(m, r),
           r.step = "club" => r.club \in rf_Clubs,
           r.step = "delete_organizer" => r.at = rf_edits + 1 /\ r.union \in rf_Unions /\ References!clubs_count(r.union) = 0
    PROVE  ReferencesUnionsInv' /\ ReferencesClubStep
    <1>1. /\ rf_edits' = rf_edits + 1 /\ rf_edits \in Nat
          /\ rf_request' = [rf_request EXCEPT ![m] = r] /\ DOMAIN rf_request = rf_Managers
          /\ UNCHANGED <<rf_today, rf_clubs, rf_joined>>
        BY DEF References!Reads, ReferencesUnionsInv, ReferencesShape
    <1>2. DOMAIN rf_request' = rf_Managers /\ \A k \in rf_Managers : rf_request'[k] = IF k = m THEN r ELSE rf_request[k]
        BY <1>1
    <1>3. r.step = "delete_organizer" => \A c \in rf_Clubs : rf_clubs[c].organizer # r.union
        <2> DEFINE S == {c \in rf_Clubs : rf_clubs[c].organizer = r.union}
        <2>1. IsFiniteSet(S)
            BY FS_Subset DEF ReferencesClubsAndDaysGiven
        <2>2. r.step = "delete_organizer" => Cardinality(S) = 0
            BY ReferencesCount DEF References!clubs_count
        <2> HIDE DEF S
        <2>3. r.step = "delete_organizer" => S = {}
            BY <2>1, <2>2, FS_EmptySet
        <2> QED  BY <2>3 DEF S
    <1>4. ReferencesShape'
        BY <1>1, <1>2 DEF ReferencesUnionsInv, ReferencesShape, ReferencesIsClub
    <1>5. ReferencesCountedBeforeJoined'
        BY <1>1, <1>2, <1>3 DEF ReferencesUnionsInv, ReferencesCountedBeforeJoined
    <1> QED  BY <1>1, <1>4, <1>5 DEF ReferencesUnionsInv, ReferencesClubStep

\* The fields of a body that were not the same when read.
LEMMA ReferencesSavedIsClub ==
    ASSUME NEW r, r.club \in rf_Clubs, ReferencesIsClub(rf_clubs[r.club])
    PROVE  /\ ReferencesIsClub(References!Saved(r))
           /\ References!Saved(r).organizer # rf_clubs[r.club].organizer => "organizer" \in DOMAIN r.body
    <1>1. DOMAIN References!Saved(r) = {"organizer", "chip_value", "chip_currency"}
        BY DEF References!Saved, ReferencesIsClub
    <1>2. "organizer" \notin DOMAIN r.body => References!Saved(r).organizer = rf_clubs[r.club].organizer
        BY DEF References!Saved, ReferencesIsClub
    <1> QED  BY <1>1, <1>2 DEF ReferencesIsClub

\* A club joins a union later than any count that found it empty.
LEMMA ReferencesUpdateClubKeeps ==
    ASSUME ReferencesUnionsInv, NEW m \in rf_Managers, References!update_club(m)
    PROVE  ReferencesUnionsInv' /\ ReferencesClubStep
    <1> DEFINE r == rf_request[m]
               c == r.club
               n == References!Saved(r)
    <1>1. /\ r.step = "club" /\ rf_clubs' = [rf_clubs EXCEPT ![c] = n]
          /\ rf_joined' = IF n.organizer = rf_clubs[c].organizer THEN rf_joined ELSE [rf_joined EXCEPT ![c] = rf_edits]
          /\ rf_request' = [rf_request EXCEPT ![m] = References!Quiet] /\ UNCHANGED <<rf_today, rf_edits>>
        BY DEF References!update_club, References!CanSave, References!Done
    <1>2. c \in rf_Clubs /\ ReferencesIsClub(rf_clubs[c]) /\ rf_edits \in Nat /\ DOMAIN rf_clubs = rf_Clubs /\ rf_joined \in [rf_Clubs -> Nat]
          /\ DOMAIN rf_request = rf_Managers
        BY <1>1 DEF ReferencesUnionsInv, ReferencesShape
    <1>3. ReferencesIsClub(n) /\ (n.organizer # rf_clubs[c].organizer => "organizer" \in DOMAIN r.body)
        BY <1>2, ReferencesSavedIsClub
    <1>t. r.step = "club" /\ r.club = c
        BY <1>1
    <1> HIDE DEF n
    <1>4. DOMAIN rf_clubs' = rf_Clubs /\ \A d \in rf_Clubs : rf_clubs'[d] = IF d = c THEN n ELSE rf_clubs[d]
        BY <1>1, <1>2
    <1>5. /\ rf_joined' \in [rf_Clubs -> Nat]
          /\ \A d \in rf_Clubs : rf_joined'[d] = IF d = c /\ n.organizer # rf_clubs[c].organizer THEN rf_edits ELSE rf_joined[d]
        BY <1>1, <1>2
    <1>6. DOMAIN rf_request' = rf_Managers /\ \A k \in rf_Managers : rf_request'[k] = IF k = m THEN References!Quiet ELSE rf_request[k]
        BY <1>1, <1>2
    <1>7. References!Quiet.step = "idle"
        BY DEF References!Quiet
    <1>8. ReferencesShape'
        BY <1>1, <1>2, <1>3, <1>4, <1>5, <1>6, <1>7 DEF ReferencesUnionsInv, ReferencesShape
    <1>9. ReferencesCountedBeforeJoined'
        <2> SUFFICES ASSUME NEW k \in rf_Managers, NEW d \in rf_Clubs, rf_request'[k].step = "delete_organizer",
                            rf_request'[k].union = rf_clubs'[d].organizer
                     PROVE  rf_joined'[d] >= rf_request'[k].at
            BY DEF ReferencesCountedBeforeJoined
        <2>1. rf_request'[k] = rf_request[k] /\ rf_request[k].at \in Nat /\ rf_request[k].at <= rf_edits
            BY <1>6, <1>7 DEF ReferencesUnionsInv, ReferencesShape
        <2>2. CASE d = c /\ n.organizer # rf_clubs[c].organizer
            BY <1>5, <2>1, <2>2
        <2>3. CASE ~(d = c /\ n.organizer # rf_clubs[c].organizer)
            <3>1. rf_joined'[d] = rf_joined[d] /\ rf_clubs'[d].organizer = rf_clubs[d].organizer
                BY <1>4, <1>5, <2>3
            <3> QED  BY <2>1, <3>1 DEF ReferencesUnionsInv, ReferencesCountedBeforeJoined
        <2> QED  BY <2>2, <2>3
    <1>10. ReferencesClubStep
        <2> SUFFICES ASSUME NEW d \in rf_Clubs, rf_clubs'[d].organizer # rf_clubs[d].organizer
                     PROVE  References!TakesAway(m, d)
            BY DEF ReferencesClubStep
        <2>1. d = c /\ n.organizer # rf_clubs[c].organizer
            BY <1>4
        <2> QED  BY <1>3, <1>t, <2>1 DEF References!TakesAway
    <1> QED  BY <1>8, <1>9, <1>10 DEF ReferencesUnionsInv

\* Only the clubs that joined since the count lose their union with it.
LEMMA ReferencesDeleteKeeps ==
    ASSUME ReferencesClubsAndDaysGiven, ReferencesUnionsInv, NEW m \in rf_Managers, References!delete_organizer(m)
    PROVE  ReferencesUnionsInv' /\ ReferencesClubStep
    <1> DEFINE u == rf_request[m].union
    <1>1. /\ rf_request[m].step = "delete_organizer"
          /\ rf_clubs' = [c \in rf_Clubs |-> IF rf_clubs[c].organizer = u THEN [rf_clubs[c] EXCEPT !.organizer = None]
                                                                          ELSE rf_clubs[c]]
          /\ rf_request' = [rf_request EXCEPT ![m] = References!Quiet] /\ UNCHANGED <<rf_today, rf_edits, rf_joined>>
        BY DEF References!delete_organizer, References!Done
    <1>2. DOMAIN rf_clubs' = rf_Clubs /\ \A c \in rf_Clubs : rf_clubs[c].organizer # u => rf_clubs'[c] = rf_clubs[c]
        BY <1>1
    <1>3. \A c \in rf_Clubs : ReferencesIsClub(rf_clubs'[c]) /\ (rf_clubs[c].organizer = u => rf_clubs'[c].organizer = None)
        BY <1>1 DEF ReferencesUnionsInv, ReferencesShape, ReferencesIsClub
    <1>4. DOMAIN rf_request' = rf_Managers /\ \A k \in rf_Managers : rf_request'[k] = rf_request[k] \/ rf_request'[k].step = "idle"
        BY <1>1 DEF ReferencesUnionsInv, ReferencesShape, References!Quiet
    <1>5. \A c \in rf_Clubs : rf_clubs[c].organizer = u => rf_joined[c] >= rf_request[m].at
        BY <1>1 DEF ReferencesUnionsInv, ReferencesCountedBeforeJoined
    <1>6. ReferencesShape'
        BY <1>1, <1>2, <1>3, <1>4 DEF ReferencesUnionsInv, ReferencesShape
    <1>7. ReferencesClubStep
        BY <1>1, <1>2, <1>5 DEF ReferencesClubStep, References!TakesAway
    <1>8. ReferencesCountedBeforeJoined'
        <2> SUFFICES ASSUME NEW k \in rf_Managers, NEW c \in rf_Clubs, rf_request'[k].step = "delete_organizer",
                            rf_request'[k].union = rf_clubs'[c].organizer
                     PROVE  rf_joined[c] >= rf_request'[k].at
            BY <1>1 DEF ReferencesCountedBeforeJoined
        <2>1. rf_request'[k] = rf_request[k]
            BY <1>4
        <2>2. CASE rf_clubs'[c] = rf_clubs[c]
            BY <2>1, <2>2 DEF ReferencesUnionsInv, ReferencesCountedBeforeJoined
        <2>3. CASE rf_clubs'[c].organizer = None
            BY <2>1, <2>3 DEF ReferencesClubsAndDaysGiven, ReferencesUnionsInv, ReferencesShape
        <2> QED  BY <1>2, <1>3, <2>2, <2>3
    <1> QED  BY <1>6, <1>7, <1>8 DEF ReferencesUnionsInv

LEMMA ReferencesUnionsStep ==
    ASSUME ReferencesClubsAndDaysGiven, ReferencesUnionsInv, [References!Next]_(References!vars)
    PROVE  ReferencesUnionsInv' /\ ReferencesClubStep
    <1>0. /\ rf_today \in Int /\ rf_today >= 1 /\ rf_today <= rf_MaxDay /\ rf_edits \in Nat /\ rf_edits <= rf_edits
          /\ rf_edits + 1 \in Nat /\ rf_edits <= rf_edits + 1
          /\ DOMAIN rf_request = rf_Managers /\ rf_MaxDay \in Nat
        BY DEF ReferencesUnionsInv, ReferencesShape, ReferencesClubsAndDaysGiven
    <1>1. ASSUME NEW m \in rf_Managers, NEW c \in rf_Clubs, NEW body, References!UpdateClubRead(m, c, body)
          PROVE  ReferencesUnionsInv' /\ ReferencesClubStep
        <2> DEFINE r == [step |-> "club", club |-> c, body |-> body, was |-> rf_clubs[c]]
        <2>1. r.step = "club" /\ r.club \in rf_Clubs /\ References!Reads(m, r)
            BY <1>1 DEF References!UpdateClubRead
        <2> HIDE DEF r
        <2> QED  BY <2>1, ReferencesReadsKeep
    <1>2. ASSUME NEW m \in rf_Managers, NEW u \in rf_Unions, NEW s, References!SaveUnionRead(m, u, s)
          PROVE  ReferencesUnionsInv' /\ ReferencesClubStep
        <2>1. PICK r : r.step \in {"update_organizer", "create_organizer"} /\ References!Reads(m, r)
            BY <1>2 DEF References!SaveUnionRead
        <2> QED  BY <2>1, ReferencesReadsKeep
    <1>3. ASSUME NEW m \in rf_Managers, NEW u \in rf_Unions, References!DeleteUnionRead(m, u)
          PROVE  ReferencesUnionsInv' /\ ReferencesClubStep
        <2> DEFINE r == [step |-> "delete_organizer", union |-> u, at |-> rf_edits + 1]
        <2>1. /\ r.step = "delete_organizer" /\ r.union = u /\ r.at = rf_edits + 1 /\ References!Reads(m, r)
              /\ References!clubs_count(u) = 0
            BY <1>3 DEF References!DeleteUnionRead
        <2> HIDE DEF r
        <2> QED  BY <2>1, ReferencesReadsKeep
    <1>4. ASSUME NEW m \in rf_Managers, References!update_club(m) \/ References!delete_organizer(m) PROVE ReferencesUnionsInv' /\ ReferencesClubStep
        BY <1>4, ReferencesUpdateClubKeeps, ReferencesDeleteKeeps
    <1>5. ASSUME NEW m \in rf_Managers, References!save_organizer(m) \/ References!Refused(m) PROVE ReferencesUnionsInv' /\ ReferencesClubStep
        <2>1. /\ rf_request' = [rf_request EXCEPT ![m] = References!Quiet] /\ References!Quiet.step = "idle"
              /\ UNCHANGED <<rf_clubs, rf_joined, rf_today, rf_edits>>
            BY <1>5 DEF References!save_organizer, References!Refused, References!Done, References!Quiet
        <2>2. DOMAIN rf_request' = rf_Managers /\ \A k \in rf_Managers : rf_request'[k] = rf_request[k] \/ rf_request'[k].step = "idle"
            BY <1>0, <2>1
        <2> QED  BY <1>0, <2>1, <2>2, ReferencesUnionsRest
    <1>6. ASSUME NEW code, References!set_manual_rate(code) PROVE ReferencesUnionsInv' /\ ReferencesClubStep
        BY <1>0, <1>6, ReferencesUnionsRest DEF References!set_manual_rate
    <1>7. CASE References!FxStart \/ References!FetchFails \/ References!FxGivesUp \/ References!FetchAnswered \/ References!upsert_rates
        BY <1>0, <1>7, ReferencesUnionsRest DEF References!FxStart, References!FetchFails, References!FxGivesUp, References!FetchAnswered, References!upsert_rates
    <1>8. CASE References!NextDay
        <2>1. rf_today' \in Int /\ rf_today' >= 1 /\ rf_today' <= rf_MaxDay /\ UNCHANGED <<rf_clubs, rf_joined, rf_request, rf_edits>>
            BY <1>0, <1>8 DEF References!NextDay
        <2> QED  BY <1>0, <2>1, ReferencesUnionsRest
    <1>9. CASE UNCHANGED References!vars
        BY <1>0, <1>9, ReferencesUnionsRest DEF References!vars
    <1> QED  BY <1>1, <1>2, <1>3, <1>4, <1>5, <1>6, <1>7, <1>8, <1>9 DEF References!Next

-----------------------------------------------------------------------------
(* Rates.                                                                     *)

\* What the bank answers speaks of the day it is stored for.
LEMMA ReferencesAnswerSpeaks ==
    ASSUME ReferencesClubsAndDaysGiven, NEW d \in 1..rf_MaxDay
    PROVE  \A r \in References!parse_daily_xml(d) : ReferencesIsRate(r)
    BY DEF References!parse_daily_xml, References!rate_date, ReferencesIsRate, ReferencesClubsAndDaysGiven

\* The row in use is the one of the latest day, so a row that takes its place is
\* of the same day or a later one, as long as rows of its day only replace it.
LEMMA ReferencesLaterGivesWay ==
    ASSUME \A r \in rf_rates : ReferencesIsRate(r), \A r \in rf_rates' : ReferencesIsRate(r),
           \A r \in rf_rates : \E n \in rf_rates' : n.code = r.code /\ n.day = r.day
    PROVE  ReferencesRateStep
    <1> SUFFICES ASSUME NEW c \in rf_Clubs, NEW old \in References!rub_per_chip(c), NEW new \in References!rub_per_chip(c)',
                        new.code = old.code
                 PROVE  new.of >= old.of
        BY DEF ReferencesRateStep, References!GivesWay
    <1>1. old \in rf_rates
        BY DEF References!rub_per_chip, References!latest_rates_rub
    <1>2. new \in rf_rates' /\ \A o \in rf_rates' : o.code = new.code => o.day <= new.day
        BY DEF References!rub_per_chip, References!latest_rates_rub
    <1>3. PICK n \in rf_rates' : n.code = old.code /\ n.day = old.day
        BY <1>1
    <1>4. n.day <= new.day
        BY <1>2, <1>3
    <1>5. ReferencesIsRate(new) /\ ReferencesIsRate(old)
        BY <1>1, <1>2
    <1> QED  BY <1>3, <1>4, <1>5 DEF ReferencesIsRate

LEMMA ReferencesRatesRest ==
    ASSUME ReferencesRatesSpeakOfTheirDay, rf_rates' = rf_rates
    PROVE  ReferencesRateStep
    BY ReferencesLaterGivesWay DEF ReferencesRatesSpeakOfTheirDay

LEMMA ReferencesRatesStep ==
    ASSUME ReferencesClubsAndDaysGiven, ReferencesIInv, [References!Next]_(References!vars)
    PROVE  ReferencesRatesSpeakOfTheirDay' /\ ReferencesRateStep
    <1>0. rf_today \in Int /\ rf_today >= 1 /\ rf_today <= rf_MaxDay /\ rf_MaxDay \in Nat /\ ReferencesRatesSpeakOfTheirDay
          /\ rf_job.ran \in 0..rf_today
        BY DEF ReferencesIInv, ReferencesUnionsInv, ReferencesShape, ReferencesClubsAndDaysGiven, ReferencesRatesSpeakOfTheirDay
    <1>1. ASSUME UNCHANGED <<rf_rates, rf_job>>, rf_today' \in {rf_today, rf_today + 1}
          PROVE  ReferencesRatesSpeakOfTheirDay' /\ ReferencesRateStep
        <2>1. rf_job'.ran \in 0..rf_today'
            BY <1>0, <1>1
        <2> QED  BY <1>0, <1>1, <2>1, ReferencesRatesRest DEF ReferencesRatesSpeakOfTheirDay
    <1>2. ASSUME NEW m, NEW c, NEW b, NEW u, NEW s,
                 \/ References!UpdateClubRead(m, c, b) \/ References!SaveUnionRead(m, u, s) \/ References!DeleteUnionRead(m, u)
                 \/ References!update_club(m) \/ References!save_organizer(m) \/ References!delete_organizer(m) \/ References!Refused(m)
          PROVE  ReferencesRatesSpeakOfTheirDay' /\ ReferencesRateStep
        BY <1>1, <1>2 DEF References!UpdateClubRead, References!SaveUnionRead, References!DeleteUnionRead, References!Reads,
                          References!update_club, References!save_organizer, References!delete_organizer, References!Refused, References!Done
    <1>3. ASSUME NEW code, References!set_manual_rate(code) PROVE ReferencesRatesSpeakOfTheirDay' /\ ReferencesRateStep
        <2> DEFINE row == [code |-> code, day |-> rf_today, by |-> "manager", of |-> rf_today]
        <2>1. rf_rates' = References!Stored(row) /\ UNCHANGED <<rf_today, rf_job>>
            BY <1>3 DEF References!set_manual_rate
        <2>2. ReferencesIsRate(row)
            BY <1>0 DEF ReferencesIsRate
        <2> HIDE DEF row
        <2>3. \A r \in rf_rates' : ReferencesIsRate(r)
            BY <1>0, <2>1, <2>2 DEF References!Stored, ReferencesRatesSpeakOfTheirDay
        <2>4. \A r \in rf_rates : \E n \in rf_rates' : n.code = r.code /\ n.day = r.day
            BY <2>1 DEF References!Stored
        <2>5. ReferencesRateStep
            BY <1>0, <2>3, <2>4, ReferencesLaterGivesWay DEF ReferencesRatesSpeakOfTheirDay
        <2> QED  BY <1>0, <2>1, <2>3, <2>5 DEF ReferencesRatesSpeakOfTheirDay
    <1>4. CASE References!upsert_rates
        <2>1. /\ rf_job.step = "upsert"
              /\ rf_rates' = {r \in rf_rates : \A row \in rf_job.rows : r.code # row.code \/ r.day # row.day} \cup rf_job.rows
              /\ rf_job'.step = "asleep" /\ rf_job'.ran = rf_job.ran /\ UNCHANGED rf_today
            BY <1>4 DEF References!upsert_rates
        <2>2. \A r \in rf_rates' : ReferencesIsRate(r)
            BY <1>0, <2>1 DEF ReferencesRatesSpeakOfTheirDay
        <2>3. \A r \in rf_rates : \E n \in rf_rates' : n.code = r.code /\ n.day = r.day
            BY <2>1
        <2>4. ReferencesRateStep
            BY <1>0, <2>2, <2>3, ReferencesLaterGivesWay DEF ReferencesRatesSpeakOfTheirDay
        <2> QED  BY <1>0, <2>1, <2>2, <2>4 DEF ReferencesRatesSpeakOfTheirDay
    <1>5. CASE References!FetchAnswered
        <2>1. rf_job.step = "fetch" /\ rf_job'.step = "upsert" /\ rf_job'.ran = rf_job.ran
              /\ rf_job'.rows = References!parse_daily_xml(rf_job.ran) /\ UNCHANGED <<rf_rates, rf_today>>
            BY <1>5 DEF References!FetchAnswered
        <2>2. rf_job.ran \in 1..rf_MaxDay
            BY <1>0, <2>1 DEF ReferencesRatesSpeakOfTheirDay
        <2>3. \A r \in rf_job'.rows : ReferencesIsRate(r)
            BY <2>1, <2>2, ReferencesAnswerSpeaks
        <2> QED  BY <1>0, <2>1, <2>3, ReferencesRatesRest DEF ReferencesRatesSpeakOfTheirDay
    <1>6. CASE References!FxStart
        <2>1. rf_job'.step = "fetch" /\ rf_job'.ran = rf_today /\ UNCHANGED <<rf_rates, rf_today>>
            BY <1>6 DEF References!FxStart
        <2> QED  BY <1>0, <2>1, ReferencesRatesRest DEF ReferencesRatesSpeakOfTheirDay
    <1>7. CASE References!FxGivesUp
        <2>1. rf_job'.step = "asleep" /\ rf_job'.ran = rf_job.ran /\ UNCHANGED <<rf_rates, rf_today>>
            BY <1>7 DEF References!FxGivesUp
        <2> QED  BY <1>0, <2>1, ReferencesRatesRest DEF ReferencesRatesSpeakOfTheirDay
    <1>8. CASE References!FetchFails
        <2>1. rf_job.step = "fetch" /\ rf_job'.step = rf_job.step /\ rf_job'.ran = rf_job.ran /\ UNCHANGED <<rf_rates, rf_today>>
            BY <1>8 DEF References!FetchFails
        <2> QED  BY <1>0, <2>1, ReferencesRatesRest DEF ReferencesRatesSpeakOfTheirDay
    <1>9. CASE References!NextDay
        BY <1>1, <1>9 DEF References!NextDay
    <1>10. CASE UNCHANGED References!vars
        BY <1>1, <1>10 DEF References!vars
    <1> QED  BY <1>2, <1>3, <1>4, <1>5, <1>6, <1>7, <1>8, <1>9, <1>10 DEF References!Next

-----------------------------------------------------------------------------
(* The theorem.                                                               *)

LEMMA ReferencesInitial == ASSUME ReferencesClubsAndDaysGiven PROVE References!Init => ReferencesIInv
    BY DEF References!Init, ReferencesIInv, ReferencesUnionsInv, ReferencesShape, ReferencesCountedBeforeJoined, ReferencesRatesSpeakOfTheirDay, ReferencesIsClub, References!NewClub,
           References!Quiet, References!Asleep, ReferencesClubsAndDaysGiven

\* A club loses its union to somebody who took it away, or to a deletion that
\* counted before it joined, and a rate of a manager gives way to one of the same
\* or a later day, however the requests and the job of the bank's rates overlap.
LEMMA ReferencesGiveWayForAReason == ASSUME ReferencesClubsAndDaysGiven PROVE References!Spec => References!ReferencesGiveWay
    <1>1. ReferencesIInv /\ [References!Next]_(References!vars) => ReferencesIInv' /\ ReferencesClubStep /\ ReferencesRateStep
        BY ReferencesUnionsStep, ReferencesRatesStep DEF ReferencesIInv
    <1>2. ReferencesClubStep /\ ReferencesRateStep => \A c \in rf_Clubs :
              /\ rf_clubs'[c].organizer = rf_clubs[c].organizer \/ \E m \in rf_Managers : References!TakesAway(m, c)
              /\ References!GivesWay(c)
        BY DEF ReferencesClubStep, ReferencesRateStep
    <1> QED  BY ReferencesInitial, <1>1, <1>2, PTL DEF References!Spec, References!ReferencesGiveWay

\* A behaviour of the office is one of References, with its steps or none.
LEMMA ReferencesPart == Init /\ [][Next]_vars => References!Spec
    <1>1. Init => References!Init
        BY DEF Init
    <1>2. [Next]_vars => [References!Next]_(References!vars)
        <2>1. UNCHANGED referencesVars => UNCHANGED References!vars
            BY DEF referencesVars, References!vars
        <2> QED  BY <2>1 DEF Next, vars
    <1> QED  BY <1>1, <1>2, PTL DEF References!Spec

\* A club loses its union to somebody who took it away, or to a deletion that
\* counted before it joined, and a rate of a manager gives way to one of the same
\* or a later day, however the requests and the job of the bank's rates overlap.
THEOREM GiveWayForAReason == ASSUME ReferencesClubsAndDaysGiven PROVE Spec => ReferencesGiveWay
    BY ReferencesGiveWayForAReason, ReferencesPart, PTL DEF Spec, ReferencesGiveWay

-----------------------------------------------------------------------------
(* PlayerWins: uploads of the week over what was entered by hand.          *)

\* A file is a list of lines.
WinsFilesGiven == \A file \in wn_Files : Len(file) \in Nat

-----------------------------------------------------------------------------
(* The inductive invariant.                                                   *)

WinsColumn == {"id", "club", "nick", "title", "place", "on"}
WinsIsWin(w) == w = [f \in WinsColumn |-> w[f]] /\ w.id \in Nat

\* The same win, whatever its place.
WinsAgree(w, o) == w.on = o.on /\ w.club = o.club /\ w.nick = o.nick /\ w.title = o.title

\* Rows of the table, each under its own id.
WinsIsTable(rows, n) ==
    /\ \A w \in rows : WinsIsWin(w) /\ w.id < n
    /\ \A w, o \in rows : w.id = o.id => w = o

\* What an import has read may be gone, or have got a place.
WinsIsMemory(r, rows, n) ==
    /\ Len(r.file) \in Nat
    /\ \A w \in r.known : WinsIsWin(w) /\ w.id < n
    /\ \A w \in rows, o \in r.known : w.id = o.id => WinsAgree(w, o)

WinsShape ==
    /\ wn_next \in Nat
    /\ WinsIsTable(wn_wins, wn_next)
    /\ \A i \in wn_imported : i \in Nat /\ i < wn_next
    /\ \A m \in wn_Managers : wn_request[m] # Wins!Quiet => WinsIsMemory(wn_request[m], wn_wins, wn_next)

WinsIInv == WinsShape /\ Wins!ImportAddsNoTwin

-----------------------------------------------------------------------------
(* The walk over the lines.                                                   *)

LEMMA WinsLeastOf ==
    ASSUME NEW T \in SUBSET Nat, T # {}
    PROVE  \E m \in T : \A n \in T : m <= n
    <1>1. T \subseteq Nat
        OBVIOUS
    <1>2. PICK m \in T : \A n \in T : ~(<<n, m>> \in OpToRel(<, Nat))
        BY <1>1, NatLessThanWellFounded, WFMin
    <1>3. \A n \in T : ~(n < m)
        BY <1>2 DEF OpToRel
    <1> QED  BY <1>1, <1>3

\* What the lines so far have made of the rows known, from the id n on.
WinsKept(acc, known, n) ==
        /\ acc.next \in Nat /\ n <= acc.next
        /\ \A w \in acc.known : WinsIsWin(w) /\ w.id < acc.next
        /\ \A w \in known : \E o \in acc.known : o.id = w.id /\ WinsAgree(o, w)
        /\ acc.added \subseteq acc.known
        /\ \A a \in acc.added : n <= a.id /\ \A o \in acc.known : o.id < a.id => ~Wins!Same(o, a)
        /\ \A a, b \in acc.added : a.id = b.id => a = b

LEMMA WinsFirstIsTwin ==
    ASSUME NEW twins, twins # {}, \A w \in twins : WinsIsWin(w)
    PROVE  Wins!First(twins) \in twins
    <1> DEFINE ids == {w.id : w \in twins}
    <1>1. ids \in SUBSET Nat /\ ids # {}
        BY DEF WinsIsWin
    <1> HIDE DEF ids
    <1>2. PICK least \in ids : \A i \in ids : least <= i
        BY <1>1, WinsLeastOf
    <1>3. \E w \in twins : \A o \in twins : w.id <= o.id
        BY <1>2 DEF ids
    <1> QED  BY <1>3 DEF Wins!First

LEMMA WinsPlaceOnly ==
    ASSUME NEW w, WinsIsWin(w), NEW l
    PROVE  WinsIsWin(Wins!WithPlace(w, l)) /\ Wins!WithPlace(w, l).id = w.id /\ WinsAgree(Wins!WithPlace(w, l), w)
    BY DEF Wins!WithPlace, WinsIsWin, WinsColumn, WinsAgree

LEMMA WinsLineKeeps ==
    ASSUME NEW acc, NEW known, NEW n \in Nat, WinsKept(acc, known, n), NEW l
    PROVE  WinsKept(Wins!Line(acc, l), known, n)
    <1>1. CASE ~l.valid
        BY <1>1 DEF Wins!Line
    <1>2. CASE l.valid /\ Wins!Twins(l, acc.known) = {}
        <2>1. PICK new, then : /\ new = Wins!Row(acc.next, l) /\ then = Wins!Line(acc, l)
            OBVIOUS
        <2>2. /\ then.known = acc.known \cup {new} /\ then.added = acc.added \cup {new}
              /\ then.next = acc.next + 1
            BY <1>2, <2>1 DEF Wins!Line
        <2>3. /\ new.id = acc.next /\ new.on = l.on /\ new.club = l.club /\ new.nick = l.nick
              /\ new.title = l.title /\ new = [f \in WinsColumn |-> new[f]]
            BY <2>1 DEF Wins!Row, WinsColumn
        <2>4. acc.next \in Nat /\ n <= acc.next
            BY DEF WinsKept
        <2>5. WinsIsWin(new)
            BY <2>3, <2>4 DEF WinsIsWin
        <2>6. \A o \in acc.known : ~Wins!Same(o, new)
            BY <1>2, <2>3 DEF Wins!Twins, Wins!Same
        <2>7. \A w \in acc.known : WinsIsWin(w) /\ w.id < acc.next /\ w.id \in Nat
            BY DEF WinsKept, WinsIsWin
        <2>8. \A w \in then.known : WinsIsWin(w) /\ w.id < then.next
            BY <2>2, <2>3, <2>4, <2>5, <2>7
        <2>9. \A w \in known : \E o \in then.known : o.id = w.id /\ WinsAgree(o, w)
            BY <2>2 DEF WinsKept
        <2>10. ASSUME NEW a \in then.added
               PROVE  n <= a.id /\ \A o \in then.known : o.id < a.id => ~Wins!Same(o, a)
            BY <2>2, <2>3, <2>4, <2>6, <2>7 DEF WinsKept
        <2>11. \A a, b \in then.added : a.id = b.id => a = b
            BY <2>2, <2>3, <2>4, <2>7 DEF WinsKept
        <2> QED  BY <2>1, <2>2, <2>4, <2>8, <2>9, <2>10, <2>11 DEF WinsKept
    <1>3. CASE l.valid /\ Wins!Twins(l, acc.known) # {}
        <2>1. PICK same, filled, then : /\ same = Wins!First(Wins!Twins(l, acc.known))
                                        /\ filled = Wins!WithPlace(same, l) /\ then = Wins!Line(acc, l)
            OBVIOUS
        <2>2. /\ then.known = (acc.known \ {same}) \cup {filled} /\ then.next = acc.next
              /\ then.added = IF same \in acc.added THEN (acc.added \ {same}) \cup {filled}
                              ELSE acc.added
            BY <1>3, <2>1 DEF Wins!Line
        <2>3. same \in acc.known /\ WinsIsWin(same)
            BY <1>3, <2>1, WinsFirstIsTwin DEF Wins!Twins, WinsKept
        <2>4. WinsIsWin(filled) /\ filled.id = same.id /\ WinsAgree(filled, same)
            BY <2>1, <2>3, WinsPlaceOnly
        <2>5. \A w \in then.known : WinsIsWin(w) /\ w.id < then.next
            BY <2>2, <2>3, <2>4 DEF WinsKept
        <2>6. ASSUME NEW w \in known
              PROVE  \E o \in then.known : o.id = w.id /\ WinsAgree(o, w)
            <3>1. PICK o \in acc.known : o.id = w.id /\ WinsAgree(o, w)
                BY DEF WinsKept
            <3>2. CASE o = same
                BY <2>2, <2>4, <3>1, <3>2 DEF WinsAgree
            <3>3. CASE o # same
                BY <2>2, <3>1, <3>3
            <3> QED  BY <3>2, <3>3
        <2>7. then.added \subseteq then.known
            BY <2>2 DEF WinsKept
        <2>8. ASSUME NEW a \in then.added
              PROVE  \E old \in acc.added : old.id = a.id /\ WinsAgree(a, old)
            BY <2>2, <2>4 DEF WinsAgree
        <2>9. ASSUME NEW o \in then.known
              PROVE  \E old \in acc.known : old.id = o.id /\ WinsAgree(o, old)
            BY <2>2, <2>3, <2>4 DEF WinsAgree
        <2>10. ASSUME NEW a \in then.added
               PROVE  n <= a.id /\ \A o \in then.known : o.id < a.id => ~Wins!Same(o, a)
            <3>1. PICK b \in acc.added : b.id = a.id /\ WinsAgree(a, b)
                BY <2>8
            <3>2. ASSUME NEW o \in then.known, o.id < a.id
                  PROVE  ~Wins!Same(o, a)
                <4>1. PICK old \in acc.known : old.id = o.id /\ WinsAgree(o, old)
                    BY <2>9
                <4>2. ~Wins!Same(old, b)
                    BY <3>1, <3>2, <4>1 DEF WinsKept
                <4> QED  BY <3>1, <4>1, <4>2 DEF Wins!Same, WinsAgree
            <3> QED  BY <3>1, <3>2 DEF WinsKept
        <2>11. \A a, b \in then.added : a.id = b.id => a = b
            BY <2>2, <2>4 DEF WinsKept
        <2>12. acc.next \in Nat /\ n <= acc.next
            BY DEF WinsKept
        <2> QED  BY <2>1, <2>2, <2>5, <2>6, <2>7, <2>10, <2>11, <2>12 DEF WinsKept
    <1> QED  BY <1>1, <1>2, <1>3

\* g is the walk over the first n lines.
WinsWalk(g, n, known, file) ==
        g = [k \in 0..n |-> IF k = 0 THEN Wins!Begun(known) ELSE Wins!Line(g[k - 1], file[k])]

\* A walk goes on to its end.
LEMMA WinsWalkExists ==
    ASSUME NEW known, NEW file, NEW n \in Nat
    PROVE  \E g : WinsWalk(g, n, known, file)
    <1> DEFINE T == {k \in Nat : ~\E g : WinsWalk(g, k, known, file)}
    <1> SUFFICES ASSUME T # {}
                 PROVE  FALSE
        OBVIOUS
    <1>1. PICK m \in T : \A k \in T : m <= k
        <2>1. T \in SUBSET Nat
            OBVIOUS
        <2> HIDE DEF T
        <2> QED  BY <2>1, WinsLeastOf
    <1>2. m # 0
        <2> DEFINE g == [k \in 0..0 |-> Wins!Begun(known)]
        <2>1. WinsWalk(g, 0, known, file)
            BY DEF WinsWalk
        <2> QED  BY <2>1
    <1>3. m - 1 \in Nat /\ m - 1 \notin T
        BY <1>1, <1>2
    <1>4. PICK g : WinsWalk(g, m - 1, known, file)
        BY <1>3
    <1> DEFINE e == [k \in 0..m |-> IF k = m THEN Wins!Line(g[m - 1], file[m]) ELSE g[k]]
    <1>5. WinsWalk(e, m, known, file)
        <2>1. \A k \in 0..(m - 1) : e[k] = g[k]
            BY <1>3
        <2>2. \A k \in 0..(m - 1) : g[k] = IF k = 0 THEN Wins!Begun(known) ELSE Wins!Line(g[k - 1], file[k])
            BY <1>4 DEF WinsWalk
        <2>3. ASSUME NEW k \in 0..m
              PROVE  e[k] = IF k = 0 THEN Wins!Begun(known) ELSE Wins!Line(e[k - 1], file[k])
            <3>1. CASE k = m
                BY <1>2, <1>3, <2>1, <3>1
            <3>2. CASE k # m
                <4>1. k \in 0..(m - 1) /\ (k # 0 => k - 1 \in 0..(m - 1))
                    BY <1>3, <3>2
                <4> QED  BY <2>1, <2>2, <4>1
            <3> QED  BY <3>1, <3>2
        <2>4. e = [k \in 0..m |-> e[k]]
            OBVIOUS
        <2> HIDE DEF e
        <2> QED  BY <2>3, <2>4 DEF WinsWalk
    <1> QED  BY <1>5

LEMMA WinsLinesAreWalk ==
    ASSUME NEW known, NEW file, Len(file) \in Nat
    PROVE  WinsWalk(Wins!Lines(known, file), Len(file), known, file)
    <1>1. \E g : WinsWalk(g, Len(file), known, file)
        BY WinsWalkExists
    <1> QED  BY <1>1 DEF Wins!Lines, WinsWalk

LEMMA WinsWalkKeeps ==
    ASSUME wn_next \in Nat, NEW known, NEW file, Len(file) \in Nat,
           \A w \in known : WinsIsWin(w) /\ w.id < wn_next
    PROVE  WinsKept(Wins!Lines(known, file)[Len(file)], known, wn_next)
    <1>1. PICK acc : acc = Wins!Lines(known, file)
        OBVIOUS
    <1>2. WinsWalk(acc, Len(file), known, file)
        BY <1>1, WinsLinesAreWalk
    <1> DEFINE T == {k \in 0..Len(file) : ~WinsKept(acc[k], known, wn_next)}
    <1>3. T = {}
        <2> SUFFICES ASSUME T # {}
                     PROVE  FALSE
            OBVIOUS
        <2>1. PICK m \in T : \A k \in T : m <= k
            <3>1. T \in SUBSET Nat
                OBVIOUS
            <3> HIDE DEF T
            <3> QED  BY <3>1, WinsLeastOf
        <2>2. m # 0
            <3>1. acc[0] = Wins!Begun(known)
                BY <1>2 DEF WinsWalk
            <3>2. WinsKept(Wins!Begun(known), known, wn_next)
                BY DEF WinsKept, Wins!Begun, WinsAgree
            <3> QED  BY <3>1, <3>2
        <2>3. m - 1 \in 0..Len(file) /\ m - 1 \notin T
            BY <2>1, <2>2
        <2>4. acc[m] = Wins!Line(acc[m - 1], file[m])
            BY <1>2, <2>2, <2>3 DEF WinsWalk
        <2> QED  BY <2>3, <2>4, WinsLineKeeps
    <1> QED  BY <1>1, <1>3

-----------------------------------------------------------------------------
(* The steps.                                                                 *)

\* A row is what it was but for its place.
LEMMA WinsFilledAgrees ==
    ASSUME NEW w, WinsIsWin(w), NEW filled
    PROVE  WinsIsWin(Wins!Filled(w, filled)) /\ Wins!Filled(w, filled).id = w.id /\ WinsAgree(Wins!Filled(w, filled), w)
    <1>1. PICK place : Wins!Filled(w, filled) \in {w, [w EXCEPT !.place = place]}
        BY DEF Wins!Filled
    <1>2. PICK o : o = [w EXCEPT !.place = place]
        OBVIOUS
    <1>3. WinsIsWin(o) /\ o.id = w.id /\ WinsAgree(o, w)
        BY <1>2 DEF WinsIsWin, WinsColumn, WinsAgree
    <1> QED  BY <1>1, <1>2, <1>3 DEF WinsAgree

LEMMA WinsInitial == Wins!Init => WinsIInv
    BY DEF Wins!Init, WinsIInv, WinsShape, WinsIsTable, Wins!ImportAddsNoTwin

LEMMA WinsCreateKeeps ==
    ASSUME WinsIInv, NEW l, Wins!create_win(l)
    PROVE  WinsIInv'
    <1>1. PICK new : new = Wins!Row(wn_next, l)
        OBVIOUS
    <1>2. /\ wn_wins' = wn_wins \cup {new} /\ wn_next' = wn_next + 1 /\ UNCHANGED <<wn_request, wn_overlap, wn_imported>>
        BY <1>1 DEF Wins!create_win
    <1>3. WinsIsWin(new) /\ new.id = wn_next
        BY <1>1 DEF Wins!Row, WinsIsWin, WinsColumn, WinsIInv, WinsShape
    <1>4. wn_next \in Nat /\ \A w \in wn_wins : w.id \in Nat /\ w.id < wn_next
        BY DEF WinsIInv, WinsShape, WinsIsTable, WinsIsWin
    <1>5. WinsIsTable(wn_wins', wn_next')
        BY <1>2, <1>3, <1>4 DEF WinsIInv, WinsShape, WinsIsTable
    <1>6. ASSUME NEW m \in wn_Managers, wn_request[m] # Wins!Quiet
          PROVE  WinsIsMemory(wn_request[m], wn_wins', wn_next')
        <2>1. WinsIsMemory(wn_request[m], wn_wins, wn_next)
            BY <1>6 DEF WinsIInv, WinsShape
        <2>2. \A o \in wn_request[m].known : o.id < wn_next /\ o.id \in Nat
            BY <2>1 DEF WinsIsMemory, WinsIsWin
        <2>3. \A w \in wn_wins', o \in wn_request[m].known : w.id = o.id => WinsAgree(w, o)
            <3>1. \A w \in wn_wins, o \in wn_request[m].known : w.id = o.id => WinsAgree(w, o)
                BY <2>1 DEF WinsIsMemory
            <3>2. \A o \in wn_request[m].known : new.id # o.id
                BY <1>3, <1>4, <2>2
            <3> QED  BY <1>2, <3>1, <3>2
        <2>4. \A o \in wn_request[m].known : o.id < wn_next'
            BY <1>2, <1>4, <2>2
        <2> QED  BY <2>1, <2>3, <2>4 DEF WinsIsMemory
    <1>7. WinsShape'
        <2>1. \A i \in wn_imported' : i \in Nat /\ i < wn_next'
            BY <1>2, <1>4 DEF WinsIInv, WinsShape
        <2>2. \A m \in wn_Managers : wn_request'[m] # Wins!Quiet => WinsIsMemory(wn_request'[m], wn_wins', wn_next')
            BY <1>2, <1>6
        <2>3. wn_next' \in Nat
            BY <1>2, <1>4
        <2> QED  BY <1>5, <2>1, <2>2, <2>3 DEF WinsShape
    <1>8. Wins!ImportAddsNoTwin'
        <2>1. \A i \in wn_imported : i < wn_next
            BY DEF WinsIInv, WinsShape
        <2>2. new.id \notin wn_imported
            BY <1>3, <1>4, <2>1
        <2> QED  BY <1>2, <1>3, <1>4, <2>2 DEF WinsIInv, Wins!ImportAddsNoTwin
    <1> QED  BY <1>7, <1>8 DEF WinsIInv

LEMMA WinsDeleteKeeps ==
    ASSUME WinsIInv, NEW w, Wins!delete_win(w)
    PROVE  WinsIInv'
    <1>1. wn_wins' \subseteq wn_wins /\ UNCHANGED <<wn_request, wn_overlap, wn_imported, wn_next>>
        BY DEF Wins!delete_win
    <1>2. WinsShape'
        BY <1>1 DEF WinsIInv, WinsShape, WinsIsTable, WinsIsMemory
    <1>3. Wins!ImportAddsNoTwin'
        BY <1>1 DEF WinsIInv, Wins!ImportAddsNoTwin
    <1> QED  BY <1>2, <1>3 DEF WinsIInv

LEMMA WinsReadKeeps ==
    ASSUME WinsFilesGiven, WinsIInv, NEW m \in wn_Managers, NEW file \in wn_Files, Wins!ImportRead(m, file)
    PROVE  WinsIInv'
    <1>1. PICK r : r = [step |-> "read", file |-> file, known |-> Wins!Known(file)]
        OBVIOUS
    <1>2. wn_request' = [wn_request EXCEPT ![m] = r] /\ UNCHANGED <<wn_wins, wn_overlap, wn_imported, wn_next>>
        BY <1>1 DEF Wins!ImportRead
    <1>3. r.file = file /\ r.known \subseteq wn_wins
        BY <1>1 DEF Wins!Known
    <1>4. WinsIsMemory(r, wn_wins, wn_next)
        <2>1. Len(r.file) \in Nat
            BY <1>3 DEF WinsFilesGiven
        <2>2. \A w \in r.known : WinsIsWin(w) /\ w.id < wn_next
            BY <1>3 DEF WinsIInv, WinsShape, WinsIsTable
        <2>3. ASSUME NEW w \in wn_wins, NEW o \in r.known, w.id = o.id
              PROVE  WinsAgree(w, o)
            <3>1. w = o
                BY <1>3, <2>3 DEF WinsIInv, WinsShape, WinsIsTable
            <3> QED  BY <3>1 DEF WinsAgree
        <2> QED  BY <2>1, <2>2, <2>3 DEF WinsIsMemory
    <1>5. ASSUME NEW o \in wn_Managers, wn_request'[o] # Wins!Quiet
          PROVE  WinsIsMemory(wn_request'[o], wn_wins, wn_next)
        BY <1>2, <1>4, <1>5 DEF WinsIInv, WinsShape
    <1> QED  BY <1>2, <1>5 DEF WinsIInv, WinsShape, Wins!ImportAddsNoTwin

LEMMA WinsFailsKeeps ==
    ASSUME WinsIInv, NEW m \in wn_Managers, Wins!ImportFails(m)
    PROVE  WinsIInv'
    <1>1. wn_request' = [wn_request EXCEPT ![m] = Wins!Quiet] /\ UNCHANGED <<wn_wins, wn_overlap, wn_imported, wn_next>>
        BY DEF Wins!ImportFails
    <1>2. \A o \in wn_Managers : wn_request'[o] \in {Wins!Quiet, wn_request[o]}
        BY <1>1
    <1> QED  BY <1>1, <1>2 DEF WinsIInv, WinsShape, Wins!ImportAddsNoTwin

LEMMA WinsCommitKeeps ==
    ASSUME WinsIInv, NEW m \in wn_Managers, Wins!ImportCommit(m)
    PROVE  WinsIInv'
    <1>1. PICK known, merged : known = wn_request[m].known /\ merged = Wins!Merge(m)
        OBVIOUS
    <1>2. /\ wn_wins' = {Wins!Filled(w, merged.filled) : w \in wn_wins} \cup merged.added
          /\ wn_next' = merged.next
          /\ wn_imported' = wn_imported \cup Wins!Ids(merged.added)
          /\ wn_overlap' = wn_overlap \cup
                {a.id : a \in {w \in merged.added :
                                 \E o \in wn_wins : o.id \in Wins!Ids(wn_wins) \ Wins!Ids(known) /\ Wins!Same(o, w)}}
          /\ wn_request' = [wn_request EXCEPT ![m] = Wins!Quiet]
        BY <1>1 DEF Wins!ImportCommit
    <1>3. WinsIsMemory(wn_request[m], wn_wins, wn_next) /\ wn_next \in Nat
        <2>1. wn_request[m] # Wins!Quiet
            BY DEF Wins!ImportCommit, Wins!Quiet
        <2> QED  BY <2>1 DEF WinsIInv, WinsShape
    <1>4. WinsKept(merged, known, wn_next)
        BY <1>1, <1>3, WinsWalkKeeps DEF Wins!Merge, WinsIsMemory
    <1>5. \A w \in wn_wins : WinsIsWin(w) /\ w.id \in Nat /\ w.id < wn_next
        BY DEF WinsIInv, WinsShape, WinsIsTable, WinsIsWin
    <1>6. \A a \in merged.added : /\ WinsIsWin(a) /\ a.id \in Nat /\ wn_next <= a.id /\ a.id < merged.next
        BY <1>4 DEF WinsKept, WinsIsWin
    <1>7. merged.next \in Nat /\ wn_next <= merged.next
        BY <1>4 DEF WinsKept
    <1>8. ASSUME NEW w \in wn_wins'
          PROVE  \/ w \in merged.added
                 \/ \E v \in wn_wins : WinsIsWin(w) /\ w.id = v.id /\ WinsAgree(w, v) /\ w = Wins!Filled(v, merged.filled)
        <2>1. w \in merged.added \/ \E v \in wn_wins : w = Wins!Filled(v, merged.filled)
            BY <1>2
        <2> QED  BY <1>5, <2>1, WinsFilledAgrees
    <1>9. WinsIsTable(wn_wins', wn_next')
        <2>1. ASSUME NEW w \in wn_wins'
              PROVE  WinsIsWin(w) /\ w.id < wn_next'
            BY <1>2, <1>3, <1>5, <1>6, <1>7, <1>8
        <2>2. ASSUME NEW w \in wn_wins', NEW o \in wn_wins', w.id = o.id
              PROVE  w = o
            <3>1. CASE w \in merged.added /\ o \in merged.added
                BY <1>4, <2>2, <3>1 DEF WinsKept
            <3>2. CASE w \in merged.added /\ o \notin merged.added
                BY <1>3, <1>5, <1>6, <1>8, <2>2, <3>2
            <3>3. CASE w \notin merged.added /\ o \in merged.added
                BY <1>3, <1>5, <1>6, <1>8, <2>2, <3>3
            <3>4. CASE w \notin merged.added /\ o \notin merged.added
                <4>1. PICK v \in wn_wins : w.id = v.id /\ w = Wins!Filled(v, merged.filled)
                    BY <1>8, <3>4
                <4>2. PICK u \in wn_wins : o.id = u.id /\ o = Wins!Filled(u, merged.filled)
                    BY <1>8, <3>4
                <4>3. v = u
                    BY <2>2, <4>1, <4>2 DEF WinsIInv, WinsShape, WinsIsTable
                <4> QED  BY <4>1, <4>2, <4>3
            <3> QED  BY <3>1, <3>2, <3>3, <3>4
        <2> QED  BY <2>1, <2>2 DEF WinsIsTable
    <1>10. ASSUME NEW x \in wn_Managers, wn_request'[x] # Wins!Quiet
           PROVE  WinsIsMemory(wn_request'[x], wn_wins', wn_next')
        <2>1. PICK r : r = wn_request[x]
            OBVIOUS
        <2>2. wn_request'[x] = r /\ WinsIsMemory(r, wn_wins, wn_next)
            BY <1>2, <1>10, <2>1 DEF WinsIInv, WinsShape
        <2>3. \A o \in r.known : WinsIsWin(o) /\ o.id \in Nat /\ o.id < wn_next
            BY <2>2 DEF WinsIsMemory, WinsIsWin
        <2>4. ASSUME NEW w \in wn_wins', NEW o \in r.known, w.id = o.id
              PROVE  WinsAgree(w, o)
            <3>1. w \notin merged.added
                BY <1>3, <1>6, <2>3, <2>4
            <3>2. PICK v \in wn_wins : w.id = v.id /\ WinsAgree(w, v)
                BY <1>8, <3>1
            <3>3. WinsAgree(v, o)
                BY <2>2, <2>4, <3>2 DEF WinsIsMemory
            <3> QED  BY <3>2, <3>3 DEF WinsAgree
        <2>5. \A o \in r.known : o.id < wn_next'
            BY <1>2, <1>3, <1>7, <2>3
        <2> QED  BY <2>2, <2>3, <2>4, <2>5 DEF WinsIsMemory
    <1>11. \A i \in wn_imported' : i \in Nat /\ i < wn_next'
        <2>1. \A i \in wn_imported : i \in Nat /\ i < wn_next
            BY DEF WinsIInv, WinsShape
        <2> QED  BY <1>2, <1>3, <1>6, <1>7, <2>1 DEF Wins!Ids
    <1>12. WinsShape'
        BY <1>2, <1>7, <1>9, <1>10, <1>11 DEF WinsShape
    <1>13. ASSUME NEW w \in wn_wins', NEW o \in wn_wins', w.id \in wn_imported', o.id < w.id, Wins!Same(o, w)
           PROVE  w.id \in wn_overlap'
        <2>1. CASE w \notin merged.added
            <3>1. PICK v \in wn_wins : w.id = v.id /\ WinsAgree(w, v)
                BY <1>8, <2>1
            <3>2. o \notin merged.added
                BY <1>3, <1>5, <1>6, <1>13, <3>1
            <3>3. PICK u \in wn_wins : o.id = u.id /\ WinsAgree(o, u)
                BY <1>8, <3>2
            <3>4. v.id \in wn_imported
                BY <1>2, <1>3, <1>5, <1>6, <1>13, <3>1 DEF Wins!Ids
            <3>5. Wins!Same(u, v)
                BY <1>13, <3>1, <3>3 DEF Wins!Same, WinsAgree
            <3>6. v.id \in wn_overlap
                BY <1>13, <3>1, <3>3, <3>4, <3>5 DEF WinsIInv, Wins!ImportAddsNoTwin
            <3> QED  BY <1>2, <3>1, <3>6
        <2>2. CASE w \in merged.added /\ o \in merged.added
            BY <1>4, <1>13, <2>2 DEF WinsKept
        <2>3. CASE w \in merged.added /\ o \notin merged.added
            <3>1. PICK v \in wn_wins : o.id = v.id /\ WinsAgree(o, v)
                BY <1>8, <2>3
            <3>2. CASE \E k \in known : k.id = v.id
                <4>1. PICK k \in known : k.id = v.id
                    BY <3>2
                <4>2. WinsAgree(v, k)
                    BY <1>1, <1>3, <4>1 DEF WinsIsMemory
                <4>3. PICK a \in merged.known : a.id = k.id /\ WinsAgree(a, k)
                    BY <1>4 DEF WinsKept
                <4>4. ~Wins!Same(a, w)
                    BY <1>4, <1>13, <2>3, <3>1, <4>1, <4>3 DEF WinsKept
                <4>5. Wins!Same(a, w)
                    BY <1>13, <3>1, <4>2, <4>3 DEF Wins!Same, WinsAgree
                <4> QED  BY <4>4, <4>5
            <3>3. CASE ~\E k \in known : k.id = v.id
                <4>1. v.id \in Wins!Ids(wn_wins) \ Wins!Ids(known)
                    BY <3>3 DEF Wins!Ids
                <4>2. Wins!Same(v, w)
                    BY <1>13, <3>1 DEF Wins!Same, WinsAgree
                <4> QED  BY <1>2, <2>3, <4>1, <4>2
            <3> QED  BY <3>2, <3>3
        <2> QED  BY <2>1, <2>2, <2>3
    <1>14. Wins!ImportAddsNoTwin'
        BY <1>13 DEF Wins!ImportAddsNoTwin
    <1> QED  BY <1>12, <1>14 DEF WinsIInv

LEMMA WinsStep ==
    ASSUME WinsFilesGiven, WinsIInv, [Wins!Next]_(Wins!vars)
    PROVE  WinsIInv'
    <1>1. CASE UNCHANGED Wins!vars
        BY <1>1 DEF Wins!vars, WinsIInv, WinsShape, Wins!ImportAddsNoTwin
    <1> QED  BY <1>1, WinsCreateKeeps, WinsDeleteKeeps, WinsReadKeeps, WinsCommitKeeps, WinsFailsKeeps DEF Wins!Next

\* A row an import wrote equals no earlier row but one that was written while the
\* import was under way (import_wins_csv), for any files, managers and titles.
LEMMA WinsNoTwin == ASSUME WinsFilesGiven PROVE Wins!Spec => []Wins!ImportAddsNoTwin
    <1>1. WinsIInv /\ [Wins!Next]_(Wins!vars) => WinsIInv'
        BY WinsStep
    <1>2. WinsIInv => Wins!ImportAddsNoTwin
        BY DEF WinsIInv
    <1> QED  BY WinsInitial, <1>1, <1>2, PTL DEF Wins!Spec

\* A behaviour of the office is one of PlayerWins, with its steps or none.
LEMMA WinsPart == Init /\ [][Next]_vars => Wins!Spec
    <1>1. Init => Wins!Init
        BY DEF Init
    <1>2. [Next]_vars => [Wins!Next]_(Wins!vars)
        <2>1. UNCHANGED winsVars => UNCHANGED Wins!vars
            BY DEF winsVars, Wins!vars
        <2> QED  BY <2>1 DEF Next, vars
    <1> QED  BY <1>1, <1>2, PTL DEF Wins!Spec

\* A row an import wrote equals no earlier row but one that was written while
\* the import was under way (import_wins_csv), for any files, managers and titles.
THEOREM UploadAddsNoTwin == ASSUME WinsFilesGiven PROVE Spec => []ImportAddsNoTwin
    BY WinsNoTwin, WinsPart, PTL DEF Spec, ImportAddsNoTwin

-----------------------------------------------------------------------------
(* PromoParse: the marks of doubt of a draft.                              *)

\* The sets of the module are counted as everywhere.
LEMMA ParseCount == \A S : Parse!Cardinality(S) = Cardinality(S)
    BY DEF Parse!Cardinality, Cardinality

\* What is found in a text: prizes that are amounts or a label, at finitely many
\* places, amounts in a row, dates; NULL is none of them, and a month that ends
\* before it begins is given days more.
ParseTextsGiven ==
    /\ None \notin Int /\ None # "named" /\ None # "first"
    /\ pp_Year \in Int /\ pp_ThisYear \in Int /\ pp_Today \in Int /\ pp_MonthDays \in Int
    /\ pp_Far \in Int /\ pp_Far > 0
    /\ \A t \in pp_Texts :
          /\ IsFiniteSet(DOMAIN t.found)
          /\ \A place \in DOMAIN t.found : t.found[place] \in Int \cup {pp_Label}
          /\ t.amounts \in Seq(Int)
          /\ t.fund \in Int \cup {None} /\ t.counter \in Int \cup {None}
          /\ Len(t.dates) \in Nat /\ DOMAIN t.dates = 1..Len(t.dates)
          /\ \A i \in DOMAIN t.dates :
                t.dates[i].day \in Int /\ t.dates[i].year \in Int \cup {None}

ParseIInv == pp_text \in pp_Texts /\ Parse!UnsureIsMarked

-----------------------------------------------------------------------------
(* Least elements and walks.                                                  *)

LEMMA ParseLeastOf ==
    ASSUME NEW T \in SUBSET Nat, T # {}
    PROVE  \E m \in T : \A n \in T : m <= n
    <1>1. T \subseteq Nat
        OBVIOUS
    <1>2. PICK m \in T : \A n \in T : ~(<<n, m>> \in OpToRel(<, Nat))
        BY <1>1, NatLessThanWellFounded, WFMin
    <1>3. \A n \in T : ~(n < m)
        BY <1>2 DEF OpToRel
    <1> QED  BY <1>1, <1>3

\* g is the sum of the first n prizes, for every n so far.
ParseSummed(g, n, list) == g = [k \in 0..n |-> IF k = 0 THEN 0 ELSE g[k - 1] + Parse!Money(list[k])]

LEMMA ParseSumExists ==
    ASSUME NEW list, NEW n \in Nat
    PROVE  \E g : ParseSummed(g, n, list)
    <1> DEFINE T == {k \in Nat : ~\E g : ParseSummed(g, k, list)}
    <1> SUFFICES ASSUME T # {}
                 PROVE  FALSE
        OBVIOUS
    <1>1. PICK m \in T : \A k \in T : m <= k
        <2>1. T \in SUBSET Nat
            OBVIOUS
        <2> HIDE DEF T
        <2> QED  BY <2>1, ParseLeastOf
    <1>2. m # 0
        <2> DEFINE g == [k \in 0..0 |-> 0]
        <2>1. ParseSummed(g, 0, list)
            BY DEF ParseSummed
        <2> QED  BY <2>1
    <1>3. m - 1 \in Nat /\ m - 1 \notin T
        BY <1>1, <1>2
    <1>4. PICK g : ParseSummed(g, m - 1, list)
        BY <1>3
    <1> DEFINE e == [k \in 0..m |-> IF k = m THEN g[m - 1] + Parse!Money(list[m]) ELSE g[k]]
    <1>5. ParseSummed(e, m, list)
        <2>1. \A k \in 0..(m - 1) : e[k] = g[k]
            BY <1>3
        <2>2. \A k \in 0..(m - 1) : g[k] = IF k = 0 THEN 0 ELSE g[k - 1] + Parse!Money(list[k])
            BY <1>4 DEF ParseSummed
        <2>3. ASSUME NEW k \in 0..m
              PROVE  e[k] = IF k = 0 THEN 0 ELSE e[k - 1] + Parse!Money(list[k])
            <3>1. CASE k = m
                BY <1>2, <1>3, <2>1, <3>1
            <3>2. CASE k # m
                <4>1. k \in 0..(m - 1) /\ (k # 0 => k - 1 \in 0..(m - 1))
                    BY <1>3, <3>2
                <4> QED  BY <2>1, <2>2, <4>1
            <3> QED  BY <3>1, <3>2
        <2>4. e = [k \in 0..m |-> e[k]]
            OBVIOUS
        <2> HIDE DEF e
        <2> QED  BY <2>3, <2>4 DEF ParseSummed
    <1> QED  BY <1>5

\* What a list of prizes adds up to is a number.
LEMMA ParseTotalIsNumber ==
    ASSUME NEW list, Len(list) \in Nat, \A i \in 1..Len(list) : list[i] \in Int \cup {pp_Label}
    PROVE  Parse!total(list) \in Int /\ (Len(list) = 0 => Parse!total(list) = 0)
    <1> DEFINE sum == CHOOSE g : ParseSummed(g, Len(list), list)
    <1>1. Parse!total(list) = sum[Len(list)]
        BY DEF Parse!total, ParseSummed
    <1>2. ParseSummed(sum, Len(list), list)
        BY ParseSumExists
    <1> HIDE DEF sum
    <1>3. \A k \in 0..Len(list) : sum[k] = IF k = 0 THEN 0 ELSE sum[k - 1] + Parse!Money(list[k])
        BY <1>2 DEF ParseSummed
    <1>4. sum[0] = 0
        BY <1>3
    <1> DEFINE T == {k \in 0..Len(list) : sum[k] \notin Int}
    <1>5. T = {}
        <2> SUFFICES ASSUME T # {}
                     PROVE  FALSE
            OBVIOUS
        <2>1. PICK m \in T : \A k \in T : m <= k
            <3>1. T \in SUBSET Nat
                OBVIOUS
            <3> HIDE DEF T
            <3> QED  BY <3>1, ParseLeastOf
        <2>2. m # 0 /\ m \in 0..Len(list)
            BY <1>4, <2>1
        <2>3. m - 1 \in 0..Len(list) /\ m - 1 \notin T
            BY <2>1, <2>2
        <2>4. sum[m - 1] \in Int
            BY <2>3
        <2>5. Parse!Money(list[m]) \in Int
            BY <2>2 DEF Parse!Money
        <2>6. sum[m] = sum[m - 1] + Parse!Money(list[m])
            BY <1>3, <2>2
        <2> QED  BY <2>1, <2>4, <2>5, <2>6
    <1> QED  BY <1>1, <1>4, <1>5

-----------------------------------------------------------------------------
(* Prizes.                                                                    *)

\* The places go up to the last one without a gap.
LEMMA ParsePrizesAreFound ==
    ASSUME NEW found, IsFiniteSet(DOMAIN found),
           \A place \in DOMAIN found : found[place] \in Int \cup {pp_Label}
    PROVE  /\ Len(Parse!prizes(found)) \in Nat
           /\ \A i \in 1..Len(Parse!prizes(found)) : Parse!prizes(found)[i] \in Int \cup {pp_Label}
           /\ (Len(Parse!prizes(found)) = 0 <=> Parse!prizes(found) = <<>>)
    <1> DEFINE c == Cardinality(DOMAIN found)
               T == {k \in Nat : k + 1 \notin DOMAIN found}
    <1>1. c \in Nat
        BY FS_CardinalityType
    <1>2. \A n \in Nat : 1..n \subseteq DOMAIN found => n <= c
        <2> SUFFICES ASSUME NEW n \in Nat, 1..n \subseteq DOMAIN found
                     PROVE  n <= c
            OBVIOUS
        <2>1. Cardinality(1..n) = n
            BY FS_Interval
        <2>2. Cardinality(1..n) <= c
            BY FS_Subset
        <2> QED  BY <2>1, <2>2
    <1> HIDE DEF c
    <1>3. T # {}
        <2>1. CASE 1..(c + 1) \subseteq DOMAIN found
            BY <1>1, <1>2, <2>1
        <2>2. CASE \E k \in 1..(c + 1) : k \notin DOMAIN found
            <3>1. PICK k \in 1..(c + 1) : k \notin DOMAIN found
                BY <2>2
            <3>2. k - 1 \in T
                BY <1>1, <3>1
            <3> QED  BY <3>2
        <2> QED  BY <2>1, <2>2
    <1>4. PICK m \in T : \A k \in T : m <= k
        <2>1. T \in SUBSET Nat
            OBVIOUS
        <2> HIDE DEF T
        <2> QED  BY <1>3, <2>1, ParseLeastOf
    <1>5. 1..m \subseteq DOMAIN found
        <2> SUFFICES ASSUME NEW k \in 1..m
                     PROVE  k \in DOMAIN found
            OBVIOUS
        <2>1. k - 1 \in Nat /\ ~(m <= k - 1)
            BY <1>4
        <2>2. k - 1 \notin T
            BY <1>4, <2>1
        <2> QED  BY <2>1, <2>2
    <1>6. m \in 0..c /\ m + 1 \notin DOMAIN found
        BY <1>1, <1>2, <1>4, <1>5
    <1>7. PICK n \in 0..c : /\ 1..n \subseteq DOMAIN found
                            /\ Parse!prizes(found) = [place \in 1..n |-> found[place]]
        <2> DEFINE last == CHOOSE n \in 0..Parse!Cardinality(DOMAIN found) :
                              1..n \subseteq DOMAIN found /\ (n + 1) \notin DOMAIN found
        <2>1. last \in 0..c /\ 1..last \subseteq DOMAIN found
            BY <1>5, <1>6, ParseCount DEF c
        <2>2. Parse!prizes(found) = [place \in 1..last |-> found[place]]
            BY DEF Parse!prizes
        <2> HIDE DEF last
        <2> QED  BY <2>1, <2>2
    <1>8. n \in Nat /\ DOMAIN Parse!prizes(found) = 1..n
        BY <1>1, <1>7
    <1>9. Parse!prizes(found) \in Seq(Int \cup {pp_Label}) /\ Len(Parse!prizes(found)) = n
        BY <1>7, <1>8
    <1> QED  BY <1>8, <1>9

\* g is what was taken of the first n amounts, for every n so far.
ParseTaken(g, n, amounts, fund) ==
    g = [k \in 0..n |-> IF k = 0 THEN [list |-> <<>>, going |-> TRUE]
                        ELSE Parse!Take(g[k - 1], amounts[k], fund)]

LEMMA ParseTakenExists ==
    ASSUME NEW amounts, NEW fund, NEW n \in Nat
    PROVE  \E g : ParseTaken(g, n, amounts, fund)
    <1> DEFINE T == {k \in Nat : ~\E g : ParseTaken(g, k, amounts, fund)}
               none == [list |-> <<>>, going |-> TRUE]
    <1> SUFFICES ASSUME T # {}
                 PROVE  FALSE
        OBVIOUS
    <1>1. PICK m \in T : \A k \in T : m <= k
        <2>1. T \in SUBSET Nat
            OBVIOUS
        <2> HIDE DEF T
        <2> QED  BY <2>1, ParseLeastOf
    <1>2. m # 0
        <2> DEFINE g == [k \in 0..0 |-> none]
        <2>1. ParseTaken(g, 0, amounts, fund)
            BY DEF ParseTaken
        <2> QED  BY <2>1
    <1>3. m - 1 \in Nat /\ m - 1 \notin T
        BY <1>1, <1>2
    <1>4. PICK g : ParseTaken(g, m - 1, amounts, fund)
        BY <1>3
    <1> DEFINE e == [k \in 0..m |-> IF k = m THEN Parse!Take(g[m - 1], amounts[m], fund) ELSE g[k]]
    <1>5. ParseTaken(e, m, amounts, fund)
        <2>1. \A k \in 0..(m - 1) : e[k] = g[k]
            BY <1>3
        <2>2. \A k \in 0..(m - 1) : g[k] = IF k = 0 THEN none ELSE Parse!Take(g[k - 1], amounts[k], fund)
            BY <1>4 DEF ParseTaken
        <2>3. ASSUME NEW k \in 0..m
              PROVE  e[k] = IF k = 0 THEN none ELSE Parse!Take(e[k - 1], amounts[k], fund)
            <3> HIDE DEF none
            <3>1. CASE k = m
                BY <1>2, <1>3, <2>1, <3>1
            <3>2. CASE k # m
                <4>1. k \in 0..(m - 1) /\ (k # 0 => k - 1 \in 0..(m - 1))
                    BY <1>3, <3>2
                <4> QED  BY <2>1, <2>2, <4>1
            <3> QED  BY <3>1, <3>2
        <2>4. e = [k \in 0..m |-> e[k]]
            OBVIOUS
        <2> HIDE DEF e
        <2> QED  BY <2>3, <2>4 DEF ParseTaken
    <1> QED  BY <1>5

\* What is taken of a row of numbers is numbers.
LEMMA ParseAmountsAreNumbers ==
    ASSUME NEW amounts \in Seq(Int), NEW fund
    PROVE  Parse!Amounts(amounts, fund) \in Seq(Int)
    <1> DEFINE taken == CHOOSE g : ParseTaken(g, Len(amounts), amounts, fund)
               none == [list |-> <<>>, going |-> TRUE]
    <1>1. Parse!Amounts(amounts, fund) = taken[Len(amounts)].list
        BY DEF Parse!Amounts, ParseTaken
    <1>2. ParseTaken(taken, Len(amounts), amounts, fund)
        BY ParseTakenExists
    <1> HIDE DEF taken
    <1>3. \A k \in 0..Len(amounts) : taken[k] = IF k = 0 THEN none ELSE Parse!Take(taken[k - 1], amounts[k], fund)
        BY <1>2 DEF ParseTaken
    <1> DEFINE OK(t) == t = [list |-> t.list, going |-> t.going] /\ t.list \in Seq(Int)
               T == {k \in 0..Len(amounts) : ~OK(taken[k])}
    <1>4. OK(taken[0])
        <2>1. taken[0] = none
            BY <1>3
        <2>2. none.list = <<>> /\ <<>> \in Seq(Int)
            OBVIOUS
        <2> QED  BY <2>1, <2>2
    <1>5. ASSUME NEW t, NEW a, OK(t), a \in Int
          PROVE  OK(Parse!Take(t, a, fund))
        <2>1. PICK u : u = Parse!Take(t, a, fund)
            OBVIOUS
        <2>2. Append(t.list, a) \in Seq(Int)
            BY <1>5
        <2>3. \/ u = t
              \/ u = [t EXCEPT !.going = FALSE]
              \/ u = [t EXCEPT !.list = Append(t.list, a)]
            BY <2>1 DEF Parse!Take
        <2>4. u = [list |-> u.list, going |-> u.going] /\ u.list \in {t.list, Append(t.list, a)}
            BY <1>5, <2>3
        <2> QED  BY <1>5, <2>1, <2>2, <2>4
    <1> HIDE DEF OK, none
    <1>6. T = {}
        <2> SUFFICES ASSUME T # {}
                     PROVE  FALSE
            OBVIOUS
        <2>1. PICK m \in T : \A k \in T : m <= k
            <3>1. T \in SUBSET Nat
                OBVIOUS
            <3> HIDE DEF T
            <3> QED  BY <3>1, ParseLeastOf
        <2>2. m # 0 /\ m \in 0..Len(amounts)
            BY <1>4, <2>1
        <2>3. m - 1 \in 0..Len(amounts) /\ m - 1 \notin T
            BY <2>1, <2>2
        <2>4. OK(taken[m - 1]) /\ amounts[m] \in Int
            BY <2>2, <2>3
        <2>5. taken[m] = Parse!Take(taken[m - 1], amounts[m], fund)
            BY <1>3, <2>2
        <2> QED  BY <1>5, <2>1, <2>4, <2>5
    <1>7. OK(taken[Len(amounts)])
        BY <1>6
    <1> QED  BY <1>1, <1>7 DEF OK

\* Both readings of the prizes add up to a number, nothing to 0.
LEMMA ParseReadingsAreNumbers ==
    ASSUME ParseTextsGiven, NEW t \in pp_Texts
    PROVE  /\ Parse!total(Parse!prizes(t.found)) \in Int
           /\ Parse!total(Parse!unnumbered_prizes(t.amounts, Parse!stated_fund(t))) \in Int
           /\ Parse!prizes(t.found) = <<>> => Parse!total(Parse!prizes(t.found)) = 0
           /\ Parse!unnumbered_prizes(t.amounts, Parse!stated_fund(t)) = <<>> =>
                 Parse!total(Parse!unnumbered_prizes(t.amounts, Parse!stated_fund(t))) = 0
    <1>1. /\ Parse!total(Parse!prizes(t.found)) \in Int
          /\ Parse!prizes(t.found) = <<>> => Parse!total(Parse!prizes(t.found)) = 0
        BY ParsePrizesAreFound, ParseTotalIsNumber DEF ParseTextsGiven
    <1>2. PICK list : list = Parse!unnumbered_prizes(t.amounts, Parse!stated_fund(t))
        OBVIOUS
    <1>3. list \in Seq(Int)
        BY <1>2, ParseAmountsAreNumbers DEF Parse!unnumbered_prizes, ParseTextsGiven
    <1>4. Parse!total(list) \in Int /\ (list = <<>> => Parse!total(list) = 0)
        BY <1>3, ParseTotalIsNumber
    <1> QED  BY <1>1, <1>2, <1>4

-----------------------------------------------------------------------------
(* Dates.                                                                     *)

LEMMA ParseNearestIsCandidate ==
    ASSUME ParseTextsGiven, NEW day \in Int, Parse!Candidates(day) # {}
    PROVE  Parse!nearest_year(day) \in Int
    <1> DEFINE C == Parse!Candidates(day)
               far(y) == Parse!Distance(y, day)
               D == {far(y) : y \in C}
    <1>1. C \subseteq Int /\ \A y \in C : y - (pp_ThisYear - 1) \in Nat
        BY DEF Parse!Candidates, ParseTextsGiven
    <1>2. \A y \in C : far(y) \in Nat
        BY <1>1 DEF Parse!Distance, ParseTextsGiven
    <1> HIDE DEF C, far
    <1>3. D \in SUBSET Nat /\ D # {}
        BY <1>2 DEF C
    <1> HIDE DEF D
    <1>4. PICK d \in D : \A e \in D : d <= e
        BY <1>3, ParseLeastOf
    <1> DEFINE B == {y - (pp_ThisYear - 1) : y \in {z \in C : far(z) = d}}
    <1>5. B \in SUBSET Nat /\ B # {}
        BY <1>1, <1>4 DEF D
    <1> HIDE DEF B
    <1>6. PICK b \in B : \A e \in B : b <= e
        BY <1>5, ParseLeastOf
    <1>7. PICK y \in C : far(y) = d /\ b = y - (pp_ThisYear - 1)
        BY <1>6 DEF B
    <1>8. \A o \in C : far(y) < far(o) \/ (far(y) = far(o) /\ y <= o)
        <2> SUFFICES ASSUME NEW o \in C
                     PROVE  far(y) < far(o) \/ (far(y) = far(o) /\ y <= o)
            OBVIOUS
        <2>1. far(o) \in D
            BY DEF D
        <2>2. d <= far(o) /\ d \in Nat /\ far(o) \in Nat
            BY <1>3, <1>4, <2>1
        <2>3. far(o) = d => o - (pp_ThisYear - 1) \in B
            BY DEF B
        <2>4. far(o) = d => y <= o
            BY <1>1, <1>6, <1>7, <2>3 DEF ParseTextsGiven
        <2> QED  BY <1>7, <2>2, <2>4
    <1>9. Parse!nearest_year(day) \in C
        BY <1>8 DEF Parse!nearest_year, C, far
    <1> QED  BY <1>1, <1>9

\* The dates of a text that does not break the parser are days.
LEMMA ParseDatesAreDays ==
    ASSUME ParseTextsGiven, NEW t \in pp_Texts, ~Parse!Breaks(t), NEW i \in DOMAIN t.dates
    PROVE  Parse!At(t.dates[i]) \in Int
    <1>1. t.dates[i].day \in Int /\ t.dates[i].year \in Int \cup {None} /\ pp_Year \in Int
        BY DEF ParseTextsGiven
    <1>2. CASE t.dates[i].year = None
        <2>1. Parse!nearest_year(t.dates[i].day) \in Int
            BY <1>1, <1>2, ParseNearestIsCandidate DEF Parse!Breaks
        <2> QED  BY <1>1, <1>2, <2>1 DEF Parse!At
    <1>3. CASE t.dates[i].year # None
        BY <1>1, <1>3 DEF Parse!At
    <1> QED  BY <1>2, <1>3

\* The earliest of a set of places.
LEMMA ParseMinIsThere ==
    ASSUME NEW T \in SUBSET Nat, T # {}
    PROVE  Parse!Min(T) \in T
    <1>1. \E m \in T : \A n \in T : m <= n
        BY ParseLeastOf
    <1> QED  BY <1>1 DEF Parse!Min

\* None, one or two of the dates are taken; of two the second is the later.
LEMMA ParseMomentsAreDays ==
    ASSUME ParseTextsGiven, NEW t \in pp_Texts, ~Parse!Breaks(t)
    PROVE  \/ Parse!Moments(t) = <<>>
           \/ \E m : Parse!Moments(t) = <<m>> /\ Parse!At(m) \in Int
           \/ \E m, n : Parse!Moments(t) = <<m, n>> /\ Parse!At(m) \in Int /\ Parse!At(n) \in Int
    <1> DEFINE first == t.dates[Parse!Min(Parse!Readable(t))]
               later == {i \in Parse!Readable(t) : Parse!At(t.dates[i]) > Parse!At(first)}
    <1>1. Parse!Readable(t) \in SUBSET Nat /\ Parse!Readable(t) \subseteq DOMAIN t.dates
        BY DEF Parse!Readable, ParseTextsGiven
    <1>2. Parse!Moments(t) = CASE Parse!Readable(t) = {}                  -> <<>>
                               [] Parse!Readable(t) # {} /\ later = {} -> <<first>>
                               [] OTHER                          -> <<first, t.dates[Parse!Min(later)]>>
        BY Zenon DEF Parse!Moments
    <1>3. CASE Parse!Readable(t) = {}
        BY <1>2, <1>3
    <1>4. CASE Parse!Readable(t) # {} /\ later = {}
        <2>1. Parse!At(first) \in Int
            BY <1>1, <1>4, ParseMinIsThere, ParseDatesAreDays
        <2>2. Parse!Moments(t) = <<first>>
            BY <1>2, <1>4
        <2> QED  BY <2>1, <2>2
    <1>5. CASE Parse!Readable(t) # {} /\ later # {}
        <2>1. Parse!At(first) \in Int
            BY <1>1, <1>5, ParseMinIsThere, ParseDatesAreDays
        <2>2. later \in SUBSET Nat /\ later \subseteq DOMAIN t.dates
            BY <1>1
        <2>3. Parse!Moments(t) = <<first, t.dates[Parse!Min(later)]>>
            BY <1>2, <1>5
        <2> HIDE DEF later, first
        <2>4. Parse!At(t.dates[Parse!Min(later)]) \in Int
            BY <1>5, <2>2, ParseMinIsThere, ParseDatesAreDays
        <2> QED  BY <2>1, <2>3, <2>4
    <1> QED  BY <1>3, <1>4, <1>5

-----------------------------------------------------------------------------
(* The draft.                                                                 *)

LEMMA ParseFundIsMarked ==
    ASSUME ParseTextsGiven, NEW t \in pp_Texts
    PROVE  /\ Parse!prize_fund(t) = None => "prize_fund" \in Parse!FundDoubts(t)
           /\ Parse!total(Parse!Chosen(t)) \notin {0, Parse!prize_fund(t)} => {"prizes", "prize_fund"} \subseteq Parse!FundDoubts(t)
           /\ \/ Parse!total(Parse!Chosen(t)) = Parse!prize_fund(t)
              \/ Parse!prize_fund(t) \notin {Parse!total(Parse!prizes(t.found)),
                                             Parse!total(Parse!unnumbered_prizes(t.amounts, Parse!stated_fund(t)))}
              \/ Parse!prize_fund(t) = 0
    <1>1. PICK numbered, unnumbered, fund :
            numbered = Parse!prizes(t.found) /\ fund = Parse!stated_fund(t)
            /\ unnumbered = Parse!unnumbered_prizes(t.amounts, fund)
        OBVIOUS
    <1>2. PICK n, u : n = Parse!total(numbered) /\ u = Parse!total(unnumbered)
        OBVIOUS
    <1>3. /\ n \in Int /\ u \in Int
          /\ numbered = <<>> => n = 0
          /\ unnumbered = <<>> => u = 0
        BY <1>1, <1>2, ParseReadingsAreNumbers
    <1>4. PICK chosen, sum : chosen = Parse!Chosen(t) /\ sum = Parse!total(chosen)
        OBVIOUS
    <1>5. chosen = IF unnumbered # <<>> /\ (numbered = <<>> \/ (fund # None /\ n # fund /\ u = fund))
                   THEN unnumbered ELSE numbered
        BY <1>1, <1>2, <1>4 DEF Parse!Chosen
    <1>6. sum = IF unnumbered # <<>> /\ (numbered = <<>> \/ (fund # None /\ n # fund /\ u = fund))
                THEN u ELSE n
        BY <1>2, <1>4, <1>5
    <1>7. PICK given : given = Parse!prize_fund(t)
        OBVIOUS
    <1>8. given = IF fund # None THEN fund ELSE IF sum # 0 THEN sum ELSE None
        BY <1>1, <1>4, <1>7 DEF Parse!prize_fund
    <1>9. None \notin Int
        BY DEF ParseTextsGiven
    <1>10. given = None => "prize_fund" \in Parse!FundDoubts(t)
        BY <1>1, <1>3, <1>4, <1>6, <1>8, <1>9 DEF Parse!FundDoubts
    <1>11. sum \notin {0, given} => {"prizes", "prize_fund"} \subseteq Parse!FundDoubts(t)
        BY <1>1, <1>4, <1>8 DEF Parse!FundDoubts
    <1>12. sum = given \/ given \notin {n, u} \/ given = 0
        BY <1>3, <1>6, <1>8, <1>9
    <1> QED  BY <1>1, <1>2, <1>4, <1>7, <1>10, <1>11, <1>12

LEMMA ParseDaysAreMarked ==
    ASSUME ParseTextsGiven, NEW t \in pp_Texts, ~Parse!Breaks(t)
    PROVE  /\ Parse!starts_at(t) = None => "starts_at" \in Parse!DateDoubts(t)
           /\ Parse!ends_at(t) = None => "ends_at" \in Parse!DateDoubts(t)
           /\ Parse!starts_at(t) # None /\ Parse!ends_at(t) # None => Parse!starts_at(t) < Parse!ends_at(t)
    <1>1. None \notin Int /\ pp_MonthDays \in Int /\ pp_Far \in Int /\ pp_Far > 0
        BY DEF ParseTextsGiven
    <1>2. CASE Parse!Moments(t) = <<>>
        BY <1>2 DEF Parse!starts_at, Parse!DateDoubts
    <1>3. ASSUME NEW m, Parse!Moments(t) = <<m>>, Parse!At(m) \in Int
          PROVE  /\ Parse!starts_at(t) = None => "starts_at" \in Parse!DateDoubts(t)
                 /\ Parse!ends_at(t) = None => "ends_at" \in Parse!DateDoubts(t)
                 /\ Parse!starts_at(t) # None /\ Parse!ends_at(t) # None => Parse!starts_at(t) < Parse!ends_at(t)
        <2>1. Len(Parse!Moments(t)) = 1 /\ Parse!Moments(t) # <<>> /\ Parse!Moments(t)[1] = m
            BY <1>3
        <2>2. Parse!starts_at(t) = Parse!At(m) /\ Parse!found_end(t) \in {Parse!At(m) + pp_MonthDays, None}
            BY <2>1 DEF Parse!starts_at, Parse!found_end
        <2>3. "ends_at" \in Parse!DateDoubts(t)
            BY <2>1 DEF Parse!DateDoubts
        <2> QED  BY <1>1, <1>3, <2>2, <2>3 DEF Parse!ends_at, Parse!Inverted
    <1>4. ASSUME NEW m, NEW n, Parse!Moments(t) = <<m, n>>, Parse!At(m) \in Int, Parse!At(n) \in Int
          PROVE  /\ Parse!starts_at(t) = None => "starts_at" \in Parse!DateDoubts(t)
                 /\ Parse!ends_at(t) = None => "ends_at" \in Parse!DateDoubts(t)
                 /\ Parse!starts_at(t) # None /\ Parse!ends_at(t) # None => Parse!starts_at(t) < Parse!ends_at(t)
        <2>1. Len(Parse!Moments(t)) = 2 /\ Parse!Moments(t) # <<>> /\ Parse!Moments(t)[1] = m /\ Parse!Moments(t)[2] = n
            BY <1>4
        <2>2. Parse!starts_at(t) = Parse!At(m) /\ Parse!found_end(t) = Parse!At(n)
            BY <2>1 DEF Parse!starts_at, Parse!found_end
        <2> QED  BY <1>1, <1>4, <2>2 DEF Parse!ends_at, Parse!Inverted
    <1> QED  BY <1>2, <1>3, <1>4, ParseMomentsAreDays

LEMMA ParseParseMarks ==
    ASSUME ParseTextsGiven, pp_text \in pp_Texts, Parse!parse_promo
    PROVE  Parse!UnsureIsMarked'
    <1>1. PICK d : d = [fund |-> Parse!prize_fund(pp_text), prizes |-> Parse!Chosen(pp_text), club |-> Parse!club(pp_text),
                        starts |-> Parse!starts_at(pp_text), ends |-> Parse!ends_at(pp_text),
                        uncertain |-> Parse!FundDoubts(pp_text) \cup Parse!DateDoubts(pp_text) \cup Parse!ClubDoubts(pp_text)]
        OBVIOUS
    <1>2. pp_draft' = d /\ pp_text' = pp_text /\ ~Parse!Breaks(pp_text)
        BY <1>1 DEF Parse!parse_promo
    <1>3. /\ d.fund = Parse!prize_fund(pp_text) /\ d.prizes = Parse!Chosen(pp_text) /\ d.club = Parse!club(pp_text)
          /\ d.starts = Parse!starts_at(pp_text) /\ d.ends = Parse!ends_at(pp_text)
          /\ d.uncertain = Parse!FundDoubts(pp_text) \cup Parse!DateDoubts(pp_text) \cup Parse!ClubDoubts(pp_text)
        BY <1>1
    <1>4. d.club = None => "club_id" \in d.uncertain
        BY <1>3 DEF Parse!club, Parse!ClubDoubts, ParseTextsGiven
    <1>5. /\ d.fund = None => "prize_fund" \in d.uncertain
          /\ Parse!total(d.prizes) \notin {0, d.fund} => {"prizes", "prize_fund"} \subseteq d.uncertain
          /\ \/ Parse!total(d.prizes) = d.fund
             \/ d.fund \notin {Parse!total(Parse!prizes(pp_text.found)),
                               Parse!total(Parse!unnumbered_prizes(pp_text.amounts, Parse!stated_fund(pp_text)))}
             \/ d.fund = 0
        BY <1>3, ParseFundIsMarked
    <1>6. /\ d.starts = None => "starts_at" \in d.uncertain
          /\ d.ends = None => "ends_at" \in d.uncertain
          /\ d.starts # None /\ d.ends # None => d.starts < d.ends
        BY <1>2, <1>3, ParseDaysAreMarked
    <1> QED  BY <1>2, <1>4, <1>5, <1>6 DEF Parse!UnsureIsMarked

LEMMA ParseIInvKept ==
    ASSUME ParseTextsGiven, ParseIInv, [Parse!Next]_(Parse!vars)
    PROVE  ParseIInv'
    <1>1. CASE Parse!parse_promo
        BY <1>1, ParseParseMarks DEF ParseIInv, Parse!parse_promo
    <1>2. CASE Parse!ParseFails
        BY <1>2 DEF ParseIInv, Parse!ParseFails, Parse!UnsureIsMarked
    <1>3. CASE UNCHANGED Parse!vars
        BY <1>3 DEF ParseIInv, Parse!vars, Parse!UnsureIsMarked
    <1> QED  BY <1>1, <1>2, <1>3 DEF Parse!Next


\* Everything the parser is not sure of is marked, and the reading of the prizes
\* that adds up to the fund is the one taken (parse_promo), for any text it does
\* not break on.
THEOREM DraftMarksDoubts == ASSUME ParseTextsGiven PROVE Spec => []UnsureIsMarked
    <1> DEFINE OInv == IF part = "parse" THEN ParseIInv ELSE pp_outcome = "none"
    <1>1. Init => OInv
        BY DEF Init, ParseIInv, Parse!UnsureIsMarked
    <1>2. OInv /\ [Next]_vars => OInv'
        <2> SUFFICES ASSUME OInv, [Next]_vars
                     PROVE  OInv'
            OBVIOUS
        <2>1. part' = part
            BY DEF Next, vars
        <2>2. CASE part = "parse"
            <3>1. UNCHANGED parseVars => UNCHANGED Parse!vars
                BY DEF parseVars, Parse!vars
            <3>2. [Parse!Next]_(Parse!vars)
                BY <3>1 DEF Next, vars
            <3>3. ParseIInv'
                BY <2>2, <3>2, ParseIInvKept
            <3> QED  BY <2>1, <2>2, <3>3
        <2>3. CASE part # "parse"
            <3>1. UNCHANGED parseVars
                BY <2>3 DEF Next, vars
            <3> QED  BY <2>1, <2>3, <3>1 DEF parseVars
        <2> QED  BY <2>2, <2>3
    <1>3. OInv => UnsureIsMarked
        BY DEF ParseIInv, UnsureIsMarked, Parse!UnsureIsMarked
    <1> QED  BY <1>1, <1>2, <1>3, PTL DEF Spec
=============================================================================
