--------------------------- MODULE StoreFileProofs ----------------------------
(***************************************************************************)
(* Only overlapping saves can damage the store file, for any number of     *)
(* savers, versions and crashes.                                           *)
(***************************************************************************)
EXTENDS StoreFile, TLAPS

(* Every step keeps the variables in their sets, with any number of savers.*)
THEOREM StoreFileTypeCorrect == Spec => []TypeOK
<1>1. Init => TypeOK
  <2>1. 0 \in Versions /\ 0 \in 0..MaxCrashes
    BY StoreFileAssumption DEF Versions
  <2> QED BY <2>1 DEF Init, TypeOK, PC, Content
<1>2. TypeOK /\ [Next]_vars => TypeOK'
  <2> SUFFICES ASSUME TypeOK, [Next]_vars PROVE TypeOK'
    OBVIOUS
  <2> USE StoreFileAssumption DEF TypeOK, PC, Versions, Content, Goto, files
  <2>1. CASE Change
    BY <2>1 DEF Change
  <2>2. CASE Crash
    BY <2>2 DEF Crash
  <2>3. CASE Start
    BY <2>3 DEF Start
  <2>4. ASSUME NEW s \in Savers, SaverStep(s) PROVE TypeOK'
    <3>1. CASE CopyState(s)
      BY <3>1 DEF CopyState
    <3>2. CASE OpenTmp(s)
      <4>1. OpenBy \subseteq Savers
        BY DEF OpenBy
      <4> QED BY <3>2, <4>1 DEF OpenTmp
    <3>3. CASE OpenFails(s)
      BY <3>3 DEF OpenFails
    <3>4. CASE WriteTmp(s)
      BY <3>4 DEF WriteTmp
    <3>5. CASE WriteFails(s)
      BY <3>5 DEF WriteFails, TmpAfterRemove
    <3>6. CASE RenameTmp(s)
      BY <3>6 DEF RenameTmp, MoveIntoPlace
    <3>7. CASE RemovePath(s)
      BY <3>7 DEF RemovePath
    <3>8. CASE RenameAgain(s)
      BY <3>8 DEF RenameAgain, MoveIntoPlace, TmpAfterRemove
    <3>9. CASE Reply(s)
      BY <3>9 DEF Reply
    <3> QED BY <2>4, <3>1, <3>2, <3>3, <3>4, <3>5, <3>6, <3>7, <3>8, <3>9 DEF SaverStep
  <2>5. CASE UNCHANGED vars
    BY <2>5 DEF vars
  <2> QED BY <2>1, <2>2, <2>3, <2>4, <2>5 DEF Next
<1> QED BY <1>1, <1>2, PTL DEF Spec

(* Why the file stays whole and a reported save is in place until saves    *)
(* overlap: at most one is on the disk, so no write is shared, path.tmp    *)
(* holds the saver's own copy from the moment it is closed, and the second *)
(* rename comes only after the first was refused.                          *)
WholeInv ==
  ~overlapped =>
    /\ path # Torn /\ up # "failed"
    /\ shared = {}
    /\ \A s, t \in Savers : OnDisk(s) /\ OnDisk(t) => s = t
    /\ \A s \in Savers : pc[s] \in {"closed", "refused", "removed"} => tmp = copy[s]
    /\ \A s \in Savers : pc[s] = "done" => path = copy[s]

(* Saves that do not overlap keep the store file whole through failures    *)
(* and crashes.                                                            *)
LEMMA ApartKeepsWhole == Spec => []WholeInv
<1>1. Init => WholeInv
  BY StoreFileAssumption DEF Init, WholeInv, OnDisk
<1>2. TypeOK /\ TypeOK' /\ WholeInv /\ [Next]_vars => WholeInv'
  <2> SUFFICES ASSUME TypeOK, WholeInv, [Next]_vars, ~overlapped' PROVE WholeInv'
    BY DEF WholeInv
  <2> USE StoreFileAssumption DEF TypeOK, WholeInv, OnDisk, PC, Versions, Content, Goto, files
  <2>1. CASE Change
    BY <2>1 DEF Change
  <2>2. CASE Crash
    BY <2>2 DEF Crash
  <2>3. CASE Start
    BY <2>3 DEF Start
  <2>4. ASSUME NEW s \in Savers, SaverStep(s) PROVE WholeInv'
    <3>1. CASE CopyState(s)
      BY <3>1 DEF CopyState
    <3>2. CASE OpenTmp(s)
      <4>1. \A t \in Savers : pc[t] \in {"idle", "copied"}
        BY <3>2 DEF OpenTmp
      <4>2. OpenBy = {} /\ ~overlapped
        BY <3>2, <4>1 DEF OpenTmp, OpenBy
      <4> QED BY <3>2, <4>1, <4>2 DEF OpenTmp
    <3>3. CASE OpenFails(s)
      BY <3>3 DEF OpenFails
    <3>4. CASE WriteTmp(s)
      BY <3>4 DEF WriteTmp
    <3>5. CASE WriteFails(s)
      BY <3>5 DEF WriteFails
    <3>6. CASE RenameTmp(s)
      BY <3>6 DEF RenameTmp, MoveIntoPlace
    <3>7. CASE RemovePath(s)
      BY <3>7 DEF RemovePath
    <3>8. CASE RenameAgain(s)
      BY <3>8 DEF RenameAgain, MoveIntoPlace
    <3>9. CASE Reply(s)
      BY <3>9 DEF Reply
    <3> QED BY <2>4, <3>1, <3>2, <3>3, <3>4, <3>5, <3>6, <3>7, <3>8, <3>9 DEF SaverStep
  <2>5. CASE UNCHANGED vars
    BY <2>5 DEF vars
  <2> QED BY <2>1, <2>2, <2>3, <2>4, <2>5 DEF Next
<1> QED BY <1>1, <1>2, StoreFileTypeCorrect, PTL DEF Spec

(* However many threads save and wherever crashes cut them short, only two *)
(* saves on the disk at once can leave a file load_snapshot refuses.       *)
THEOREM OnlyOverlapDamages == Spec => []DamageNeedsOverlap
<1>1. WholeInv => DamageNeedsOverlap
  BY DEF WholeInv, DamageNeedsOverlap
<1> QED BY <1>1, ApartKeepsWhole, PTL

(* However many threads save, a save is reported only when its snapshot is *)
(* the one in place, until two saves were on the disk at once.             *)
THEOREM ReportedSaveIsStored == Spec => []SavedIsStored
<1>1. WholeInv => SavedIsStored
  BY DEF WholeInv, SavedIsStored
<1> QED BY <1>1, ApartKeepsWhole, PTL
=============================================================================
