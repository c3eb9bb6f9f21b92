------------------------- MODULE CredentialsProofs -------------------------
(* Proofs about Credentials, for any number of requests, workers and mutexes,   *)
(* whether or not the server rotates refresh tokens.                            *)
EXTENDS Credentials, TLAPS

Results == {"refreshed", "kept", "failed", "refused"}

----------------------------------------------------------------------------
(* What a step of a process does to the types.                                  *)

\* The local state of a call stays well-typed when one process moves on.
LEMMA StepTypes ==
    ASSUME pc \in [Processes -> Labels], call \in [Processes -> CallType],
           \A q \in Processes : pc[q] \in Holding => Tok(q) # 0,
           issued \in Nat, issued' = issued, NEW p \in Processes, NEW label \in Labels,
           NEW c \in CallType, label \in Holding => c.tok # 0, Step(p, label, c)
    PROVE  /\ pc' \in [Processes -> Labels]
           /\ call' \in [Processes -> CallType']
           /\ \A q \in Processes : pc'[q] \in Holding => Tok(q)' # 0
<1>1. NewCall \in CallType
  BY BoundAssumption DEF NewCall, CallType, Cred, Time
<1>2. "idle" \notin Holding
  BY DEF Holding
<1>3. CallType' = CallType
  BY DEF CallType, Cred, Time
<1> QED
  BY <1>1, <1>2, <1>3 DEF Step, Tok

\* Returning from a refresh, likewise.
LEMMA ReturnTypes ==
    ASSUME pc \in [Processes -> Labels], call \in [Processes -> CallType],
           \A q \in Processes : pc[q] \in Holding => Tok(q) # 0,
           issued \in Nat, issued' = issued, NEW p \in Processes, NEW result \in Results,
           Return(p, result)
    PROVE  /\ pc' \in [Processes -> Labels]
           /\ call' \in [Processes -> CallType']
           /\ \A q \in Processes : pc'[q] \in Holding => Tok(q)' # 0
<1> DEFINE c == [NewCall EXCEPT !.phase = call[p].phase, !.ref = call[p].ref]
<1>1. c \in CallType
  <2>1. NewCall \in CallType
    BY BoundAssumption DEF NewCall, CallType, Cred, Time
  <2>2. call[p].phase \in {"stale", "forced"} /\ call[p].ref \in Cred
    <3>1. call[p] \in CallType
      OBVIOUS
    <3> QED BY <3>1 DEF CallType
  <2> QED BY <2>1, <2>2 DEF CallType
<1>2. After(p, result) \in Labels \ Holding
  BY DEF After, Labels, RefreshLabels, Holding
<1>3. Step(p, After(p, result), c)
  BY DEF Return
<1> QED
  BY <1>1, <1>2, <1>3, StepTypes

\* A credential the server gave out stays one when it gives out another.
LEMMA TypesGrow ==
    ASSUME issued \in Nat, issued' \in Nat, issued <= issued'
    PROVE  /\ Cred \subseteq Cred' /\ EntryType \subseteq EntryType'
           /\ FileType \subseteq FileType' /\ WatcherType \subseteq WatcherType'
           /\ CallType \subseteq CallType'
<1>1. Cred \subseteq Cred'
  BY DEF Cred
<1>2. EntryType \subseteq EntryType'
  BY <1>1 DEF EntryType, Time
<1>3. FileType \subseteq FileType'
  BY <1>1 DEF FileType, Time
<1>4. WatcherType \subseteq WatcherType'
  BY <1>1 DEF WatcherType, Time
<1>5. CallType \subseteq CallType'
  BY <1>1 DEF CallType, Time
<1> QED
  BY <1>1, <1>2, <1>3, <1>4, <1>5

\* The processes' part of TypeOK, and the rest of it.
ProcessesOK ==
    /\ pc \in [Processes -> Labels]
    /\ call \in [Processes -> CallType]
    /\ \A p \in Processes : pc[p] \in Holding => Tok(p) # 0

RestOK ==
    /\ now \in Time /\ issued \in 1..MaxIssued /\ writes \in Nat
    /\ entry \in EntryType \union {None}
    /\ file \in FileType \union {None}
    /\ fileMod \in Nat
    /\ lockEntry \in Locks \union {NoLock}
    /\ orphaned \in BOOLEAN
    /\ watcher \in WatcherType
    /\ spent \subseteq Cred \ {0} /\ lost \subseteq Cred \ {0} /\ rejected \subseteq Cred

LEMMA TypeParts == TypeOK <=> ProcessesOK /\ RestOK
  BY DEF TypeOK, ProcessesOK, RestOK

LEMMA TypePartsNext == ProcessesOK' /\ RestOK' => TypeOK'
  BY DEF TypeOK, ProcessesOK, RestOK

LEMMA TypeInit == Init => TypeOK
<1> SUFFICES ASSUME Init PROVE TypeOK
  OBVIOUS
<1>1. NewCall \in CallType /\ IdleWatcher \in WatcherType
  BY BoundAssumption
     DEF NewCall, CallType, IdleWatcher, WatcherType, WatcherLabels, Cred, Time, Init
<1>2. ProcessesOK
  BY <1>1 DEF Init, ProcessesOK, Labels, RefreshLabels, Holding
<1>3. file \in FileType
  BY BoundAssumption DEF Init, FileType, Cred, Time
<1>4. RestOK
  <2>1. 1 \in Time /\ 1 \in 1..MaxIssued /\ 1 \in Nat /\ 0 \in Nat
    BY BoundAssumption DEF Time
  <2> QED BY <1>1, <1>3, <2>1 DEF Init, RestOK
<1> QED
  BY <1>2, <1>4, TypeParts

\* Steps that leave the store's and the world's variables alone.
LEMMA RestUnchanged ==
    ASSUME RestOK, UNCHANGED <<now, storeVars, diskVars, watcher, serverVars>>
    PROVE  RestOK'
  BY DEF RestOK, storeVars, diskVars, serverVars, EntryType, FileType, WatcherType, Cred, Time

\* The refresh subroutine.
LEMMA TypeRefresh ==
    ASSUME TypeOK, NEW p \in Processes, Refresh(p)
    PROVE  TypeOK'
<1>0. /\ ProcessesOK /\ RestOK /\ issued \in Nat /\ issued + 1 \in Nat
      /\ call[p] \in CallType /\ pc[p] \in Labels
  BY TypeParts, BoundAssumption DEF ProcessesOK, RestOK
<1>1. CASE Check(p)
  <2>1. ASSUME entry # None
        PROVE  [call[p] EXCEPT !.access = entry.access, !.last = entry.last] \in CallType
    <3>1. entry.access \in Cred /\ entry.last \in Time
      BY <1>0, <2>1 DEF RestOK, EntryType
    <3> QED BY <1>0, <3>1 DEF CallType
  <2>2. "getlock" \in Labels \ Holding /\ {"failed", "kept"} \subseteq Results
    BY DEF Labels, RefreshLabels, Holding, Results
  <2>3. issued' = issued
    BY <1>1 DEF Check, serverVars
  <2>4. ProcessesOK'
    <3>1. CASE Return(p, "failed")
      BY <3>1, <1>0, <2>2, <2>3, ReturnTypes DEF ProcessesOK
    <3>2. CASE Return(p, "kept")
      BY <3>2, <1>0, <2>2, <2>3, ReturnTypes DEF ProcessesOK
    <3>3. CASE /\ entry # None
               /\ Step(p, "getlock", [call[p] EXCEPT !.access = entry.access, !.last = entry.last])
      BY <3>3, <1>0, <2>1, <2>2, <2>3, StepTypes DEF ProcessesOK
    <3> QED BY <1>1, <3>1, <3>2, <3>3 DEF Check
  <2> QED BY <1>0, <1>1, <2>4, RestUnchanged, TypePartsNext DEF Check
<1>2. CASE GetLock(p)
  <2>1. PICK l \in Locks : RefreshLock(l) /\ Step(p, "lock", [call[p] EXCEPT !.lock = l])
    BY <1>2 DEF GetLock
  <2>2. [call[p] EXCEPT !.lock = l] \in CallType
    BY <1>0 DEF CallType
  <2>3. "lock" \in Labels \ Holding /\ issued' = issued
    BY <1>2 DEF GetLock, serverVars, Labels, RefreshLabels, Holding
  <2>4. ProcessesOK'
    BY <1>0, <2>1, <2>2, <2>3, StepTypes DEF ProcessesOK
  <2>5. lockEntry' \in Locks \union {NoLock}
    BY <1>0, <2>1 DEF RefreshLock, RestOK
  <2>6. RestOK'
    BY <1>0, <1>2, <2>5
       DEF GetLock, RestOK, diskVars, serverVars, EntryType, FileType, WatcherType, Cred, Time
  <2> QED BY <2>4, <2>6, TypePartsNext
<1>3. CASE Lock(p)
  <2>1. ASSUME entry # None, ~NoRefreshToken
        PROVE  /\ [call[p] EXCEPT !.tok = entry.refresh] \in CallType
               /\ [call[p] EXCEPT !.tok = entry.refresh].tok # 0
    <3>1. entry.refresh \in Cred
      BY <1>0, <2>1 DEF RestOK, EntryType
    <3> QED BY <1>0, <2>1, <3>1 DEF CallType, NoRefreshToken
  <2>2. "post" \in Labels /\ {"failed", "kept", "refreshed"} \subseteq Results
    BY DEF Labels, RefreshLabels, Holding, Results
  <2>3. issued' = issued
    BY <1>3 DEF Lock, serverVars
  <2>4. ProcessesOK'
    <3>1. CASE \E result \in {"failed", "kept", "refreshed"} : Return(p, result)
      BY <3>1, <1>0, <2>2, <2>3, ReturnTypes DEF ProcessesOK
    <3>2. CASE /\ entry # None /\ ~NoRefreshToken
               /\ Step(p, "post", [call[p] EXCEPT !.tok = entry.refresh])
      BY <3>2, <1>0, <2>1, <2>2, <2>3, StepTypes DEF ProcessesOK
    <3> QED BY <1>3, <3>1, <3>2 DEF Lock
  <2> QED BY <1>0, <1>3, <2>4, RestUnchanged, TypePartsNext DEF Lock
<1>4. CASE Post(p)
  <2>1. ASSUME issued < MaxIssued
        PROVE  /\ issued' = issued + 1 => Cred \subseteq Cred' /\ issued + 1 \in Cred'
               /\ NewRefreshToken(p) \in 1..(issued + 1) \union {Tok(p)}
    BY <1>0 DEF Cred, NewRefreshToken
  <2>2. CASE \E result \in {"refused", "failed"} : Return(p, result) /\ UNCHANGED serverVars
    <3>1. issued' = issued /\ {"refused", "failed"} \subseteq Results
      BY <2>2 DEF serverVars, Results
    <3>2. ProcessesOK'
      BY <2>2, <3>1, <1>0, ReturnTypes DEF ProcessesOK
    <3> QED BY <1>0, <1>4, <2>2, <3>2, RestUnchanged, TypePartsNext DEF Post
  <2>3. ASSUME At(p, "post") PROVE Retired(p) \subseteq Cred \ {0}
    BY <1>0, <2>3 DEF ProcessesOK, At, Holding, Retired, CallType, Tok
  <2>4. CASE /\ spent' = spent \union Retired(p) /\ lost' = lost \union Retired(p)
             /\ Return(p, "failed") /\ UNCHANGED <<issued, rejected>>
    <3>1. ProcessesOK'
      BY <2>4, <1>0, ReturnTypes DEF ProcessesOK, Results
    <3>2. RestOK'
      BY <1>0, <1>4, <2>3, <2>4
         DEF Post, RestOK, storeVars, diskVars, EntryType, FileType, WatcherType, Cred, Time
    <3> QED BY <3>1, <3>2, TypePartsNext
  <2>5. CASE /\ issued < MaxIssued /\ issued' = issued + 1
             /\ spent' = spent \union Retired(p)
             /\ Step(p, "write", [call[p] EXCEPT !.newAccess = issued + 1,
                                                 !.newRefresh = NewRefreshToken(p)])
             /\ UNCHANGED <<rejected, lost>>
    <3> DEFINE c == [call[p] EXCEPT !.newAccess = issued + 1, !.newRefresh = NewRefreshToken(p)]
    <3>1. At(p, "post") /\ Tok(p) # 0 /\ Tok(p) \in Cred
      BY <1>0, <1>4 DEF Post, At, ProcessesOK, Holding, CallType, Tok
    <3>2. /\ Cred \subseteq Cred' /\ CallType \subseteq CallType' /\ EntryType \subseteq EntryType'
          /\ FileType \subseteq FileType' /\ WatcherType \subseteq WatcherType'
      BY <1>0, <2>5, TypesGrow
    <3>3. c \in CallType'
      <4>1. issued + 1 \in Cred' /\ NewRefreshToken(p) \in Cred'
        BY <1>0, <2>5, <3>1, <3>2 DEF Cred, NewRefreshToken
      <4>2. call[p] \in CallType'
        BY <1>0, <3>2
      <4> QED BY <4>1, <4>2 DEF CallType
    <3>4. c.tok # 0
      BY <3>1, <1>0 DEF CallType, Tok
    <3>5. "write" \in Labels
      BY DEF Labels, RefreshLabels, Holding
    <3>6. ProcessesOK'
      BY <1>0, <2>5, <3>2, <3>3, <3>4, <3>5 DEF ProcessesOK, Step, Tok
    <3>7. RestOK'
      <4>1. spent' \subseteq Cred' \ {0} /\ lost' \subseteq Cred' \ {0} /\ rejected' \subseteq Cred'
        <5>1. spent \subseteq Cred \ {0} /\ lost \subseteq Cred \ {0} /\ rejected \subseteq Cred
          BY <1>0 DEF RestOK
        <5> QED BY <2>3, <2>5, <3>1, <3>2, <5>1
      <4>2. issued' \in 1..MaxIssued
        BY <1>0, <2>5, BoundAssumption DEF RestOK
      <4> QED BY <1>0, <1>4, <3>2, <4>1, <4>2 DEF Post, RestOK, storeVars, diskVars
    <3> QED BY <3>6, <3>7, TypePartsNext
  <2> QED BY <1>4, <2>2, <2>4, <2>5 DEF Post
<1>5. ASSUME Abandon(p), p \in InHand, UNCHANGED <<now, storeVars, watcher, issued, spent, rejected>>
      PROVE  TypeOK'
  <2>1. Retired(p) \subseteq Cred \ {0}
    BY <1>0, <1>5 DEF ProcessesOK, InHand, Holding, Retired, CallType, Tok
  <2>2. ProcessesOK'
    BY <1>0, <1>5, ReturnTypes DEF Abandon, ProcessesOK, Results
  <2>3. RestOK'
    BY <1>0, <1>5, <2>1
       DEF Abandon, RestOK, storeVars, diskVars, EntryType, FileType, WatcherType, Cred, Time
  <2> QED BY <2>2, <2>3, TypePartsNext
<1>6. CASE WriteTemp(p)
  <2>1. p \in InHand
    BY <1>6 DEF WriteTemp, At, InHand
  <2>2. CASE Abandon(p)
    BY <1>5, <1>6, <2>1, <2>2 DEF WriteTemp
  <2>3. CASE /\ writes' = writes + 1 /\ UNCHANGED <<file, lost>>
             /\ Step(p, "rename", [call[p] EXCEPT !.mtime = writes + 1, !.wrote = now])
    <3>1. /\ [call[p] EXCEPT !.mtime = writes + 1, !.wrote = now] \in CallType
          /\ [call[p] EXCEPT !.mtime = writes + 1, !.wrote = now].tok = Tok(p)
      <4>1. writes + 1 \in Nat /\ now \in Time
        BY <1>0 DEF RestOK
      <4> QED BY <1>0, <4>1 DEF CallType, Tok
    <3>2. Tok(p) # 0 /\ "rename" \in Labels /\ issued' = issued
      BY <1>0, <1>6, <2>1 DEF WriteTemp, ProcessesOK, InHand, Labels, RefreshLabels, Holding
    <3>3. ProcessesOK'
      BY <1>0, <2>3, <3>1, <3>2, StepTypes DEF ProcessesOK
    <3>4. RestOK'
      BY <1>0, <1>6, <2>3
         DEF WriteTemp, RestOK, storeVars, EntryType, FileType, WatcherType, Cred, Time
    <3> QED BY <3>3, <3>4, TypePartsNext
  <2> QED BY <1>6, <2>2, <2>3 DEF WriteTemp
<1>7. CASE Rename(p)
  <2>1. p \in InHand
    BY <1>7 DEF Rename, At, InHand
  <2>2. CASE Abandon(p)
    BY <1>5, <1>7, <2>1, <2>2 DEF Rename
  <2>3. CASE /\ file' = [access |-> call[p].newAccess, refresh |-> call[p].newRefresh,
                         last |-> call[p].wrote, mtime |-> call[p].mtime]
             /\ Step(p, "commit", call[p]) /\ UNCHANGED <<writes, lost>>
    <3>1. file' \in FileType
      BY <1>0, <2>3 DEF CallType, FileType
    <3>2. Tok(p) # 0 /\ "commit" \in Labels /\ issued' = issued
      BY <1>0, <1>7, <2>1 DEF Rename, ProcessesOK, InHand, Labels, RefreshLabels, Holding
    <3>3. ProcessesOK'
      BY <1>0, <2>3, <3>2, StepTypes DEF ProcessesOK, Tok
    <3>4. RestOK'
      BY <1>0, <1>7, <2>3, <3>1
         DEF Rename, RestOK, storeVars, EntryType, FileType, WatcherType, Cred, Time
    <3> QED BY <3>3, <3>4, TypePartsNext
  <2> QED BY <1>7, <2>2, <2>3 DEF Rename
<1>8. CASE Commit(p)
  <2>1. entry' \in EntryType \union {None}
    BY <1>0, <1>8 DEF Commit, UpdateCredentials, CallType, EntryType, RestOK
  <2>2. issued' = issued
    BY <1>8 DEF Commit, serverVars
  <2>3. ProcessesOK'
    BY <1>0, <1>8, <2>2, ReturnTypes DEF Commit, ProcessesOK, Results
  <2>4. RestOK'
    BY <1>0, <1>8, <2>1
       DEF Commit, RestOK, diskVars, serverVars, EntryType, FileType, WatcherType, Cred, Time
  <2> QED BY <2>3, <2>4, TypePartsNext
<1> QED
  BY <1>1, <1>2, <1>3, <1>4, <1>6, <1>7, <1>8 DEF Refresh

\* The callers of the refresh subroutine.
LEMMA TypeCallers ==
    ASSUME TypeOK, NEW p \in Processes,
           \/ Begin(p) \/ Adopt(p) \/ Send(p) \/ MarkInvalid(p)
           \/ RemoveEntry(p) \/ RemoveLock(p) \/ Unlink(p)
    PROVE  TypeOK'
<1> DEFINE L == Labels \ Holding
<1>0. /\ ProcessesOK /\ RestOK /\ issued \in Nat
      /\ call[p] \in CallType /\ NewCall \in CallType
  <2>1. ProcessesOK /\ RestOK
    BY TypeParts
  <2>2. issued \in Nat /\ 0 \in Cred /\ 0 \in Time
    BY <2>1, BoundAssumption DEF RestOK, Cred, Time
  <2> QED BY <2>1, <2>2 DEF ProcessesOK, NewCall, CallType
<1>1. {"idle", "check", "send", "resend", "evict", "evictLock", "unlink"} \subseteq L
  BY DEF Labels, RefreshLabels, Holding
<1>2. ASSUME NEW label \in L, NEW c \in CallType, Step(p, label, c), issued' = issued
      PROVE  ProcessesOK'
  BY <1>0, <1>2, StepTypes DEF ProcessesOK
<1> HIDE DEF L
<1>3. CASE Begin(p)
  <2>1. [NewCall EXCEPT !.ref = entry.access] \in CallType
    <3>1. entry.access \in Cred
      BY <1>0, <1>3 DEF Begin, RestOK, EntryType
    <3> QED BY <1>0, <3>1 DEF CallType
  <2>2. ProcessesOK'
    BY <1>1, <1>2, <1>3, <2>1 DEF Begin, serverVars
  <2> QED BY <1>0, <1>3, <2>2, RestUnchanged, TypePartsNext DEF Begin
<1>4. CASE Adopt(p)
  <2>1. [call[p] EXCEPT !.ref = IF entry = None THEN call[p].ref ELSE entry.access] \in CallType
    <3>1. entry # None => entry.access \in Cred
      BY <1>0 DEF RestOK, EntryType
    <3>2. (IF entry = None THEN call[p].ref ELSE entry.access) \in Cred
      BY <1>0, <3>1 DEF CallType
    <3> QED BY <1>0, <3>2 DEF CallType
  <2>2. ProcessesOK'
    BY <1>1, <1>2, <1>4, <2>1 DEF Adopt, serverVars
  <2> QED BY <1>0, <1>4, <2>2, RestUnchanged, TypePartsNext DEF Adopt
<1>5. CASE Send(p)
  <2>1. /\ [call[p] EXCEPT !.phase = "forced"] \in CallType
        /\ [call[p] EXCEPT !.deactivated = TRUE] \in CallType
    BY <1>0 DEF CallType
  <2>2. PICK label \in L, c \in CallType : Step(p, label, c)
    BY <1>0, <1>1, <1>5, <2>1 DEF Send
  <2>3. issued' = issued
    BY <1>5 DEF Send
  <2>4. ProcessesOK'
    BY <1>2, <2>2, <2>3
  <2>5. rejected' \subseteq Cred
    <3>1. rejected \subseteq Cred /\ call[p].ref \in Cred
      BY <1>0 DEF RestOK, CallType
    <3> QED BY <1>5, <3>1 DEF Send
  <2>6. RestOK'
    BY <1>0, <1>5, <2>5
       DEF Send, RestOK, storeVars, diskVars, EntryType, FileType, WatcherType, Cred, Time
  <2> QED BY <2>4, <2>6, TypePartsNext
<1>6. CASE MarkInvalid(p)
  <2>1. entry' \in EntryType \union {None}
    <3>1. entry # None => [entry EXCEPT !.invalid = TRUE] \in EntryType
      BY <1>0 DEF RestOK, EntryType
    <3> QED BY <1>6, <3>1 DEF MarkInvalid
  <2>2. ProcessesOK'
    BY <1>0, <1>1, <1>2, <1>6 DEF MarkInvalid, serverVars
  <2>3. RestOK'
    BY <1>0, <1>6, <2>1
       DEF MarkInvalid, RestOK, diskVars, serverVars, EntryType, FileType, WatcherType, Cred, Time
  <2> QED BY <2>2, <2>3, TypePartsNext
<1>7. CASE RemoveEntry(p)
  <2>1. ProcessesOK'
    BY <1>0, <1>1, <1>2, <1>7 DEF RemoveEntry, serverVars
  <2>2. RestOK'
    BY <1>0, <1>7
       DEF RemoveEntry, ForgetEntry, RestOK, diskVars, serverVars, EntryType, FileType,
           WatcherType, Cred, Time
  <2> QED BY <2>1, <2>2, TypePartsNext
<1>8. CASE RemoveLock(p)
  <2>1. ProcessesOK'
    BY <1>0, <1>1, <1>2, <1>8 DEF RemoveLock, serverVars
  <2>2. RestOK'
    BY <1>0, <1>8
       DEF RemoveLock, ForgetLock, RestOK, diskVars, serverVars, EntryType, FileType,
           WatcherType, Cred, Time
  <2> QED BY <2>1, <2>2, TypePartsNext
<1>9. CASE Unlink(p)
  <2>1. ProcessesOK'
    BY <1>0, <1>1, <1>2, <1>9 DEF Unlink, serverVars
  <2>2. RestOK'
    BY <1>0, <1>9
       DEF Unlink, RestOK, storeVars, serverVars, EntryType, FileType, WatcherType, Cred, Time
  <2> QED BY <2>1, <2>2, TypePartsNext
<1> QED
  BY <1>3, <1>4, <1>5, <1>6, <1>7, <1>8, <1>9

LEMMA ProcessesUnchanged ==
    ASSUME ProcessesOK, UNCHANGED <<pc, call, issued>>
    PROVE  ProcessesOK'
  BY DEF ProcessesOK, CallType, Cred, Time, Tok

\* The watcher.
LEMMA TypeScan == TypeOK /\ Scan => TypeOK'
<1> SUFFICES ASSUME TypeOK, Scan PROVE TypeOK'
  OBVIOUS
<1>0. /\ ProcessesOK /\ RestOK /\ IdleWatcher \in WatcherType /\ issued \in Nat
      /\ UNCHANGED <<now, pc, call, issued, spent, rejected, lost>>
  <2>1. ProcessesOK /\ RestOK
    BY TypeParts
  <2>2. issued \in Nat /\ 0 \in Cred /\ 0 \in Time
    BY <2>1, BoundAssumption DEF RestOK, Cred, Time
  <2> QED BY <2>1, <2>2 DEF Scan, serverVars, IdleWatcher, WatcherType, WatcherLabels
<1>1. ProcessesOK'
  BY <1>0, ProcessesUnchanged
<1>2. ASSUME NEW w \in WatcherType, NEW label \in WatcherLabels, Watch(label, w)
      PROVE  watcher' \in WatcherType
  BY <1>2 DEF Watch, WatcherType
<1>3. {"idle", "stat", "parse", "upsert", "drop", "prune", "dropLock", "note"} = WatcherLabels
  BY DEF WatcherLabels
<1>4. /\ watcher' \in WatcherType
      /\ entry' \in EntryType \union {None}
      /\ fileMod' \in Nat
      /\ lockEntry' \in Locks \union {NoLock}
      /\ orphaned' \in BOOLEAN
      /\ UNCHANGED diskVars
  <2>1. CASE ReadDir
    BY <1>0, <1>2, <1>3, <2>1 DEF ReadDir, RestOK, storeVars
  <2>2. CASE Stat
    <3>1. file # None => [IdleWatcher EXCEPT !.mtime = file.mtime] \in WatcherType
      BY <1>0 DEF RestOK, FileType, WatcherType
    <3> QED BY <1>0, <1>2, <1>3, <2>2, <3>1 DEF Stat, RestOK, storeVars
  <2>3. CASE Parse
    <3>1. file # None =>
            [watcher EXCEPT !.access = file.access, !.refresh = file.refresh,
                            !.last = file.last] \in WatcherType
      BY <1>0 DEF RestOK, FileType, WatcherType
    <3> QED BY <1>0, <1>2, <1>3, <2>3, <3>1 DEF Parse, RestOK, storeVars
  <2>4. CASE UpsertToken
    <3>1. entry' \in EntryType
      <4>1. entry # None => entry.last \in Time
        BY <1>0 DEF RestOK, EntryType
      <4>2. watcher.access \in Cred /\ watcher.refresh \in Cred /\ watcher.last \in Time
        BY <1>0 DEF RestOK, WatcherType
      <4>3. (IF watcher.last = 0 /\ entry # None THEN entry.last ELSE watcher.last) \in Time
        BY <4>1, <4>2
      <4> QED BY <2>4, <4>2, <4>3 DEF UpsertToken, EntryType
    <3>2. watcher.mtime \in Nat
      BY <1>0 DEF RestOK, WatcherType
    <3> QED BY <1>0, <1>2, <1>3, <2>4, <3>1, <3>2 DEF UpsertToken, ModTime, RestOK
  <2>5. CASE DropEntry
    BY <1>0, <1>2, <1>3, <2>5 DEF DropEntry, ForgetEntry, RestOK
  <2>6. CASE DropLock
    BY <1>0, <1>2, <1>3, <2>6 DEF DropLock, ForgetLock, RestOK
  <2>7. CASE NoteFileMod
    <3>1. watcher.mtime \in Nat
      BY <1>0 DEF RestOK, WatcherType
    <3> QED BY <1>0, <1>2, <1>3, <2>7, <3>1 DEF NoteFileMod, RestOK
  <2> QED BY <2>1, <2>2, <2>3, <2>4, <2>5, <2>6, <2>7 DEF Scan
<1>5. RestOK'
  BY <1>0, <1>4 DEF RestOK, diskVars, EntryType, FileType, WatcherType, Cred, Time
<1> QED
  BY <1>1, <1>5, TypePartsNext

\* The world.
LEMMA TypeWorld == TypeOK /\ (Tick \/ Login \/ Delete \/ Crash) => TypeOK'
<1> SUFFICES ASSUME TypeOK, Tick \/ Login \/ Delete \/ Crash PROVE TypeOK'
  OBVIOUS
<1>0. /\ ProcessesOK /\ RestOK /\ issued \in Nat /\ 0 \in Cred /\ 0 \in Time
      /\ IdleWatcher \in WatcherType /\ NewCall \in CallType
  <2>1. ProcessesOK /\ RestOK
    BY TypeParts
  <2>2. issued \in Nat /\ 0 \in Cred /\ 0 \in Time
    BY <2>1, BoundAssumption DEF RestOK, Cred, Time
  <2> QED
    BY <2>1, <2>2 DEF IdleWatcher, WatcherType, WatcherLabels, NewCall, CallType
<1>1. CASE Tick
  <2>1. now' \in Time
    BY <1>0, <1>1, BoundAssumption DEF Tick, RestOK, Time
  <2>2. RestOK'
    BY <1>0, <1>1, <2>1
       DEF Tick, RestOK, storeVars, diskVars, serverVars, EntryType, FileType, WatcherType, Cred, Time
  <2>3. ProcessesOK'
    BY <1>0, <1>1, ProcessesUnchanged DEF Tick, serverVars
  <2> QED BY <2>2, <2>3, TypePartsNext
<1>2. CASE Login
  <2>1. /\ issued' \in 1..MaxIssued /\ writes' \in Nat /\ issued + 1 \in Cred' /\ 0 \in Cred'
    BY <1>0, <1>2, BoundAssumption DEF Login, RestOK, Cred
  <2>2. /\ Cred \subseteq Cred' /\ CallType \subseteq CallType' /\ EntryType \subseteq EntryType'
        /\ FileType \subseteq FileType' /\ WatcherType \subseteq WatcherType'
    BY <1>0, <1>2, TypesGrow DEF Login
  <2>3. file' \in FileType'
    BY <1>0, <1>2, <2>1 DEF Login, RestOK, FileType, Time
  <2>4. ProcessesOK'
    BY <1>0, <1>2, <2>2 DEF Login, ProcessesOK, Tok
  <2>5. /\ spent' \subseteq Cred' \ {0} /\ lost' \subseteq Cred' \ {0} /\ rejected' \subseteq Cred'
    BY <1>0, <1>2, <2>2 DEF Login, RestOK
  <2>6. RestOK'
    BY <1>0, <1>2, <2>1, <2>2, <2>3, <2>5 DEF Login, RestOK, storeVars, Time
  <2> QED BY <2>4, <2>6, TypePartsNext
<1>3. CASE Delete
  <2>1. RestOK'
    BY <1>0, <1>3
       DEF Delete, RestOK, storeVars, serverVars, EntryType, FileType, WatcherType, Cred, Time
  <2>2. ProcessesOK'
    BY <1>0, <1>3, ProcessesUnchanged DEF Delete, serverVars
  <2> QED BY <2>1, <2>2, TypePartsNext
<1>4. CASE Crash
  <2>1. UNION {Retired(p) : p \in InHand} \subseteq Cred \ {0}
    <3>1. ASSUME NEW p \in InHand PROVE Retired(p) \subseteq Cred \ {0}
      BY <1>0 DEF ProcessesOK, InHand, Holding, Retired, CallType, Tok
    <3> QED BY <3>1
  <2>2. ProcessesOK'
    BY <1>0, <1>4 DEF Crash, ProcessesOK, CallType, Cred, Time, Labels, RefreshLabels, Holding
  <2>3. RestOK'
    BY <1>0, <1>4, <2>1 DEF Crash, RestOK, diskVars, EntryType, FileType, WatcherType, Cred, Time
  <2> QED BY <2>2, <2>3, TypePartsNext
<1> QED
  BY <1>1, <1>2, <1>3, <1>4

LEMMA TypeStep == TypeOK /\ [Next]_vars => TypeOK'
<1> SUFFICES ASSUME TypeOK, [Next]_vars PROVE TypeOK'
  OBVIOUS
<1>1. CASE \E p \in Processes : Begin(p) \/ Run(p)
  BY <1>1, TypeRefresh, TypeCallers DEF Run
<1>2. CASE Scan
  BY <1>2, TypeScan
<1>3. CASE Tick \/ Login \/ Delete \/ Crash
  BY <1>3, TypeWorld
<1>4. CASE UNCHANGED vars
  BY <1>4, TypeParts, RestUnchanged, ProcessesUnchanged, TypePartsNext DEF vars, serverVars
<1> QED
  BY <1>1, <1>2, <1>3, <1>4 DEF Next

\* Type correctness: TypeOK holds in every reachable state.
THEOREM TypeCorrect == Spec => []TypeOK
  BY TypeInit, TypeStep, PTL DEF Spec

----------------------------------------------------------------------------
(* The file stays usable.  FileUsable is not inductive: a rename must not bring *)
(* back an exchanged refresh token, so the replacement in a call's hands is     *)
(* one that nobody else knows and that nobody can have exchanged yet.           *)

Known(p) ==
    LET r == call[p].newRefresh IN
    \/ file # None /\ file.refresh = r
    \/ entry # None /\ entry.refresh = r
    \/ watcher.refresh = r
    \/ \E q \in Processes : call[q].tok = r
    \/ \E q \in Processes \ {p} : call[q].newRefresh = r

Unshared ==
    \A p \in InHand :
        Rotates =>
            /\ call[p].newRefresh # 0
            /\ call[p].newRefresh \notin spent
            /\ ~Known(p)

KeptStaysGood == ~Rotates => spent = {}

FileInv == KeptStaysGood /\ Unshared /\ FileUsable

LEMMA FileInit == Init => FileInv
  BY DEF Init, FileInv, KeptStaysGood, Unshared, FileUsable, InHand

\* A call that has no replacement in hand and gets none, and changes no
\* credentials but to drop the store's or the file's.
LEMMA Bystander ==
    ASSUME TypeOK, FileInv, NEW p \in Processes, p \notin InHand,
           NEW label \in Labels \ {"write", "rename"}, NEW c \in CallType, Step(p, label, c),
           c.newRefresh \in {0, call[p].newRefresh},
           c.tok \in {0, call[p].tok} \union (IF entry = None THEN {} ELSE {entry.refresh}),
           entry' # None => entry # None /\ entry'.refresh = entry.refresh,
           file' \in {file, None}, UNCHANGED <<watcher, spent, lost>>
    PROVE  FileInv'
<1>1. InHand' = InHand
  BY DEF InHand, Step, TypeOK
<1>2. \A q \in Processes \ {p} : pc'[q] = pc[q] /\ call'[q] = call[q]
  BY DEF Step, TypeOK
<1>3. call'[p].newRefresh \in {0, call[p].newRefresh}
  BY DEF Step, NewCall, TypeOK
<1>4. call'[p].tok \in {0, call[p].tok} \union (IF entry = None THEN {} ELSE {entry.refresh})
  BY DEF Step, NewCall, TypeOK
<1>5. Unshared'
  <2> SUFFICES ASSUME NEW q \in InHand, Rotates
               PROVE  /\ call'[q].newRefresh # 0 /\ call'[q].newRefresh \notin spent
                      /\ ~Known(q)'
    BY <1>1 DEF Unshared
  <2>1. q \in Processes \ {p} /\ call'[q] = call[q]
    BY <1>2 DEF InHand
  <2>2. call[q].newRefresh # 0 /\ call[q].newRefresh \notin spent /\ ~Known(q)
    BY DEF FileInv, Unshared
  <2>3. ~Known(q)'
    BY <1>2, <1>3, <1>4, <2>1, <2>2 DEF Known
  <2> QED BY <2>1, <2>2, <2>3
<1>6. FileUsable'
  <2> SUFFICES ASSUME file' # None, file'.refresh \in spent
               PROVE  file'.refresh \in lost \/ \E q \in InHand : Tok(q)' = file'.refresh
    BY <1>1 DEF FileUsable
  <2>1. file.refresh \in lost \/ \E q \in InHand : Tok(q) = file.refresh
    BY DEF FileInv, FileUsable
  <2>2. \A q \in InHand : Tok(q)' = Tok(q)
    BY <1>2 DEF InHand, Tok
  <2> QED BY <2>1, <2>2
<1> QED
  BY <1>5, <1>6 DEF FileInv, KeptStaysGood

\* A return from the refresh subroutine that ends with no replacement in hand:
\* none was there, or its loss is on record.
LEMMA ReturnKeepsFileInv ==
    ASSUME TypeOK, FileInv, NEW p \in Processes, NEW result \in Results, Return(p, result),
           p \in InHand => Tok(p) \in lost' \/ ~Rotates,
           spent \subseteq spent', spent' \subseteq spent \union {Tok(p)}, Tok(p) \in spent' \ spent => Tok(p) \in lost' /\ Rotates,
           lost \subseteq lost', UNCHANGED <<entry, file, watcher>>
    PROVE  FileInv'
<1>1. InHand' = InHand \ {p}
  BY DEF InHand, Return, After, Step, TypeOK
<1>2. \A q \in Processes \ {p} : pc'[q] = pc[q] /\ call'[q] = call[q]
  BY DEF Return, Step, TypeOK
<1>3. call'[p].newRefresh = 0 /\ call'[p].tok = 0
  BY DEF Return, Step, NewCall, TypeOK
<1>4. Unshared'
  <2> SUFFICES ASSUME NEW q \in InHand \ {p}, Rotates
               PROVE  /\ call'[q].newRefresh # 0 /\ call'[q].newRefresh \notin spent'
                      /\ ~Known(q)'
    BY <1>1 DEF Unshared
  <2>1. q \in Processes \ {p} /\ call'[q] = call[q]
    BY <1>2 DEF InHand
  <2>2. call[q].newRefresh # 0 /\ call[q].newRefresh \notin spent /\ ~Known(q)
    BY DEF FileInv, Unshared
  <2>3. call[q].newRefresh # Tok(p)
    BY <2>2 DEF Known, Tok
  <2>4. ~Known(q)'
    BY <1>2, <1>3, <2>1, <2>2 DEF Known
  <2> QED BY <2>1, <2>2, <2>3, <2>4
<1>5. FileUsable'
  <2> SUFFICES ASSUME file # None, file.refresh \in spent'
               PROVE  file.refresh \in lost' \/ \E q \in InHand \ {p} : Tok(q)' = file.refresh
    BY <1>1 DEF FileUsable
  <2>1. CASE file.refresh \notin spent
    BY <2>1
  <2>2. CASE file.refresh \in spent
    <3>1. file.refresh \in lost \/ \E q \in InHand : Tok(q) = file.refresh
      BY <2>2 DEF FileInv, FileUsable
    <3>2. \A q \in InHand \ {p} : Tok(q)' = Tok(q)
      BY <1>2 DEF InHand, Tok
    <3>3. Rotates
      BY <2>2 DEF FileInv, KeptStaysGood
    <3> QED BY <3>1, <3>2, <3>3
  <2> QED BY <2>1, <2>2
<1>6. KeptStaysGood'
  BY DEF FileInv, KeptStaysGood
<1> QED
  BY <1>4, <1>5, <1>6 DEF FileInv

\* The steps that keep to Bystander.
LEMMA FileQuietSteps ==
    ASSUME TypeOK, FileInv, NEW p \in Processes,
           \/ Begin(p) \/ Check(p) \/ GetLock(p) \/ Lock(p) \/ Adopt(p) \/ Send(p)
           \/ MarkInvalid(p) \/ RemoveEntry(p) \/ RemoveLock(p) \/ Unlink(p)
    PROVE  FileInv'
<1> DEFINE Quiet == Labels \ {"write", "rename"}
           Calls == {c \in CallType :
                        /\ c.newRefresh \in {0, call[p].newRefresh}
                        /\ c.tok \in {0, call[p].tok} \union
                                        (IF entry = None THEN {} ELSE {entry.refresh})}
<1>1. call[p] \in CallType /\ call[p] \in Calls /\ NewCall \in CallType /\ NewCall \in Calls
  BY BoundAssumption DEF TypeOK, NewCall, CallType, Cred, Time
<1>2. {"idle", "check", "getlock", "lock", "post", "adopt", "send", "resend", "evict",
       "evictLock", "unlink", "markInvalid"} \subseteq Quiet
  BY DEF Labels, RefreshLabels, Holding
<1>3. entry # None => entry.access \in Cred /\ entry.refresh \in Cred /\ entry.last \in Time
  BY DEF TypeOK, EntryType
<1>4. SUFFICES /\ \E label \in Quiet, c \in Calls : Step(p, label, c)
               /\ p \notin InHand
               /\ entry' # None => entry # None /\ entry'.refresh = entry.refresh
               /\ file' \in {file, None}
               /\ UNCHANGED <<watcher, spent, lost>>
  BY <1>4, Bystander
<1>5. ASSUME NEW result \in Results, Return(p, result)
      PROVE  \E label \in Quiet, c \in Calls : Step(p, label, c)
  <2> DEFINE c == [NewCall EXCEPT !.phase = call[p].phase, !.ref = call[p].ref]
  <2>1. c \in Calls
    BY <1>1 DEF CallType, NewCall
  <2>2. After(p, result) \in Quiet
    BY <1>2 DEF After
  <2> QED BY <1>5, <2>1, <2>2 DEF Return
<1> HIDE DEF Quiet, Calls
<1>6. CASE Begin(p)
  <2>1. [NewCall EXCEPT !.ref = entry.access] \in Calls
    BY <1>1, <1>3, <1>6 DEF Begin, Calls, CallType, NewCall
  <2> QED BY <1>2, <1>6, <2>1 DEF Begin, At, InHand, storeVars, diskVars, serverVars
<1>7. CASE Check(p)
  <2>1. entry # None =>
          [call[p] EXCEPT !.access = entry.access, !.last = entry.last] \in Calls
    BY <1>1, <1>3 DEF Calls, CallType
  <2>2. {"failed", "kept"} \subseteq Results
    BY DEF Results
  <2>3. \E label \in Quiet, c \in Calls : Step(p, label, c)
    BY <1>2, <1>5, <1>7, <2>1, <2>2 DEF Check
  <2> QED BY <1>7, <2>3 DEF Check, At, InHand, storeVars, diskVars, serverVars
<1>8. CASE GetLock(p)
  <2>1. \A l \in Locks : [call[p] EXCEPT !.lock = l] \in Calls
    BY <1>1 DEF Calls, CallType
  <2>2. \E label \in Quiet, c \in Calls : Step(p, label, c)
    BY <1>2, <1>8, <2>1 DEF GetLock
  <2> QED BY <1>8, <2>2 DEF GetLock, At, InHand, diskVars, serverVars
<1>9. CASE Lock(p)
  <2>1. entry # None => [call[p] EXCEPT !.tok = entry.refresh] \in Calls
    BY <1>1, <1>3 DEF Calls, CallType
  <2>2. {"failed", "kept", "refreshed"} \subseteq Results
    BY DEF Results
  <2>3. \E label \in Quiet, c \in Calls : Step(p, label, c)
    BY <1>2, <1>5, <1>9, <2>1, <2>2 DEF Lock
  <2> QED BY <1>9, <2>3 DEF Lock, At, InHand, storeVars, diskVars, serverVars
<1>10. CASE Adopt(p)
  <2>1. [call[p] EXCEPT !.ref = IF entry = None THEN call[p].ref ELSE entry.access] \in Calls
    <3>1. (IF entry = None THEN call[p].ref ELSE entry.access) \in Cred
      BY <1>1, <1>3 DEF CallType
    <3> QED BY <1>1, <3>1 DEF Calls, CallType
  <2> QED BY <1>2, <1>10, <2>1 DEF Adopt, At, InHand, storeVars, diskVars, serverVars
<1>11. CASE Send(p)
  <2>1. /\ [call[p] EXCEPT !.phase = "forced"] \in Calls
        /\ [call[p] EXCEPT !.deactivated = TRUE] \in Calls
    BY <1>1 DEF Calls, CallType
  <2>2. \E label \in Quiet, c \in Calls : Step(p, label, c)
    BY <1>1, <1>2, <1>11, <2>1 DEF Send
  <2> QED BY <1>11, <2>2 DEF Send, At, InHand, storeVars, diskVars
<1>12. CASE MarkInvalid(p)
  <2>1. entry' # None => entry # None /\ entry'.refresh = entry.refresh
    BY <1>12 DEF MarkInvalid, TypeOK, EntryType
  <2> QED BY <1>1, <1>2, <1>12, <2>1 DEF MarkInvalid, At, InHand, diskVars, serverVars
<1>13. CASE RemoveEntry(p)
  BY <1>1, <1>2, <1>13 DEF RemoveEntry, ForgetEntry, At, InHand, diskVars, serverVars
<1>14. CASE RemoveLock(p)
  BY <1>1, <1>2, <1>14 DEF RemoveLock, At, InHand, diskVars, serverVars
<1>15. CASE Unlink(p)
  BY <1>1, <1>2, <1>15 DEF Unlink, At, InHand, storeVars, serverVars
<1> QED
  BY <1>6, <1>7, <1>8, <1>9, <1>10, <1>11, <1>12, <1>13, <1>14, <1>15

\* The steps between the exchange and the commit.
LEMMA FileRefreshSteps ==
    ASSUME TypeOK, FileInv, NEW p \in Processes,
           Post(p) \/ WriteTemp(p) \/ Rename(p) \/ Commit(p)
    PROVE  FileInv'
<1>0. /\ issued \in Nat /\ call[p] \in CallType /\ {"failed", "refused", "refreshed"} \subseteq Results
      /\ \A q \in Processes : pc[q] \in Labels
      /\ DOMAIN pc = Processes /\ DOMAIN call = Processes
      /\ \A q \in Processes : call[q].newRefresh \in 0..issued /\ call[q].tok \in 0..issued
      /\ spent \subseteq 1..issued /\ watcher.refresh \in 0..issued
      /\ entry # None => entry.refresh \in 0..issued
      /\ file # None => file.refresh \in 0..issued
  <2>1. issued \in Nat /\ spent \subseteq 1..issued
    BY BoundAssumption DEF TypeOK, Cred
  <2>2. \A q \in Processes : call[q].newRefresh \in 0..issued /\ call[q].tok \in 0..issued
    BY DEF TypeOK, CallType, Cred
  <2>3. /\ watcher.refresh \in 0..issued
        /\ entry # None => entry.refresh \in 0..issued
        /\ file # None => file.refresh \in 0..issued
    BY DEF TypeOK, WatcherType, EntryType, FileType, Cred
  <2> QED BY <2>1, <2>2, <2>3 DEF TypeOK, Results
<1>1. ASSUME Abandon(p), p \in InHand, UNCHANGED <<storeVars, watcher, spent>> PROVE FileInv'
  <2>1. Tok(p) \in lost' \/ ~Rotates
    BY <1>1 DEF Abandon, Retired
  <2> QED BY <1>0, <1>1, <2>1, ReturnKeepsFileInv DEF Abandon, storeVars, diskVars
<1>2. CASE Post(p)
  <2>0. p \notin InHand /\ UNCHANGED <<storeVars, diskVars, watcher>>
    BY <1>2 DEF Post, At, InHand
  <2>1. CASE \E result \in {"refused", "failed"} : Return(p, result) /\ UNCHANGED serverVars
    BY <1>0, <2>0, <2>1, ReturnKeepsFileInv DEF storeVars, diskVars, serverVars
  <2>2. CASE /\ spent' = spent \union Retired(p) /\ lost' = lost \union Retired(p)
             /\ Return(p, "failed")
    BY <1>0, <2>0, <2>2, ReturnKeepsFileInv DEF Retired, storeVars, diskVars
  <2>3. CASE /\ Tok(p) \notin spent /\ spent' = spent \union Retired(p)
             /\ Step(p, "write", [call[p] EXCEPT !.newAccess = issued + 1,
                                                 !.newRefresh = NewRefreshToken(p)])
             /\ UNCHANGED lost
    <3>1. InHand' = InHand \union {p} /\ \A q \in Processes \ {p} : call'[q] = call[q]
      BY <1>0, <2>3 DEF InHand, Step
    <3>2. call'[p].newRefresh = NewRefreshToken(p) /\ call'[p].tok = Tok(p)
      BY <1>0, <2>3 DEF Step, CallType, Tok
    <3>3. Unshared'
      <4> SUFFICES ASSUME NEW q \in InHand', Rotates
                   PROVE  /\ call'[q].newRefresh # 0 /\ call'[q].newRefresh \notin spent'
                          /\ ~Known(q)'
        BY DEF Unshared
      <4>1. CASE q = p
        <5>1. call'[q].newRefresh = issued + 1
          BY <3>2, <4>1 DEF NewRefreshToken
        <5>2. spent' \subseteq 1..issued
          <6>1. pc[p] \in Holding
            BY <1>2 DEF Post, At, Holding
          <6>2. Tok(p) \in 1..issued
            BY <1>0, <6>1 DEF TypeOK, Tok
          <6> QED BY <1>0, <2>3, <6>2 DEF Retired
        <5>3. ~Known(q)'
          BY <1>0, <2>0, <3>1, <3>2, <4>1, <5>1 DEF Known, Tok, storeVars, diskVars
        <5> QED BY <1>0, <5>1, <5>2, <5>3
      <4>2. CASE q # p
        <5>1. q \in InHand /\ q \in Processes \ {p} /\ call'[q] = call[q]
          BY <3>1, <4>2 DEF InHand
        <5>2. call[q].newRefresh # 0 /\ call[q].newRefresh \notin spent /\ ~Known(q)
          BY <5>1 DEF FileInv, Unshared
        <5>3. call[q].newRefresh # Tok(p) /\ call[q].newRefresh \in 0..issued
          BY <1>0, <5>1, <5>2 DEF Known, Tok
        <5>4. call'[p].newRefresh = issued + 1
          BY <3>2 DEF NewRefreshToken
        <5>5. ~Known(q)'
          BY <1>0, <2>0, <3>1, <3>2, <5>1, <5>2, <5>3, <5>4
             DEF Known, Tok, storeVars, diskVars
        <5> QED BY <2>3, <5>1, <5>2, <5>3, <5>5 DEF Retired
      <4> QED BY <4>1, <4>2
    <3>4. FileUsable'
      <4>1. \A q \in InHand : Tok(q)' = Tok(q)
        BY <3>1, <3>2 DEF InHand, Tok
      <4>2. Tok(p)' = Tok(p)
        BY <3>2 DEF Tok
      <4> QED BY <2>0, <2>3, <3>1, <4>1, <4>2 DEF FileInv, FileUsable, Retired, diskVars
    <3>5. KeptStaysGood'
      BY <2>3 DEF FileInv, KeptStaysGood, Retired
    <3> QED BY <3>3, <3>4, <3>5 DEF FileInv
  <2> QED BY <1>2, <2>1, <2>2, <2>3 DEF Post
<1>3. CASE WriteTemp(p)
  <2>1. p \in InHand
    BY <1>3 DEF WriteTemp, At, InHand
  <2>2. CASE Abandon(p)
    BY <1>1, <1>3, <2>1, <2>2 DEF WriteTemp
  <2>3. CASE /\ Step(p, "rename", [call[p] EXCEPT !.mtime = writes + 1, !.wrote = now])
             /\ UNCHANGED <<file, lost>>
    <3>1. InHand' = InHand /\ \A q \in Processes \ {p} : call'[q] = call[q]
      BY <1>0, <2>1, <2>3 DEF InHand, Step
    <3>2. call'[p].newRefresh = call[p].newRefresh /\ call'[p].tok = call[p].tok
      BY <1>0, <2>3 DEF Step, CallType
    <3>3. UNCHANGED <<entry, watcher, spent>>
      BY <1>3 DEF WriteTemp, storeVars
    <3>4. \A q \in Processes : /\ call'[q].newRefresh = call[q].newRefresh
                               /\ call'[q].tok = call[q].tok
      BY <3>1, <3>2
    <3>5. Unshared' /\ FileUsable'
      BY <2>3, <3>1, <3>3, <3>4 DEF FileInv, Unshared, FileUsable, Known, Tok, InHand
    <3> QED BY <3>3, <3>5 DEF FileInv, KeptStaysGood
  <2> QED BY <1>3, <2>2, <2>3 DEF WriteTemp
<1>4. CASE Rename(p)
  <2>1. p \in InHand
    BY <1>4 DEF Rename, At, InHand
  <2>2. CASE Abandon(p)
    BY <1>1, <1>4, <2>1, <2>2 DEF Rename
  <2>3. CASE /\ file' = [access |-> call[p].newAccess, refresh |-> call[p].newRefresh,
                         last |-> call[p].wrote, mtime |-> call[p].mtime]
             /\ Step(p, "commit", call[p]) /\ UNCHANGED lost
    <3>1. /\ InHand' = InHand \ {p} /\ call' = call
          /\ UNCHANGED <<entry, watcher, spent>>
      <4>1. call \in [Processes -> CallType]
        BY DEF TypeOK
      <4> QED BY <1>0, <1>4, <2>3, <4>1 DEF InHand, Step, Rename, storeVars
    <3>2. Rotates => call[p].newRefresh \notin spent
      BY <2>1 DEF FileInv, Unshared
    <3>3. \A q \in InHand \ {p} : Rotates => call[q].newRefresh # call[p].newRefresh
      BY <2>1 DEF FileInv, Unshared, Known, InHand
    <3>4. Unshared'
      BY <2>3, <3>1, <3>3 DEF FileInv, Unshared, Known, InHand
    <3>5. FileUsable'
      BY <2>3, <3>1, <3>2 DEF FileInv, KeptStaysGood, FileUsable
    <3> QED BY <3>1, <3>4, <3>5 DEF FileInv, KeptStaysGood
  <2> QED BY <1>4, <2>2, <2>3 DEF Rename
<1>5. CASE Commit(p)
  <2>1. /\ InHand' = InHand /\ p \notin InHand /\ \A q \in Processes \ {p} : call'[q] = call[q]
        /\ call'[p].newRefresh = 0 /\ call'[p].tok = 0
    BY <1>0, <1>5 DEF Commit, At, Return, After, Step, InHand, NewCall
  <2>2. /\ entry' # None => entry # None /\ entry'.refresh = call[p].newRefresh
        /\ UNCHANGED <<file, watcher, spent, lost>>
    BY <1>5 DEF Commit, UpdateCredentials, diskVars, serverVars
  <2>3. Unshared'
    <3> SUFFICES ASSUME NEW q \in InHand, Rotates
                 PROVE  /\ call'[q].newRefresh # 0 /\ call'[q].newRefresh \notin spent
                        /\ ~Known(q)'
      BY <2>1, <2>2 DEF Unshared
    <3>1. q \in Processes \ {p} /\ call'[q] = call[q]
      BY <2>1 DEF InHand
    <3>2. call[q].newRefresh # 0 /\ call[q].newRefresh \notin spent /\ ~Known(q)
      BY DEF FileInv, Unshared
    <3>3. call[q].newRefresh # call[p].newRefresh
      BY <3>1, <3>2 DEF Known
    <3> QED BY <2>1, <2>2, <3>1, <3>2, <3>3 DEF Known
  <2>4. FileUsable'
    <3>1. \A q \in InHand : Tok(q)' = Tok(q)
      BY <2>1 DEF InHand, Tok
    <3> QED BY <2>1, <2>2, <3>1 DEF FileInv, FileUsable
  <2> QED BY <2>2, <2>3, <2>4 DEF FileInv, KeptStaysGood
<1> QED
  BY <1>2, <1>3, <1>4, <1>5

\* The watcher writes neither the file nor what a call has in hand, and what it
\* knows it has from the file.
LEMMA FileScan == TypeOK /\ FileInv /\ Scan => FileInv'
<1> SUFFICES ASSUME TypeOK, FileInv, Scan PROVE FileInv'
  OBVIOUS
<1>1. UNCHANGED <<pc, call, file, spent, lost>>
  BY DEF Scan, ReadDir, Stat, Parse, UpsertToken, DropEntry, DropLock, NoteFileMod, diskVars,
         serverVars
<1>2. IdleWatcher.refresh = 0 /\ watcher \in WatcherType
  BY DEF IdleWatcher, TypeOK
<1>3. /\ watcher'.refresh \in {0, watcher.refresh} \union
                                (IF file = None THEN {} ELSE {file.refresh})
      /\ entry' # None => \/ entry # None /\ entry'.refresh = entry.refresh
                          \/ entry'.refresh = watcher.refresh
  <2>1. CASE ReadDir \/ Stat
    BY <1>2, <2>1 DEF ReadDir, Stat, Watch, IdleWatcher, storeVars
  <2>2. CASE Parse
    BY <1>2, <2>2 DEF Parse, Watch, WatcherType, storeVars
  <2>3. CASE UpsertToken
    BY <1>2, <2>3 DEF UpsertToken, Watch, IdleWatcher
  <2>4. CASE DropEntry \/ DropLock \/ NoteFileMod
    BY <1>2, <2>4
       DEF DropEntry, DropLock, NoteFileMod, ForgetEntry, Watch, IdleWatcher, WatcherType
  <2> QED BY <2>1, <2>2, <2>3, <2>4 DEF Scan
<1>4. InHand' = InHand /\ \A p \in InHand : Tok(p)' = Tok(p)
  BY <1>1 DEF InHand, Tok
<1>5. Unshared'
  <2> SUFFICES ASSUME NEW p \in InHand, Rotates
               PROVE  /\ call'[p].newRefresh # 0 /\ call'[p].newRefresh \notin spent'
                      /\ ~Known(p)'
    BY <1>4 DEF Unshared
  <2>1. call[p].newRefresh # 0 /\ call[p].newRefresh \notin spent /\ ~Known(p)
    BY DEF FileInv, Unshared
  <2> QED BY <1>1, <1>3, <2>1 DEF Known
<1>6. FileUsable'
  BY <1>1, <1>4 DEF FileInv, FileUsable
<1> QED
  BY <1>1, <1>5, <1>6 DEF FileInv, KeptStaysGood

LEMMA FileWorld == TypeOK /\ FileInv /\ (Tick \/ Login \/ Delete \/ Crash) => FileInv'
<1> SUFFICES ASSUME TypeOK, FileInv, Tick \/ Login \/ Delete \/ Crash PROVE FileInv'
  OBVIOUS
<1>1. CASE Tick \/ Delete
  <2>1. UNCHANGED <<pc, call, entry, watcher, spent, lost>> /\ file' \in {None, file}
    BY <1>1 DEF Tick, Delete, storeVars, diskVars, serverVars
  <2>2. InHand' = InHand /\ \A p \in InHand : Tok(p)' = Tok(p)
    BY <2>1 DEF InHand, Tok
  <2>3. Unshared'
    BY <2>1, <2>2 DEF FileInv, Unshared, Known
  <2>4. FileUsable'
    BY <2>1, <2>2 DEF FileInv, FileUsable
  <2> QED BY <2>1, <2>3, <2>4 DEF FileInv, KeptStaysGood
<1>2. CASE Login
  <2>1. UNCHANGED <<pc, call, entry, watcher, spent, lost>> /\ file'.refresh \in {0, issued + 1}
    BY <1>2 DEF Login, storeVars
  <2>2. /\ issued \in Nat /\ spent \subseteq 1..issued
        /\ \A p \in Processes : call[p].newRefresh \in 0..issued
    BY BoundAssumption DEF TypeOK, CallType, Cred
  <2>3. InHand' = InHand /\ \A p \in Processes : Tok(p)' = Tok(p)
    BY <2>1 DEF InHand, Tok
  <2>4. Unshared'
    <3> SUFFICES ASSUME NEW p \in InHand, Rotates
                 PROVE  /\ call[p].newRefresh # 0 /\ call[p].newRefresh \notin spent
                        /\ ~Known(p)'
      BY <2>1, <2>3 DEF Unshared
    <3>1. call[p].newRefresh # 0 /\ call[p].newRefresh \notin spent /\ ~Known(p)
      BY DEF FileInv, Unshared
    <3>2. file'.refresh # call[p].newRefresh
      BY <2>1, <2>2, <3>1 DEF InHand
    <3> QED BY <2>1, <3>1, <3>2 DEF Known
  <2>5. file'.refresh \notin spent
    BY <2>1, <2>2
  <2>6. FileUsable'
    BY <2>1, <2>5 DEF FileUsable
  <2> QED BY <2>1, <2>4, <2>6 DEF FileInv, KeptStaysGood
<1>3. CASE Crash
  <2>1. InHand' = {} /\ UNCHANGED <<file, spent>>
    BY <1>3 DEF Crash, InHand, diskVars
  <2>2. Unshared'
    BY <2>1 DEF Unshared
  <2>3. FileUsable'
    <3> SUFFICES ASSUME file # None, file.refresh \in spent PROVE file.refresh \in lost'
      BY <2>1 DEF FileUsable
    <3>1. file.refresh \in lost \/ \E p \in InHand : Tok(p) = file.refresh
      BY DEF FileInv, FileUsable
    <3>2. Rotates
      BY DEF FileInv, KeptStaysGood
    <3> QED BY <1>3, <3>1, <3>2 DEF Crash, Retired
  <2> QED BY <2>1, <2>2, <2>3 DEF FileInv, KeptStaysGood
<1> QED
  BY <1>1, <1>2, <1>3

LEMMA FileStep == TypeOK /\ FileInv /\ [Next]_vars => FileInv'
<1> SUFFICES ASSUME TypeOK, FileInv, [Next]_vars PROVE FileInv'
  OBVIOUS
<1>1. CASE \E p \in Processes : Begin(p) \/ Run(p)
  BY <1>1, FileQuietSteps, FileRefreshSteps DEF Run, Refresh
<1>2. CASE Scan
  BY <1>2, FileScan
<1>3. CASE Tick \/ Login \/ Delete \/ Crash
  BY <1>3, FileWorld
<1>4. CASE UNCHANGED vars
  <2>1. UNCHANGED <<pc, call, entry, file, watcher, spent, lost>>
    BY <1>4 DEF vars, storeVars, diskVars, serverVars
  <2> QED BY <2>1 DEF FileInv, KeptStaysGood, Unshared, Known, FileUsable, InHand, Tok
<1> QED
  BY <1>1, <1>2, <1>3, <1>4 DEF Next

\* A restart finds credentials that work: the file holds an exchanged refresh
\* token only while its replacement is in a call's hands, or was lost.
THEOREM FileStaysUsable == Spec => []FileUsable
<1>1. TypeOK /\ FileInv /\ [Next]_vars => (TypeOK /\ FileInv)'
  BY TypeStep, FileStep
<1>2. FileInv => FileUsable
  BY DEF FileInv
<1> QED
  BY TypeInit, FileInit, <1>1, <1>2, PTL DEF Spec

----------------------------------------------------------------------------
(* One refresh at a time: as long as no mutex in use was dropped from the map,  *)
(* whoever uses one uses the one in the map, and a mutex has one holder.        *)

SharedLock ==
    ~orphaned => \A p \in Processes :
        pc[p] \in UsingLock => call[p].lock = lockEntry /\ call[p].lock \in Locks

OneHolder ==
    \A p, q \in Processes :
        pc[p] \in Holding /\ pc[q] \in Holding /\ call[p].lock = call[q].lock => p = q

LockInv == SharedLock /\ OneHolder

LEMMA LockInit == Init => LockInv
  BY DEF Init, LockInv, SharedLock, OneHolder, UsingLock, Holding

\* A step of one process that leaves the map alone, ends with the mutex it began
\* with unless it is past it, and takes one only if it is free.
LEMMA LockQuiet ==
    ASSUME TypeOK, LockInv, NEW p \in Processes, NEW label \in Labels, NEW c \in CallType,
           Step(p, label, c),
           label \in UsingLock => pc[p] \in UsingLock /\ c.lock = call[p].lock,
           label \in Holding => pc[p] \in Holding \/ ~Held(call[p].lock),
           UNCHANGED <<lockEntry, orphaned>>
    PROVE  LockInv'
<1>1. \A q \in Processes \ {p} : pc'[q] = pc[q] /\ call'[q] = call[q]
  BY DEF Step, TypeOK
<1>2. pc'[p] = label /\ (label \in UsingLock => call'[p].lock = call[p].lock)
  BY DEF Step, TypeOK, UsingLock, Holding
<1>3. SharedLock'
  BY <1>1, <1>2 DEF LockInv, SharedLock
<1>4. OneHolder'
  <2>1. label \in Holding => label \in UsingLock
    BY DEF UsingLock
  <2> QED BY <1>1, <1>2, <2>1 DEF LockInv, OneHolder, Held
<1> QED
  BY <1>3, <1>4 DEF LockInv

LEMMA LockReturn ==
    ASSUME TypeOK, LockInv, NEW p \in Processes, NEW result \in Results, Return(p, result),
           UNCHANGED <<lockEntry, orphaned>>
    PROVE  LockInv'
<1> DEFINE c == [NewCall EXCEPT !.phase = call[p].phase, !.ref = call[p].ref]
<1>1. c \in CallType
  <2>1. call[p] \in CallType /\ NewCall \in CallType
    BY BoundAssumption DEF TypeOK, NewCall, CallType, Cred, Time
  <2> QED BY <2>1 DEF CallType
<1>2. After(p, result) \in Labels \ UsingLock /\ Step(p, After(p, result), c)
  BY DEF After, Return, Labels, RefreshLabels, UsingLock, Holding
<1>3. After(p, result) \notin Holding
  BY <1>2 DEF UsingLock
<1> QED
  BY <1>1, <1>2, <1>3, LockQuiet

\* Dropping the mutex from the map: if a call uses it, that is on record.
LEMMA LockForgotten ==
    ASSUME LockInv, ForgetLock, \A q \in Processes : pc'[q] \in UsingLock => pc'[q] = pc[q] /\ call'[q] = call[q]
    PROVE  LockInv'
<1>1. SharedLock'
  <2> SUFFICES ASSUME ~orphaned', NEW q \in Processes, pc'[q] \in UsingLock PROVE FALSE
    BY DEF SharedLock
  <2>1. pc[q] \in UsingLock /\ call[q].lock = lockEntry
    BY DEF ForgetLock, LockInv, SharedLock
  <2> QED BY <2>1 DEF ForgetLock
<1>2. OneHolder'
  BY DEF LockInv, OneHolder, UsingLock
<1> QED
  BY <1>1, <1>2 DEF LockInv

LEMMA LockProcess ==
    ASSUME TypeOK, LockInv, NEW p \in Processes, Begin(p) \/ Run(p)
    PROVE  LockInv'
<1>1. /\ call[p] \in CallType /\ NewCall \in CallType /\ pc[p] \in Labels
      /\ {"refreshed", "kept", "failed", "refused"} = Results
      /\ entry # None => entry.access \in Cred /\ entry.refresh \in Cred /\ entry.last \in Time
      /\ now \in Time /\ writes \in Nat
  BY BoundAssumption DEF TypeOK, NewCall, CallType, EntryType, Cred, Time, Results
<1> DEFINE Outside == Labels \ UsingLock
<1>2. /\ {"idle", "check", "getlock", "adopt", "send", "resend", "evict", "evictLock",
          "unlink", "markInvalid"} \subseteq Outside
      /\ {"lock"} \union Holding = UsingLock /\ "lock" \notin Holding
      /\ {"post", "write", "rename", "commit"} = Holding
      /\ UsingLock \subseteq Labels
  BY DEF Labels, RefreshLabels, UsingLock, Holding
<1>3. ASSUME NEW label \in Outside, NEW c \in CallType, Step(p, label, c),
             UNCHANGED <<lockEntry, orphaned>>
      PROVE  LockInv'
  BY <1>2, <1>3, LockQuiet
<1>4. ASSUME \E result \in Results : Return(p, result), UNCHANGED <<lockEntry, orphaned>>
      PROVE  LockInv'
  BY <1>4, LockReturn
<1>5. CASE Begin(p)
  <2>1. [NewCall EXCEPT !.ref = entry.access] \in CallType
    BY <1>1, <1>5 DEF Begin, CallType
  <2> QED BY <1>2, <1>3, <1>5, <2>1 DEF Begin, storeVars
<1>6. CASE Check(p)
  <2>1. entry # None =>
          [call[p] EXCEPT !.access = entry.access, !.last = entry.last] \in CallType
    BY <1>1 DEF CallType
  <2> QED BY <1>1, <1>2, <1>3, <1>4, <1>6, <2>1 DEF Check, storeVars
<1>7. CASE GetLock(p)
  <2>1. PICK l \in Locks : RefreshLock(l) /\ Step(p, "lock", [call[p] EXCEPT !.lock = l])
    BY <1>7 DEF GetLock
  <2>2. /\ pc' = [pc EXCEPT ![p] = "lock"]
        /\ call'[p].lock = l
        /\ \A q \in Processes \ {p} : call'[q] = call[q]
        /\ lockEntry' = l /\ UNCHANGED orphaned
    <3>1. call' = [call EXCEPT ![p] = [call[p] EXCEPT !.lock = l]] /\ pc' = [pc EXCEPT ![p] = "lock"]
      BY <2>1 DEF Step
    <3> QED BY <1>1, <1>7, <2>1, <3>1 DEF RefreshLock, GetLock, TypeOK, CallType
  <2>3. pc'[p] = "lock" /\ \A q \in Processes \ {p} : pc'[q] = pc[q]
    BY <2>2 DEF TypeOK
  <2>4. ASSUME ~orphaned, NEW q \in Processes \ {p}, pc[q] \in UsingLock PROVE lockEntry = l
    <3>1. lockEntry \in Locks
      BY <2>4 DEF LockInv, SharedLock
    <3> QED BY <2>1, <3>1, LockAssumption DEF RefreshLock
  <2>5. SharedLock'
    BY <2>2, <2>3, <2>4 DEF LockInv, SharedLock
  <2>6. OneHolder'
    BY <1>2, <2>2, <2>3 DEF LockInv, OneHolder
  <2> QED BY <2>5, <2>6 DEF LockInv
<1>8. CASE Lock(p)
  <2>1. UNCHANGED <<lockEntry, orphaned>> /\ pc[p] = "lock" /\ ~Held(call[p].lock)
    BY <1>8 DEF Lock, At, storeVars
  <2>2. CASE \E result \in Results : Return(p, result)
    BY <1>4, <2>1, <2>2
  <2>3. CASE entry # None /\ Step(p, "post", [call[p] EXCEPT !.tok = entry.refresh])
    <3>1. /\ [call[p] EXCEPT !.tok = entry.refresh] \in CallType
          /\ [call[p] EXCEPT !.tok = entry.refresh].lock = call[p].lock
      BY <1>1, <2>3 DEF CallType
    <3> QED BY <1>2, <2>1, <2>3, <3>1, LockQuiet
  <2> QED BY <1>1, <1>8, <2>2, <2>3 DEF Lock
<1>9. ASSUME NEW label \in Holding, NEW c, call[p].lock = c.lock, Step(p, label, c),
             pc[p] \in Holding, UNCHANGED <<lockEntry, orphaned>>
      PROVE  LockInv'
  <2>1. pc' = [pc EXCEPT ![p] = label] /\ call' = [call EXCEPT ![p] = c]
    BY <1>2, <1>9 DEF Step
  <2>2. /\ pc'[p] = label /\ call'[p].lock = call[p].lock
        /\ \A q \in Processes \ {p} : pc'[q] = pc[q] /\ call'[q] = call[q]
    BY <1>9, <2>1 DEF TypeOK
  <2>3. SharedLock'
    BY <1>2, <1>9, <2>2 DEF LockInv, SharedLock
  <2>4. OneHolder'
    BY <1>9, <2>2 DEF LockInv, OneHolder
  <2> QED BY <2>3, <2>4 DEF LockInv
<1>10. CASE Post(p)
  <2>1. UNCHANGED <<lockEntry, orphaned>> /\ pc[p] \in Holding
    BY <1>2, <1>10 DEF Post, At, storeVars
  <2>2. CASE \E result \in Results : Return(p, result)
    BY <1>4, <2>1, <2>2
  <2>3. CASE Step(p, "write", [call[p] EXCEPT !.newAccess = issued + 1,
                                              !.newRefresh = NewRefreshToken(p)])
    <3>1. [call[p] EXCEPT !.newAccess = issued + 1,
                          !.newRefresh = NewRefreshToken(p)].lock = call[p].lock
      BY <1>1 DEF CallType
    <3> QED BY <1>2, <1>9, <2>1, <2>3, <3>1
  <2> QED BY <1>1, <1>10, <2>2, <2>3 DEF Post
<1>11. CASE WriteTemp(p)
  <2>1. UNCHANGED <<lockEntry, orphaned>> /\ pc[p] \in Holding
    BY <1>2, <1>11 DEF WriteTemp, At, storeVars
  <2>2. CASE Abandon(p)
    BY <1>1, <1>4, <2>1, <2>2 DEF Abandon
  <2>3. CASE Step(p, "rename", [call[p] EXCEPT !.mtime = writes + 1, !.wrote = now])
    <3>1. [call[p] EXCEPT !.mtime = writes + 1, !.wrote = now].lock = call[p].lock
      BY <1>1 DEF CallType
    <3> QED BY <1>2, <1>9, <2>1, <2>3, <3>1
  <2> QED BY <1>11, <2>2, <2>3 DEF WriteTemp
<1>12. CASE Rename(p)
  <2>1. UNCHANGED <<lockEntry, orphaned>> /\ pc[p] \in Holding
    BY <1>2, <1>12 DEF Rename, At, storeVars
  <2>2. CASE Abandon(p)
    BY <1>1, <1>4, <2>1, <2>2 DEF Abandon
  <2>3. CASE Step(p, "commit", call[p])
    BY <1>2, <1>9, <2>1, <2>3
  <2> QED BY <1>12, <2>2, <2>3 DEF Rename
<1>13. CASE Commit(p)
  BY <1>1, <1>4, <1>13 DEF Commit
<1>14. CASE Adopt(p)
  <2>1. [call[p] EXCEPT !.ref = IF entry = None THEN call[p].ref ELSE entry.access] \in CallType
    <3>1. (IF entry = None THEN call[p].ref ELSE entry.access) \in Cred
      BY <1>1 DEF CallType
    <3> QED BY <1>1, <3>1 DEF CallType
  <2> QED BY <1>2, <1>3, <1>14, <2>1 DEF Adopt, storeVars
<1>15. CASE Send(p)
  <2>1. /\ [call[p] EXCEPT !.phase = "forced"] \in CallType
        /\ [call[p] EXCEPT !.deactivated = TRUE] \in CallType
    BY <1>1 DEF CallType
  <2>2. \E label \in Outside, c \in CallType : Step(p, label, c)
    BY <1>1, <1>2, <1>15, <2>1 DEF Send
  <2> QED BY <1>3, <1>15, <2>2 DEF Send, storeVars
<1>16. CASE MarkInvalid(p)
  BY <1>1, <1>2, <1>3, <1>16 DEF MarkInvalid
<1>17. CASE RemoveEntry(p)
  BY <1>1, <1>2, <1>3, <1>17 DEF RemoveEntry
<1>18. CASE RemoveLock(p)
  <2>1. \A q \in Processes : pc'[q] \in UsingLock => pc'[q] = pc[q] /\ call'[q] = call[q]
    BY <1>2, <1>18 DEF RemoveLock, Step, TypeOK
  <2> QED BY <1>18, <2>1, LockForgotten DEF RemoveLock
<1>19. CASE Unlink(p)
  BY <1>1, <1>2, <1>3, <1>19 DEF Unlink, storeVars
<1> QED
  BY <1>5, <1>6, <1>7, <1>8, <1>10, <1>11, <1>12, <1>13, <1>14, <1>15, <1>16, <1>17, <1>18, <1>19
     DEF Run, Refresh

LEMMA LockStep == TypeOK /\ LockInv /\ [Next]_vars => LockInv'
<1> SUFFICES ASSUME TypeOK, LockInv, [Next]_vars PROVE LockInv'
  OBVIOUS
<1>1. CASE \E p \in Processes : Begin(p) \/ Run(p)
  BY <1>1, LockProcess
<1>2. CASE UNCHANGED <<pc, call, lockEntry, orphaned>>
  BY <1>2 DEF LockInv, SharedLock, OneHolder
<1>3. CASE Scan
  <2>1. CASE DropLock
    BY <1>3, <2>1, LockForgotten DEF Scan, DropLock
  <2>2. CASE ~DropLock
    BY <1>2, <1>3, <2>2
       DEF Scan, ReadDir, Stat, Parse, UpsertToken, DropEntry, NoteFileMod, storeVars
  <2> QED BY <2>1, <2>2
<1>4. CASE Tick \/ Login \/ Delete
  BY <1>2, <1>4 DEF Tick, Login, Delete, storeVars
<1>5. CASE Crash
  BY <1>5 DEF Crash, LockInv, SharedLock, OneHolder, UsingLock, Holding
<1> QED
  BY <1>1, <1>2, <1>3, <1>4, <1>5 DEF Next, vars, storeVars

\* Two calls exchange refresh tokens at once only after the token's mutex was
\* dropped from the map while a call was using it.
THEOREM RefreshesExclude == Spec => []OneRefreshAtATime
<1>1. TypeOK /\ LockInv /\ [Next]_vars => (TypeOK /\ LockInv)'
  BY TypeStep, LockStep
<1>2. LockInv => OneRefreshAtATime
  BY DEF LockInv, SharedLock, OneHolder, OneRefreshAtATime, UsingLock
<1> QED
  BY TypeInit, LockInit, <1>1, <1>2, PTL DEF Spec

----------------------------------------------------------------------------
(* A store entry that was overtaken heals.  An exchanged refresh token in the   *)
(* store is behind: whoever exchanged it still bears the replacement, or the    *)
(* file has moved on from the mtime the store remembers, and will be reloaded.  *)
(* What the watcher has read and is about to put in is behind in the same way.  *)
(* Mtimes are the crux: one that is about to be renamed in is above them all.   *)

Bearing == {"write", "rename", "commit"}

FileAhead(mtime) == file = None \/ file.mtime > mtime

Behind(refresh, mtime) ==
    refresh \in spent =>
        \/ refresh \in lost
        \/ /\ \A p \in Processes : pc[p] = "rename" => mtime < call[p].mtime
           /\ \/ FileAhead(mtime)
              \/ \E p \in Processes :
                    /\ pc[p] \in Bearing
                    /\ Tok(p) = refresh
                    /\ pc[p] = "commit" => FileAhead(mtime)

\* Every mtime was stamped already.
Stamped ==
    /\ fileMod <= writes /\ watcher.mtime <= writes
    /\ file # None => file.mtime <= writes
    /\ \A p \in Processes : pc[p] = "rename" => call[p].mtime <= writes

\* What a call bears was not exchanged in turn.
Fresh == \A p \in Processes : pc[p] \in Bearing => call[p].newRefresh \notin spent

\* An exchanged token still in the file was written before its replacement.
RenameAhead ==
    \A p \in Processes :
        pc[p] = "rename" /\ file # None /\ file.refresh \in spent \ lost =>
            /\ file.mtime < call[p].mtime
            /\ watcher.pc = "parse" => watcher.mtime < call[p].mtime

EntryBehind == entry # None => Behind(entry.refresh, fileMod)
ReadBehind == watcher.pc = "upsert" => Behind(watcher.refresh, watcher.mtime)

Healing == Fresh /\ RenameAhead /\ EntryBehind /\ ReadBehind

HealsUnlessOrphaned == ~orphaned => Healing

\* After a token was dropped by the watcher there is none until it starts over.
DroppedStaysDropped == watcher.pc \in {"dropLock", "note"} => entry = None

HealInv == DroppedStaysDropped /\ Stamped /\ HealsUnlessOrphaned

LEMMA HealInit == Init => HealInv
<1> SUFFICES ASSUME Init PROVE HealInv
  OBVIOUS
<1>1. /\ watcher.pc = "idle" /\ watcher.mtime = 0 /\ spent = {} /\ entry = None
      /\ fileMod = 0 /\ writes = 1 /\ file.mtime = 1
      /\ \A p \in Processes : pc[p] = "idle"
  BY DEF Init, IdleWatcher
<1> QED
  BY <1>1 DEF HealInv, DroppedStaysDropped, Stamped, HealsUnlessOrphaned, Healing, Fresh,
              RenameAhead, EntryBehind, ReadBehind, Bearing

LEMMA DroppedStep == TypeOK /\ DroppedStaysDropped /\ [Next]_vars => DroppedStaysDropped'
<1> SUFFICES ASSUME TypeOK, DroppedStaysDropped, [Next]_vars PROVE DroppedStaysDropped'
  OBVIOUS
<1>1. CASE UNCHANGED watcher /\ (entry = None => entry' = None)
  BY <1>1 DEF DroppedStaysDropped
<1>2. CASE \E p \in Processes : Begin(p) \/ Run(p)
  <2>1. UNCHANGED watcher
    BY <1>2 DEF Begin, Run, Refresh, Check, GetLock, Lock, Post, WriteTemp, Rename, Commit, Adopt,
                Send, MarkInvalid, RemoveEntry, RemoveLock, Unlink
  <2>2. entry = None => entry' = None
    BY <1>2 DEF Begin, Run, Refresh, Check, GetLock, Lock, Post, WriteTemp, Rename, Commit, Adopt,
                Send, MarkInvalid, RemoveEntry, RemoveLock, Unlink, UpdateCredentials,
                ForgetEntry, storeVars
  <2> QED BY <1>1, <2>1, <2>2
<1>3. CASE Scan
  <2>1. \A label \in {"prune", "stat", "parse", "idle", "upsert", "drop"} :
          watcher'.pc = label => DroppedStaysDropped'
    BY DEF DroppedStaysDropped
  <2>2. watcher \in WatcherType /\ IdleWatcher \in WatcherType
    BY BoundAssumption DEF TypeOK, IdleWatcher, WatcherType, WatcherLabels, Cred, Time
  <2>3. CASE ReadDir \/ Stat \/ UpsertToken \/ NoteFileMod
    BY <2>1, <2>2, <2>3 DEF ReadDir, Stat, UpsertToken, NoteFileMod, Watch, WatcherType
  <2>4. CASE Parse
    BY <2>1, <2>2, <2>4 DEF Parse, Watch, WatcherType
  <2>5. CASE DropEntry
    BY <2>5 DEF DropEntry, ForgetEntry, DroppedStaysDropped
  <2>6. CASE DropLock
    BY <2>6 DEF DropLock, DroppedStaysDropped
  <2> QED BY <1>3, <2>3, <2>4, <2>5, <2>6 DEF Scan
<1>4. CASE Tick \/ Login \/ Delete
  BY <1>1, <1>4 DEF Tick, Login, Delete, storeVars
<1>5. CASE Crash
  BY <1>5 DEF Crash, DroppedStaysDropped
<1> QED
  BY <1>1, <1>2, <1>3, <1>4, <1>5 DEF Next, vars, storeVars

LEMMA StampedStep == TypeOK /\ Stamped /\ [Next]_vars => Stamped'
<1> SUFFICES ASSUME TypeOK, Stamped, [Next]_vars PROVE Stamped'
  OBVIOUS
<1>1. /\ writes \in Nat /\ fileMod \in Nat /\ watcher.mtime \in Nat
      /\ file # None => file.mtime \in Nat
      /\ \A p \in Processes : call[p] \in CallType /\ call[p].mtime \in Nat
      /\ watcher \in WatcherType /\ IdleWatcher \in WatcherType
      /\ DOMAIN pc = Processes /\ DOMAIN call = Processes
  BY BoundAssumption
     DEF TypeOK, FileType, WatcherType, CallType, IdleWatcher, WatcherLabels, Cred, Time
<1>2. CASE UNCHANGED <<fileMod, watcher, file, writes, pc, call>>
  BY <1>2 DEF Stamped
<1>3. ASSUME NEW p \in Processes, NEW label, NEW c, Step(p, label, c), label # "rename",
             UNCHANGED <<writes, watcher>>, fileMod' \in {fileMod, 0}, file' \in {file, None}
      PROVE  Stamped'
  <2>1. pc'[p] # "rename"
    BY <1>1, <1>3 DEF Step
  <2>2. \A q \in Processes \ {p} : pc'[q] = pc[q] /\ call'[q] = call[q]
    BY <1>1, <1>3 DEF Step
  <2> QED BY <1>1, <1>3, <2>1, <2>2 DEF Stamped
<1>4. ASSUME NEW p \in Processes, Begin(p) \/ Run(p) PROVE Stamped'
  <2>1. CASE WriteTemp(p)
    <3>1. CASE Abandon(p)
      BY <1>3, <2>1, <3>1 DEF WriteTemp, Abandon, Return, After, storeVars, diskVars
    <3>2. CASE /\ writes' = writes + 1 /\ UNCHANGED file
               /\ Step(p, "rename", [call[p] EXCEPT !.mtime = writes + 1, !.wrote = now])
      <4>1. call'[p].mtime = writes + 1 /\ \A q \in Processes \ {p} : pc'[q] = pc[q] /\ call'[q] = call[q]
        BY <1>1, <3>2 DEF Step, CallType
      <4>2. UNCHANGED <<fileMod, watcher>>
        BY <2>1 DEF WriteTemp, storeVars
      <4> QED BY <1>1, <3>2, <4>1, <4>2 DEF Stamped
    <3> QED BY <2>1, <3>1, <3>2 DEF WriteTemp
  <2>2. CASE Rename(p)
    <3>1. CASE Abandon(p)
      BY <1>3, <2>2, <3>1 DEF Rename, Abandon, Return, After, storeVars, diskVars
    <3>2. CASE /\ file' = [access |-> call[p].newAccess, refresh |-> call[p].newRefresh,
                           last |-> call[p].wrote, mtime |-> call[p].mtime]
               /\ Step(p, "commit", call[p]) /\ UNCHANGED writes
      <4>1. pc'[p] # "rename" /\ \A q \in Processes \ {p} : pc'[q] = pc[q] /\ call'[q] = call[q]
        BY <1>1, <3>2 DEF Step
      <4>2. UNCHANGED <<fileMod, watcher>> /\ pc[p] = "rename"
        BY <2>2 DEF Rename, storeVars, At
      <4> QED BY <1>1, <3>2, <4>1, <4>2 DEF Stamped
    <3> QED BY <2>2, <3>1, <3>2 DEF Rename
  <2>3. CASE Begin(p) \/ Check(p) \/ GetLock(p) \/ Lock(p)
    BY <1>3, <2>3 DEF Begin, Check, GetLock, Lock, Return, After, storeVars, diskVars
  <2>4. CASE Post(p) \/ Commit(p) \/ Adopt(p) \/ MarkInvalid(p)
    BY <1>3, <2>4 DEF Post, Commit, Adopt, MarkInvalid, Return, After, storeVars, diskVars
  <2>5. CASE Send(p)
    BY <1>3, <2>5 DEF Send, storeVars, diskVars
  <2>6. CASE RemoveEntry(p) \/ RemoveLock(p) \/ Unlink(p)
    BY <1>3, <2>6 DEF RemoveEntry, RemoveLock, Unlink, ForgetEntry, storeVars, diskVars
  <2> QED BY <1>4, <2>1, <2>2, <2>3, <2>4, <2>5, <2>6 DEF Run, Refresh
<1>5. CASE Scan
  <2>1. UNCHANGED <<file, writes, pc, call>>
    BY <1>5 DEF Scan, ReadDir, Stat, Parse, UpsertToken, DropEntry, DropLock, NoteFileMod, diskVars
  <2>2. fileMod' \in {fileMod, 0, watcher.mtime}
    BY <1>5 DEF Scan, ReadDir, Stat, Parse, UpsertToken, DropEntry, DropLock, NoteFileMod,
                ForgetEntry, ModTime, storeVars
  <2>3. watcher'.mtime \in {0, watcher.mtime} \union (IF file = None THEN {} ELSE {file.mtime})
    <3>1. IdleWatcher.mtime = 0
      BY DEF IdleWatcher
    <3> QED BY <1>1, <1>5, <3>1
       DEF Scan, ReadDir, Stat, Parse, UpsertToken, DropEntry, DropLock, NoteFileMod, Watch, WatcherType
  <2> QED BY <1>1, <2>1, <2>2, <2>3 DEF Stamped
<1>6. CASE Tick
  BY <1>2, <1>6 DEF Tick, storeVars, diskVars
<1>7. CASE Login \/ Delete
  BY <1>1, <1>7 DEF Login, Delete, Stamped, storeVars
<1>8. CASE Crash
  BY <1>1, <1>8 DEF Crash, Stamped, IdleWatcher, diskVars
<1> QED
  BY <1>2, <1>4, <1>5, <1>6, <1>7, <1>8 DEF Next, vars, storeVars, diskVars
\* A step of a call that bears nothing and comes to bear nothing.
LEMMA HealingQuiet ==
    ASSUME TypeOK, Healing, NEW p \in Processes, pc[p] \notin Bearing,
           NEW label, label \notin Bearing, NEW c, Step(p, label, c),
           entry' # None => /\ entry # None /\ entry'.refresh = entry.refresh
                            /\ fileMod' = fileMod,
           file' \in {file, None}, UNCHANGED <<watcher, spent, lost>>
    PROVE  Healing'
<1>1. pc'[p] \notin Bearing /\ \A q \in Processes \ {p} : pc'[q] = pc[q] /\ call'[q] = call[q]
  BY DEF Step, TypeOK
<1>2. \A q \in Processes : pc'[q] \in Bearing \/ pc[q] \in Bearing =>
        /\ pc'[q] = pc[q] /\ call'[q] = call[q]
  BY <1>1
<1>3. "rename" \in Bearing
  BY DEF Bearing
<1>4. Fresh' /\ RenameAhead'
  BY <1>2, <1>3 DEF Healing, Fresh, RenameAhead
<1>5. EntryBehind'
  <2> SUFFICES ASSUME entry' # None PROVE Behind(entry.refresh, fileMod)'
    BY DEF EntryBehind
  <2>1. Behind(entry.refresh, fileMod)
    BY DEF Healing, EntryBehind
  <2> QED BY <1>2, <1>3, <2>1 DEF Behind, FileAhead, Tok
<1>6. ReadBehind'
  <2> SUFFICES ASSUME watcher.pc = "upsert" PROVE Behind(watcher.refresh, watcher.mtime)'
    BY DEF ReadBehind
  <2>1. Behind(watcher.refresh, watcher.mtime)
    BY DEF Healing, ReadBehind
  <2> QED BY <1>2, <1>3, <2>1 DEF Behind, FileAhead, Tok
<1> QED
  BY <1>4, <1>5, <1>6 DEF Healing

LEMMA HealingQuietSteps ==
    ASSUME TypeOK, Healing, NEW p \in Processes,
           \/ Begin(p) \/ Check(p) \/ GetLock(p) \/ Lock(p) \/ Adopt(p) \/ Send(p)
           \/ MarkInvalid(p) \/ RemoveEntry(p) \/ RemoveLock(p) \/ Unlink(p)
    PROVE  Healing'
<1>1. SUFFICES /\ pc[p] \notin Bearing
               /\ \E label, c : label \notin Bearing /\ Step(p, label, c)
               /\ entry' # None => /\ entry # None /\ entry'.refresh = entry.refresh
                                   /\ fileMod' = fileMod
               /\ file' \in {file, None}
               /\ UNCHANGED <<watcher, spent, lost>>
  BY <1>1, HealingQuiet
<1>2. CASE Begin(p) \/ Check(p) \/ Adopt(p)
  BY <1>2 DEF Begin, Check, Adopt, Return, After, At, Bearing, storeVars, diskVars, serverVars
<1>3. CASE GetLock(p) \/ Lock(p)
  BY <1>3 DEF GetLock, Lock, Return, After, At, Bearing, storeVars, diskVars, serverVars
<1>4. CASE Send(p)
  BY <1>4 DEF Send, At, Bearing, storeVars, diskVars
<1>5. CASE MarkInvalid(p)
  <2>1. entry' # None => entry # None /\ entry'.refresh = entry.refresh
    BY <1>5 DEF MarkInvalid, TypeOK, EntryType
  <2> QED BY <1>5, <2>1 DEF MarkInvalid, At, Bearing, diskVars, serverVars
<1>6. CASE RemoveEntry(p) \/ RemoveLock(p) \/ Unlink(p)
  BY <1>6 DEF RemoveEntry, RemoveLock, Unlink, ForgetEntry, At, Bearing, storeVars, diskVars,
              serverVars
<1> QED
  BY <1>2, <1>3, <1>4, <1>5, <1>6

\* With nothing retired on exchange there is nothing to heal.
LEMMA NothingRetired == KeptStaysGood' /\ ~Rotates => Healing'
<1> SUFFICES ASSUME spent' = {} PROVE Healing'
  BY DEF KeptStaysGood
<1> QED
  BY DEF Healing, Fresh, RenameAhead, EntryBehind, ReadBehind, Behind
\* The exchange, until the replacement is in the store or gone: whoever is at it
\* is the only one, so its refresh token is the one whose replacement is borne.
LEMMA HealingRefreshSteps ==
    ASSUME TypeOK, FileInv, FileInv', LockInv, Stamped, Healing, ~orphaned, Rotates,
           NEW p \in Processes, Post(p) \/ WriteTemp(p) \/ Rename(p) \/ Commit(p)
    PROVE  Healing'
<1>0. /\ call[p] \in CallType /\ writes \in Nat /\ fileMod \in Nat /\ watcher.mtime \in Nat
      /\ file # None => file.mtime \in Nat
      /\ DOMAIN pc = Processes /\ DOMAIN call = Processes
      /\ Bearing = {"write", "rename", "commit"} /\ Bearing \subseteq Holding
      /\ pc[p] \in Holding
  BY DEF TypeOK, CallType, FileType, WatcherType, Bearing, Holding, Post, WriteTemp, Rename,
         Commit, At
<1>1. \A q \in Processes \ {p} : pc[q] \notin Bearing
  BY <1>0 DEF LockInv, SharedLock, OneHolder, UsingLock
<1>2. ASSUME NEW label, NEW c, Step(p, label, c)
      PROVE  /\ pc'[p] = label /\ (label # "idle" => call'[p] = c)
             /\ \A q \in Processes \ {p} : pc'[q] \notin Bearing
  BY <1>0, <1>1, <1>2 DEF Step
<1>3. UNCHANGED watcher
  BY DEF Post, WriteTemp, Rename, Commit
<1>4. ASSUME \E result \in {"refused", "failed"} : Return(p, result),
             UNCHANGED <<entry, fileMod, file>>, lost \subseteq lost', spent \subseteq spent',
             spent' \ spent \subseteq lost', pc[p] \in Bearing => Tok(p) \in lost'
      PROVE  Healing'
  <2>1. \A q \in Processes : pc'[q] \notin Bearing
    <3>1. PICK result \in {"refused", "failed"} : Return(p, result)
      BY <1>4
    <3>2. After(p, result) \notin Bearing
      BY <1>0 DEF After
    <3> QED BY <1>2, <3>1, <3>2 DEF Return
  <2>2. Fresh' /\ RenameAhead'
    BY <1>0, <2>1 DEF Fresh, RenameAhead
  <2>3. EntryBehind'
    BY <1>0, <1>1, <1>4, <2>1 DEF Healing, EntryBehind, Behind, FileAhead, Tok
  <2>4. ReadBehind'
    BY <1>0, <1>1, <1>3, <1>4, <2>1 DEF Healing, ReadBehind, Behind, FileAhead, Tok
  <2> QED BY <2>2, <2>3, <2>4 DEF Healing
<1>5. ASSUME Abandon(p), pc[p] \in Bearing, UNCHANGED <<storeVars, spent>> PROVE Healing'
  BY <1>4, <1>5 DEF Abandon, Retired, storeVars, diskVars
<1>6. CASE Post(p)
  <2>0. /\ UNCHANGED <<entry, fileMod, file>> /\ \A q \in Processes : pc[q] \notin Bearing
    BY <1>0, <1>1, <1>6 DEF Post, At, storeVars, diskVars
  <2>1. CASE \E result \in {"refused", "failed"} : Return(p, result) /\ UNCHANGED serverVars
    BY <1>4, <2>0, <2>1 DEF serverVars
  <2>2. CASE /\ spent' = spent \union Retired(p) /\ lost' = lost \union Retired(p)
             /\ Return(p, "failed")
    BY <1>4, <2>0, <2>2 DEF Retired
  <2>3. CASE /\ spent' = spent \union Retired(p) /\ UNCHANGED lost
             /\ Step(p, "write", [call[p] EXCEPT !.newAccess = issued + 1,
                                                 !.newRefresh = NewRefreshToken(p)])
    <3>1. /\ pc'[p] = "write" /\ Tok(p)' = Tok(p) /\ spent' = spent \union {Tok(p)}
          /\ \A q \in Processes \ {p} : pc'[q] \notin Bearing
      <4> DEFINE c == [call[p] EXCEPT !.newAccess = issued + 1, !.newRefresh = NewRefreshToken(p)]
      <4>1. c.tok = call[p].tok
        BY <1>0 DEF CallType
      <4> HIDE DEF c
      <4>2. pc'[p] = "write" /\ call'[p] = c /\ \A q \in Processes \ {p} : pc'[q] \notin Bearing
        BY <1>2, <2>3 DEF c
      <4> QED BY <2>3, <4>1, <4>2 DEF Tok, Retired
    <3>2. Fresh'
      <4>1. p \in InHand'
        BY <3>1 DEF InHand
      <4> QED BY <3>1, <4>1 DEF FileInv, Unshared, Fresh
    <3>3. RenameAhead'
      BY <1>0, <3>1 DEF RenameAhead
    <3>4. EntryBehind'
      BY <1>0, <2>0, <2>3, <3>1 DEF Healing, EntryBehind, Behind, FileAhead
    <3>5. ReadBehind'
      BY <1>0, <1>3, <2>0, <2>3, <3>1 DEF Healing, ReadBehind, Behind, FileAhead
    <3> QED BY <3>2, <3>3, <3>4, <3>5 DEF Healing
  <2> QED BY <1>6, <2>1, <2>2, <2>3 DEF Post
<1>7. CASE WriteTemp(p)
  <2>0. UNCHANGED <<entry, fileMod, spent>> /\ pc[p] \in Bearing
    BY <1>0, <1>7 DEF WriteTemp, At, storeVars
  <2>1. CASE Abandon(p)
    BY <1>5, <1>7, <2>0, <2>1 DEF WriteTemp
  <2>2. CASE /\ Step(p, "rename", [call[p] EXCEPT !.mtime = writes + 1, !.wrote = now])
             /\ UNCHANGED <<file, lost>>
    <3>1. /\ pc'[p] = "rename" /\ Tok(p)' = Tok(p) /\ call'[p].mtime = writes + 1
          /\ call'[p].newRefresh = call[p].newRefresh
          /\ \A q \in Processes \ {p} : pc'[q] \notin Bearing
      <4> DEFINE c == [call[p] EXCEPT !.mtime = writes + 1, !.wrote = now]
      <4>1. c.tok = call[p].tok /\ c.mtime = writes + 1 /\ c.newRefresh = call[p].newRefresh
        BY <1>0 DEF CallType
      <4> HIDE DEF c
      <4>2. pc'[p] = "rename" /\ call'[p] = c /\ \A q \in Processes \ {p} : pc'[q] \notin Bearing
        BY <1>2, <2>2 DEF c
      <4> QED BY <4>1, <4>2 DEF Tok
    <3>2. Fresh'
      BY <2>0, <3>1 DEF Healing, Fresh
    <3>3. RenameAhead'
      BY <1>0, <1>3, <2>2, <3>1 DEF RenameAhead, Stamped
    <3>4. EntryBehind'
      BY <1>0, <1>1, <1>7, <2>0, <2>2, <3>1
         DEF Healing, EntryBehind, Behind, FileAhead, Stamped, WriteTemp, At
    <3>5. ReadBehind'
      BY <1>0, <1>1, <1>3, <1>7, <2>0, <2>2, <3>1
         DEF Healing, ReadBehind, Behind, FileAhead, Stamped, WriteTemp, At
    <3> QED BY <3>2, <3>3, <3>4, <3>5 DEF Healing
  <2> QED BY <1>7, <2>1, <2>2 DEF WriteTemp
<1>8. CASE Rename(p)
  <2>0. UNCHANGED <<entry, fileMod, spent>> /\ pc[p] = "rename"
    BY <1>8 DEF Rename, At, storeVars
  <2>1. CASE Abandon(p)
    BY <1>0, <1>5, <1>8, <2>0, <2>1 DEF Rename
  <2>2. CASE /\ file' = [access |-> call[p].newAccess, refresh |-> call[p].newRefresh,
                         last |-> call[p].wrote, mtime |-> call[p].mtime]
             /\ Step(p, "commit", call[p]) /\ UNCHANGED lost
    <3>1. /\ pc'[p] = "commit" /\ call'[p] = call[p]
          /\ \A q \in Processes \ {p} : pc'[q] \notin Bearing
      BY <1>0, <1>2, <2>2
    <3>2. Fresh'
      BY <1>0, <2>0, <3>1 DEF Healing, Fresh
    <3>3. RenameAhead'
      BY <1>0, <3>1 DEF RenameAhead
    <3>4. EntryBehind'
      BY <1>0, <1>1, <2>0, <2>2, <3>1 DEF Healing, EntryBehind, Behind, FileAhead, Tok
    <3>5. ReadBehind'
      BY <1>0, <1>1, <1>3, <2>0, <2>2, <3>1 DEF Healing, ReadBehind, Behind, FileAhead, Tok
    <3> QED BY <3>2, <3>3, <3>4, <3>5 DEF Healing
  <2> QED BY <1>8, <2>1, <2>2 DEF Rename
<1>9. CASE Commit(p)
  <2>0. UNCHANGED <<fileMod, file, spent, lost>> /\ pc[p] = "commit"
    BY <1>9 DEF Commit, At, diskVars, serverVars
  <2>1. \A q \in Processes : pc'[q] \notin Bearing
    <3>1. After(p, "refreshed") \notin Bearing
      BY <1>0 DEF After
    <3> QED BY <1>2, <1>9, <3>1 DEF Commit, Return
  <2>2. Fresh' /\ RenameAhead'
    BY <1>0, <2>1 DEF Fresh, RenameAhead
  <2>3. EntryBehind'
    <3>1. entry' # None => entry'.refresh \notin spent
      BY <1>0, <1>9, <2>0 DEF Commit, UpdateCredentials, Healing, Fresh
    <3> QED BY <2>0, <3>1 DEF EntryBehind, Behind
  <2>4. ReadBehind'
    BY <1>0, <1>1, <1>3, <2>0, <2>1 DEF Healing, ReadBehind, Behind, FileAhead
  <2> QED BY <2>2, <2>3, <2>4 DEF Healing
<1> QED
  BY <1>6, <1>7, <1>8, <1>9
LEMMA HealingScan ==
    ASSUME TypeOK, FileInv, DroppedStaysDropped, Healing, Scan PROVE Healing'
<1>0. /\ UNCHANGED <<pc, call, spent, lost, file>>
      /\ watcher \in WatcherType /\ IdleWatcher \in WatcherType /\ IdleWatcher.mtime = 0
      /\ file # None => file.mtime \in Nat
      /\ \A p \in Processes : call[p].mtime \in Nat
  <2>1. UNCHANGED <<pc, call, spent, lost, file>>
    BY DEF Scan, ReadDir, Stat, Parse, UpsertToken, DropEntry, DropLock, NoteFileMod, diskVars,
           serverVars
  <2>2. IdleWatcher \in WatcherType
    BY BoundAssumption DEF TypeOK, IdleWatcher, WatcherType, WatcherLabels, Cred, Time
  <2>3. IdleWatcher.mtime = 0 /\ watcher \in WatcherType
    BY DEF IdleWatcher, TypeOK
  <2>4. /\ file # None => file.mtime \in Nat
        /\ \A p \in Processes : call[p].mtime \in Nat
    BY DEF TypeOK, FileType, CallType
  <2> QED BY <2>1, <2>2, <2>3, <2>4
<1>1. Fresh'
  BY <1>0 DEF Healing, Fresh
<1>2. ASSUME entry' # None => entry' = entry /\ fileMod' = fileMod PROVE EntryBehind'
  BY <1>0, <1>2 DEF Healing, EntryBehind, Behind, FileAhead, Tok
<1>3. ASSUME watcher'.pc # "parse" PROVE RenameAhead'
  BY <1>0, <1>3 DEF Healing, RenameAhead
<1>4. CASE ReadDir
  <2>1. watcher'.pc \in {"prune", "stat"}
    BY <1>0, <1>4 DEF ReadDir, Watch, WatcherType
  <2>2. UNCHANGED <<entry, fileMod>>
    BY <1>4 DEF ReadDir, storeVars
  <2> QED BY <1>1, <1>2, <1>3, <2>1, <2>2 DEF Healing, ReadBehind
<1>5. CASE Stat
  <2>1. \/ watcher'.pc = "idle"
        \/ watcher'.pc = "parse" /\ file # None /\ watcher'.mtime = file.mtime
    BY <1>0, <1>5 DEF Stat, Watch, WatcherType
  <2>2. UNCHANGED <<entry, fileMod>>
    BY <1>5 DEF Stat, storeVars
  <2>3. RenameAhead'
    BY <1>0, <2>1 DEF Healing, RenameAhead
  <2> QED BY <1>1, <1>2, <2>1, <2>2, <2>3 DEF Healing, ReadBehind
<1>6. CASE Parse
  <2>1. UNCHANGED <<entry, fileMod>> /\ watcher.pc = "parse"
    BY <1>6 DEF Parse, storeVars
  <2>2. \/ watcher'.pc = "drop"
        \/ /\ watcher'.pc = "upsert" /\ file # None
           /\ watcher'.refresh = file.refresh /\ watcher'.mtime = watcher.mtime
    BY <1>0, <1>6 DEF Parse, Watch, WatcherType
  <2>3. CASE watcher'.pc = "drop"
    BY <1>1, <1>2, <1>3, <2>1, <2>3 DEF Healing, ReadBehind
  <2>4. CASE /\ watcher'.pc = "upsert" /\ file # None
             /\ watcher'.refresh = file.refresh /\ watcher'.mtime = watcher.mtime
    <3>1. ASSUME file.refresh \in spent, file.refresh \notin lost
          PROVE  /\ \A p \in Processes : pc[p] = "rename" => watcher.mtime < call[p].mtime
                 /\ \E p \in Processes : pc[p] \in {"write", "rename"} /\ Tok(p) = file.refresh
      BY <2>1, <2>4, <3>1 DEF Healing, RenameAhead, FileInv, FileUsable, InHand
    <3>2. ReadBehind'
      BY <1>0, <2>4, <3>1 DEF ReadBehind, Behind, Bearing, Tok
    <3> QED BY <1>1, <1>2, <1>3, <2>1, <2>4, <3>2 DEF Healing
  <2> QED BY <2>2, <2>3, <2>4
<1>7. CASE UpsertToken
  <2>1. watcher'.pc = "idle"
    BY <1>0, <1>7 DEF UpsertToken, Watch, WatcherType
  <2>2. /\ watcher.pc = "upsert" /\ entry'.refresh = watcher.refresh
        /\ fileMod' = watcher.mtime
    BY <1>7 DEF UpsertToken, ModTime
  <2>3. EntryBehind'
    BY <1>0, <2>2 DEF Healing, ReadBehind, EntryBehind, Behind, FileAhead, Tok
  <2> QED BY <1>1, <1>3, <2>1, <2>3 DEF Healing, ReadBehind
<1>8. CASE DropEntry \/ DropLock \/ NoteFileMod
  <2>1. watcher'.pc \in {"note", "dropLock", "idle"}
    BY <1>0, <1>8 DEF DropEntry, DropLock, NoteFileMod, Watch, WatcherType
  <2>2. entry' = None
    BY <1>8 DEF DropEntry, DropLock, NoteFileMod, ForgetEntry, DroppedStaysDropped
  <2> QED BY <1>1, <1>2, <1>3, <2>1, <2>2 DEF Healing, ReadBehind
<1> QED
  BY <1>4, <1>5, <1>6, <1>7, <1>8 DEF Scan

LEMMA HealingWorld ==
    ASSUME TypeOK, Stamped, Tick \/ Login \/ Delete, Healing PROVE Healing'
<1>0. UNCHANGED <<entry, fileMod, pc, call, watcher, spent, lost>>
  BY DEF Tick, Login, Delete, storeVars, serverVars
<1>1. Fresh'
  BY <1>0 DEF Healing, Fresh
<1>2. CASE Tick \/ Delete
  <2>1. file' \in {file, None}
    BY <1>2 DEF Tick, Delete, diskVars
  <2>2. RenameAhead' /\ EntryBehind' /\ ReadBehind'
    BY <1>0, <2>1
       DEF Healing, RenameAhead, EntryBehind, ReadBehind, Behind, FileAhead, Tok
  <2> QED BY <1>1, <2>2 DEF Healing
<1>3. CASE Login
  <2>1. file'.mtime = writes + 1 /\ file'.refresh \in {0, issued + 1}
    BY <1>3 DEF Login
  <2>2. /\ 0 \notin spent /\ issued + 1 \notin spent
        /\ fileMod < writes + 1 /\ watcher.mtime < writes + 1
    BY BoundAssumption DEF TypeOK, Cred, Stamped, WatcherType
  <2>3. RenameAhead'
    BY <1>0, <2>1, <2>2 DEF RenameAhead
  <2>4. EntryBehind' /\ ReadBehind'
    BY <1>0, <2>1, <2>2 DEF Healing, EntryBehind, ReadBehind, Behind, FileAhead, Tok
  <2> QED BY <1>1, <2>3, <2>4 DEF Healing
<1> QED
  BY <1>2, <1>3

LEMMA HealStep ==
    /\ TypeOK /\ FileInv /\ LockInv /\ HealInv /\ [Next]_vars => HealInv'
<1> SUFFICES ASSUME TypeOK, FileInv, LockInv, HealInv, [Next]_vars PROVE HealInv'
  OBVIOUS
<1>1. DroppedStaysDropped' /\ Stamped'
  BY DroppedStep, StampedStep DEF HealInv
<1>2. FileInv'
  BY FileStep
<1>3. ASSUME ~orphaned' PROVE Healing'
  <2>1. CASE Crash
    BY <2>1 DEF Crash, IdleWatcher, Healing, Fresh, RenameAhead, EntryBehind, ReadBehind, Bearing
  <2>2. CASE ~Crash
    <3>1. ~orphaned
      BY <1>3, <2>2
         DEF Next, Begin, Run, Refresh, Check, GetLock, Lock, Post, WriteTemp, Rename, Commit,
             Adopt, Send, MarkInvalid, RemoveEntry, RemoveLock, Unlink, Scan, ReadDir, Stat, Parse,
             UpsertToken, DropEntry, DropLock, NoteFileMod, ForgetLock, Tick, Login, Delete, vars,
             storeVars
    <3>2. Healing /\ Stamped /\ DroppedStaysDropped
      BY <3>1 DEF HealInv, HealsUnlessOrphaned
    <3>3. CASE ~Rotates
      BY <1>2, <3>3, NothingRetired DEF FileInv
    <3>4. CASE Rotates
      <4>1. ASSUME NEW p \in Processes, Begin(p) \/ Run(p) PROVE Healing'
        BY <1>2, <3>1, <3>2, <3>4, <4>1, HealingQuietSteps, HealingRefreshSteps DEF Run, Refresh
      <4>2. CASE Scan
        BY <3>2, <4>2, HealingScan
      <4>3. CASE Tick \/ Login \/ Delete
        BY <3>2, <4>3, HealingWorld
      <4>4. CASE UNCHANGED vars
        BY <3>2, <4>4
           DEF vars, storeVars, diskVars, serverVars, Healing, Fresh, RenameAhead, EntryBehind,
               ReadBehind, Behind, FileAhead, Tok
      <4> QED BY <2>2, <4>1, <4>2, <4>3, <4>4 DEF Next
    <3> QED BY <3>3, <3>4
  <2> QED BY <2>1, <2>2
<1> QED
  BY <1>1, <1>3 DEF HealInv, HealsUnlessOrphaned

\* A reload that overtook a refresh is made good: while the store holds an
\* exchanged refresh token, either nothing is left of its replacement, or the
\* replacement is on its way to the store, or the next scan reloads the file.
THEOREM OvertakenEntryHeals == Spec => []SpentEntryHeals
<1>1. TypeOK /\ FileInv /\ LockInv /\ HealInv /\ [Next]_vars
        => (TypeOK /\ FileInv /\ LockInv /\ HealInv)'
  BY TypeStep, FileStep, LockStep, HealStep
<1>2. TypeOK /\ HealInv => SpentEntryHeals
  <2> SUFFICES ASSUME TypeOK, HealInv, entry # None, entry.refresh \in spent, ~orphaned,
                      entry.refresh \notin lost
               PROVE  \/ \E p \in Processes : pc[p] \in Holding /\ Tok(p) = entry.refresh
                      \/ file = None \/ ShouldReload(file.mtime)
    BY DEF SpentEntryHeals
  <2>1. Behind(entry.refresh, fileMod)
    BY DEF HealInv, HealsUnlessOrphaned, Healing, EntryBehind
  <2> QED BY <2>1 DEF Behind, FileAhead, ShouldReload, Bearing, Holding
<1> QED
  BY TypeInit, FileInit, LockInit, HealInit, <1>1, <1>2, PTL DEF Spec
=============================================================================
