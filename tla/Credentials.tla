---------------------------- MODULE Credentials ----------------------------
(* The credentials of one token: the copy in its JSON file, the copy in the     *)
(* TokenStore that requests are sent with, and the authorization server that    *)
(* exchanges a refresh token for new ones.  Proxy requests and usage-sync       *)
(* workers refresh under a per-token mutex, with the checks repeated inside it; *)
(* the watcher reloads the file when its mtime moves on; the operator logs in   *)
(* again or deletes the file; the process can be killed and started again.      *)
(* Tokens share none of this, so one is enough.  Cooldowns only keep requests   *)
(* away from a token and are left to Failover.tla.                              *)
EXTENDS Integers, FiniteSets

CONSTANTS
    Requests,           \* proxy requests handled at a time
    Workers,            \* syncOneToken calls running at a time
    Locks,              \* *sync.Mutex values RefreshLock may allocate
    NoLock,
    Rotates,            \* does the server retire an exchanged refresh token?
    Debounce, Interval, \* defaultRefreshGap and defaultRefreshWindow, in ticks
    None,               \* no entry in the store, no file
    MaxIssued, MaxTime  \* bounds: credentials issued, ticks of the clock

ASSUME ProcessAssumption == Requests \intersect Workers = {}
ASSUME LockAssumption == NoLock \notin Locks
ASSUME RotatesAssumption == Rotates \in BOOLEAN
ASSUME PeriodAssumption == Debounce \in Nat /\ Interval \in Nat /\ Debounce <= Interval
ASSUME BoundAssumption == MaxIssued \in Nat \ {0} /\ MaxTime \in Nat \ {0}

VARIABLES
    now,                \* the clock
    entry,              \* s.tokens[id], or None
    fileMod,            \* s.fileMod[path], 0 if absent
    lockEntry,          \* s.refreshes[id], or NoLock
    file,               \* the auth file, or None
    writes,             \* stamps the mtimes of its successive versions
    pc, call,           \* the requests and workers: label and local state
    watcher,            \* runTokenWatcher's, likewise
    issued,             \* credentials the server gave out so far: 1..issued
    spent,              \* refresh tokens that were exchanged for others
    rejected,           \* access tokens upstream answered 401 to
    lost,               \* history: spent, and what replaced them is gone
    orphaned            \* history: a mutex was dropped from the map while in use

storeVars == <<entry, fileMod, lockEntry, orphaned>>
diskVars == <<file, writes>>
serverVars == <<issued, spent, rejected, lost>>
vars == <<now, storeVars, diskVars, pc, call, watcher, serverVars>>

Processes == Requests \union Workers

\* A credential is its number, 0 the empty string; a time is its tick, 0 zero.
Cred == 0..issued
Time == 0..MaxTime

NewCall ==
    [phase |-> "stale", ref |-> 0, deactivated |-> FALSE, access |-> 0, last |-> 0,
     lock |-> NoLock, tok |-> 0, newAccess |-> 0, newRefresh |-> 0, wrote |-> 0, mtime |-> 0]
IdleWatcher == [pc |-> "idle", mtime |-> 0, access |-> 0, refresh |-> 0, last |-> 0]

Init ==
    /\ now \in Time \ {0}
    /\ entry = None /\ fileMod = 0 /\ lockEntry = NoLock /\ orphaned = FALSE
    /\ writes = 1
    /\ \E last \in 0..now : file = [access |-> 1, refresh |-> 1, last |-> last, mtime |-> 1]
    /\ issued = 1 /\ spent = {} /\ rejected = {} /\ lost = {}
    /\ pc = [p \in Processes |-> "idle"]
    /\ call = [p \in Processes |-> NewCall]
    /\ watcher = IdleWatcher

At(p, label) == pc[p] = label

Step(p, label, c) ==
    /\ pc' = [pc EXCEPT ![p] = label]
    /\ call' = [call EXCEPT ![p] = IF label = "idle" THEN NewCall ELSE c]

----------------------------------------------------------------------------
(* maybeRefreshTokenWithMode.  Locking and the snapshot that follows are one    *)
(* step, and so are the last access to the store and unlocking.                 *)

\* Labels with the mutex in hand, and those that will lock or unlock it.
Holding == {"post", "write", "rename", "commit"}
UsingLock == Holding \union {"lock"}

Held(l) == \E p \in Processes : pc[p] \in Holding /\ call[p].lock = l

TokenNeedsRefresh(last) == last # 0 /\ last < now - Interval

Debounced(last) == last # 0 /\ now - last < Debounce

\* Mutant: an empty refresh token is sent all the same.
RefreshTokenAssumed == FALSE

NoRefreshToken == entry.refresh = 0

\* No refresh asked for, or one was made moments ago.
Settled(p) ==
    IF call[p].phase = "stale" THEN ~TokenNeedsRefresh(entry.last) ELSE Debounced(entry.last)

TokenRefreshedSince(c) == entry.last > c.last \/ entry.access # c.access

\* Mutant: a refresh that failed is tried again until it works.
AfterEndlessRetry(p, result) ==
    IF result = "failed" THEN "check"
    ELSE IF result = "refreshed" THEN "adopt"
    ELSE IF call[p].phase = "stale" THEN "send"
    ELSE IF p \in Workers THEN "evict"
    ELSE IF result = "refused" THEN "markInvalid"
    ELSE "idle"

\* What the caller does with (refreshed, err): an error is "refused" if the
\* server answered 401, else "failed"; "kept" is (false, nil).
After(p, result) ==
    IF result = "refreshed" THEN "adopt"
    ELSE IF call[p].phase = "stale" THEN "send"
    ELSE IF p \in Workers THEN "evict"
    ELSE IF result = "refused" THEN "markInvalid"
    ELSE "idle"

Return(p, result) ==
    Step(p, After(p, result),
         [NewCall EXCEPT !.phase = call[p].phase, !.ref = call[p].ref])

Check(p) ==
    /\ At(p, "check")
    /\ IF entry = None THEN Return(p, "failed")
       ELSE IF NoRefreshToken \/ (call[p].phase = "stale" /\ ~TokenNeedsRefresh(entry.last))
       THEN Return(p, "kept")
       ELSE Step(p, "getlock", [call[p] EXCEPT !.access = entry.access, !.last = entry.last])
    /\ UNCHANGED <<now, storeVars, diskVars, watcher, serverVars>>

InUse == {call[p].lock : p \in Processes} \union {lockEntry}

\* Mutant: the new mutex is not entered into the map.
RefreshLockUnshared(l) ==
    \/ lockEntry # NoLock /\ l = lockEntry /\ UNCHANGED lockEntry
    \/ lockEntry = NoLock /\ l \in Locks \ InUse /\ UNCHANGED lockEntry

RefreshLock(l) ==
    \/ lockEntry # NoLock /\ l = lockEntry /\ UNCHANGED lockEntry
    \/ lockEntry = NoLock /\ l \in Locks \ InUse /\ lockEntry' = l

GetLock(p) ==
    /\ At(p, "getlock")
    /\ \E l \in Locks : RefreshLock(l) /\ Step(p, "lock", [call[p] EXCEPT !.lock = l])
    /\ UNCHANGED <<now, entry, fileMod, orphaned, diskVars, watcher, serverVars>>

Lock(p) ==
    /\ At(p, "lock")
    /\ ~Held(call[p].lock)
    /\ IF entry = None THEN Return(p, "failed")
       ELSE IF NoRefreshToken THEN Return(p, "kept")
       ELSE IF Settled(p)
       THEN Return(p, IF TokenRefreshedSince(call[p]) THEN "refreshed" ELSE "kept")
       ELSE Step(p, "post", [call[p] EXCEPT !.tok = entry.refresh])
    /\ UNCHANGED <<now, storeVars, diskVars, watcher, serverVars>>

Tok(p) == call[p].tok
Retired(p) == IF Rotates THEN {Tok(p)} ELSE {}

\* Mutant: the refresh token in the answer is not taken over.
OldRefreshToken(p) == Tok(p)

\* The one in the answer, or the old one if the answer has none.
NewRefreshToken(p) == IF Rotates THEN issued + 1 ELSE Tok(p)

\* refreshAccessToken: 401; no exchange for another reason; exchanged, but the
\* answer was lost, late or unusable; exchanged.
Post(p) ==
    /\ At(p, "post")
    /\ \/ \E result \in {"refused", "failed"} : Return(p, result) /\ UNCHANGED serverVars
       \/ /\ Tok(p) \notin spent
          /\ spent' = spent \union Retired(p)
          /\ lost' = lost \union Retired(p)
          /\ Return(p, "failed")
          /\ UNCHANGED <<issued, rejected>>
       \/ /\ Tok(p) \notin spent
          /\ issued < MaxIssued
          /\ issued' = issued + 1
          /\ spent' = spent \union Retired(p)
          /\ Step(p, "write", [call[p] EXCEPT !.newAccess = issued + 1,
                                  !.newRefresh = NewRefreshToken(p)])
          /\ UNCHANGED <<rejected, lost>>
    /\ UNCHANGED <<now, storeVars, diskVars, watcher>>

Abandon(p) ==
    /\ lost' = lost \union Retired(p)
    /\ Return(p, "failed")
    /\ UNCHANGED diskVars

\* updateAuthFileTokens up to closing the temporary file: the file must be
\* there, and its other fields are taken over.
WriteTemp(p) ==
    /\ At(p, "write")
    /\ \/ /\ file # None
          /\ writes' = writes + 1
          /\ Step(p, "rename", [call[p] EXCEPT !.mtime = writes + 1, !.wrote = now])
          /\ UNCHANGED <<file, lost>>
       \/ Abandon(p)
    /\ UNCHANGED <<now, storeVars, watcher, issued, spent, rejected>>

Rename(p) ==
    /\ At(p, "rename")
    /\ \/ /\ file' = [access |-> call[p].newAccess, refresh |-> call[p].newRefresh,
                      last |-> call[p].wrote, mtime |-> call[p].mtime]
          /\ Step(p, "commit", call[p])
          /\ UNCHANGED <<writes, lost>>
       \/ Abandon(p)
    /\ UNCHANGED <<now, storeVars, watcher, issued, spent, rejected>>

UpdateCredentials(access, refresh) ==
    entry' = IF entry = None THEN None
             ELSE [access |-> access, refresh |-> refresh, last |-> now, invalid |-> FALSE]

Commit(p) ==
    /\ At(p, "commit")
    /\ UpdateCredentials(call[p].newAccess, call[p].newRefresh)
    /\ Return(p, "refreshed")
    /\ UNCHANGED <<now, fileMod, lockEntry, orphaned, diskVars, watcher, serverVars>>

----------------------------------------------------------------------------
(* The callers: a proxy request once its token is selected, and syncOneToken.   *)

Begin(p) ==
    /\ At(p, "idle")
    /\ entry # None
    /\ ~entry.invalid
    /\ Step(p, "check", [NewCall EXCEPT !.ref = entry.access])
    /\ UNCHANGED <<now, storeVars, diskVars, watcher, serverVars>>

\* TokenSnapshot after a refresh.
Adopt(p) ==
    /\ At(p, "adopt")
    /\ Step(p, IF call[p].phase = "stale" THEN "send" ELSE "resend",
            [call[p] EXCEPT !.ref = IF entry = None THEN call[p].ref ELSE entry.access])
    /\ UNCHANGED <<now, storeVars, diskVars, watcher, serverVars>>

\* The upstream request with the access token at hand, or fetchUsage: accepted;
\* a 401; a deactivated workspace; failed or refused for another reason.
Send(p) ==
    /\ At(p, "send") \/ At(p, "resend")
    /\ \/ call[p].ref \notin rejected /\ Step(p, "idle", NewCall) /\ UNCHANGED rejected
       \/ /\ rejected' = rejected \union {call[p].ref}
          /\ IF At(p, "send") THEN Step(p, "check", [call[p] EXCEPT !.phase = "forced"])
             ELSE IF p \in Workers THEN Step(p, "evict", call[p])
             ELSE Step(p, "idle", NewCall)
       \/ Step(p, "evict", [call[p] EXCEPT !.deactivated = TRUE]) /\ UNCHANGED rejected
       \/ Step(p, "idle", NewCall) /\ UNCHANGED rejected
    /\ UNCHANGED <<now, storeVars, diskVars, watcher, issued, spent, lost>>

MarkInvalid(p) ==
    /\ At(p, "markInvalid")
    /\ entry' = IF entry = None THEN None ELSE [entry EXCEPT !.invalid = TRUE]
    /\ Step(p, "idle", NewCall)
    /\ UNCHANGED <<now, fileMod, lockEntry, orphaned, diskVars, watcher, serverVars>>

----------------------------------------------------------------------------
(* removeTokenAndFile: RemoveToken's critical sections, then os.Remove.         *)

ForgetEntry == entry' = None /\ fileMod' = 0

ForgetLock ==
    /\ lockEntry' = NoLock
    /\ orphaned' = \/ orphaned
                   \/ \E p \in Processes : pc[p] \in UsingLock /\ call[p].lock = lockEntry

RemoveEntry(p) ==
    /\ At(p, "evict")
    /\ IF entry = None
       THEN Step(p, "idle", NewCall) /\ UNCHANGED <<entry, fileMod>>
       ELSE Step(p, "evictLock", call[p]) /\ ForgetEntry
    /\ UNCHANGED <<now, lockEntry, orphaned, diskVars, watcher, serverVars>>

RemoveLock(p) ==
    /\ At(p, "evictLock")
    /\ ForgetLock
    /\ Step(p, "unlink", call[p])
    /\ UNCHANGED <<now, entry, fileMod, diskVars, watcher, serverVars>>

\* Whatever is at the path by now goes; a file that cannot be removed stays.
Unlink(p) ==
    /\ At(p, "unlink")
    /\ file' = None \/ UNCHANGED file
    /\ Step(p, "idle", NewCall)
    /\ UNCHANGED <<now, storeVars, writes, watcher, serverVars>>

Refresh(p) == Check(p) \/ GetLock(p) \/ Lock(p) \/ Post(p) \/ WriteTemp(p) \/ Rename(p) \/ Commit(p)

Run(p) ==
    \/ Refresh(p)
    \/ Adopt(p)
    \/ Send(p)
    \/ MarkInvalid(p)
    \/ RemoveEntry(p)
    \/ RemoveLock(p)
    \/ Unlink(p)

----------------------------------------------------------------------------
(* The watcher: loadTokensFromDirChanged every ten seconds, and at startup.     *)

Watch(label, w) == watcher' = [w EXCEPT !.pc = label]

ReadDir ==
    /\ watcher.pc = "idle"
    /\ Watch(IF file = None THEN "prune" ELSE "stat", IdleWatcher)
    /\ UNCHANGED <<storeVars, diskVars>>

ShouldReload(mtime) == fileMod = 0 \/ mtime > fileMod

Stat ==
    /\ watcher.pc = "stat"
    /\ IF file # None /\ ShouldReload(file.mtime)
       THEN Watch("parse", [IdleWatcher EXCEPT !.mtime = file.mtime])
       ELSE Watch("idle", IdleWatcher)
    /\ UNCHANGED <<storeVars, diskVars>>

\* The file is gone, or is no credential JSON at this moment.
Parse ==
    /\ watcher.pc = "parse"
    /\ \/ /\ file # None
          /\ Watch("upsert", [watcher EXCEPT !.access = file.access, !.refresh = file.refresh,
                                             !.last = file.last])
       \/ Watch("drop", watcher)
    /\ UNCHANGED <<storeVars, diskVars>>

\* Mutant: the mtime is taken after the contents were read.
ModAfterReading == IF file = None THEN 0 ELSE file.mtime

ModTime == watcher.mtime

UpsertToken ==
    /\ watcher.pc = "upsert"
    /\ entry' = [access |-> watcher.access, refresh |-> watcher.refresh, invalid |-> FALSE,
                 last |-> IF watcher.last = 0 /\ entry # None THEN entry.last ELSE watcher.last]
    /\ fileMod' = ModTime
    /\ Watch("idle", IdleWatcher)
    /\ UNCHANGED <<lockEntry, orphaned, diskVars>>

\* RemoveToken, for "drop", and PruneMissingTokens, for "prune".
DropEntry ==
    /\ watcher.pc \in {"drop", "prune"}
    /\ IF entry = None
       THEN UNCHANGED <<entry, fileMod>> /\ Watch("note", watcher)
       ELSE ForgetEntry /\ Watch("dropLock", watcher)
    /\ UNCHANGED <<lockEntry, orphaned, diskVars>>

DropLock ==
    /\ watcher.pc = "dropLock"
    /\ ForgetLock
    /\ Watch("note", watcher)
    /\ UNCHANGED <<entry, fileMod, diskVars>>

\* NoteFileMod after a failed parse; nothing is noted after a prune.
NoteFileMod ==
    /\ watcher.pc = "note"
    /\ fileMod' = IF watcher.mtime = 0 THEN fileMod ELSE watcher.mtime
    /\ Watch("idle", IdleWatcher)
    /\ UNCHANGED <<entry, lockEntry, orphaned, diskVars>>

Scan ==
    /\ ReadDir \/ Stat \/ Parse \/ UpsertToken \/ DropEntry \/ DropLock \/ NoteFileMod
    /\ UNCHANGED <<now, pc, call, serverVars>>

----------------------------------------------------------------------------
(* The world.                                                                   *)

Tick ==
    /\ now < MaxTime
    /\ now' = now + 1
    /\ UNCHANGED <<storeVars, diskVars, pc, call, watcher, serverVars>>

\* The operator logs in again, with or without a refresh token and a date.
Login ==
    /\ issued < MaxIssued
    /\ issued' = issued + 1
    /\ writes' = writes + 1
    /\ \E refresh \in {0, issued + 1}, last \in {0, now} :
          file' = [access |-> issued + 1, refresh |-> refresh, last |-> last, mtime |-> writes + 1]
    /\ UNCHANGED <<now, storeVars, pc, call, watcher, spent, rejected, lost>>

Delete ==
    /\ file # None
    /\ file' = None
    /\ UNCHANGED <<now, storeVars, writes, pc, call, watcher, serverVars>>

InHand == {p \in Processes : pc[p] \in {"write", "rename"}}

\* Killed and started again: only the file and the server remember.
Crash ==
    /\ entry' = None /\ fileMod' = 0 /\ lockEntry' = NoLock /\ orphaned' = FALSE
    /\ pc' = [p \in Processes |-> "idle"]
    /\ call' = [p \in Processes |-> NewCall]
    /\ watcher' = IdleWatcher
    /\ lost' = lost \union UNION {Retired(p) : p \in InHand}
    /\ UNCHANGED <<now, diskVars, issued, spent, rejected>>

Next ==
    \/ \E p \in Processes : Begin(p) \/ Run(p)
    \/ Scan
    \/ Tick
    \/ Login
    \/ Delete
    \/ Crash

\* Calls run on: HTTP clients time out after 15 s and sync.Mutex hands the lock
\* to whoever waited longest, so no waiter is overtaken for ever.
Fairness == \A p \in Processes : WF_vars(Run(p)) /\ SF_vars(Lock(p))

Spec == Init /\ [][Next]_vars /\ Fairness

----------------------------------------------------------------------------
RefreshLabels == {"check", "getlock", "lock"} \union Holding
Labels ==
    RefreshLabels \union
    {"idle", "adopt", "send", "resend", "evict", "evictLock", "unlink", "markInvalid"}
WatcherLabels == {"idle", "stat", "parse", "upsert", "drop", "prune", "dropLock", "note"}

EntryType == [access : Cred, refresh : Cred, last : Time, invalid : BOOLEAN]
FileType == [access : Cred, refresh : Cred, last : Time, mtime : Nat]
CallType ==
    [phase : {"stale", "forced"}, ref : Cred, deactivated : BOOLEAN,
     access : Cred, last : Time, lock : Locks \union {NoLock}, tok : Cred,
     newAccess : Cred, newRefresh : Cred, wrote : Time, mtime : Nat]
WatcherType == [pc : WatcherLabels, mtime : Nat, access : Cred, refresh : Cred, last : Time]

\* Shapes, and the references between the parts: no credential and no time is
\* made up, only tokens the server gave out were spent, rejected or lost, and a
\* call that got to the exchange has a refresh token for it.
TypeOK ==
    /\ now \in Time /\ issued \in 1..MaxIssued /\ writes \in Nat
    /\ entry \in EntryType \union {None}
    /\ file \in FileType \union {None}
    /\ fileMod \in Nat
    /\ lockEntry \in Locks \union {NoLock}
    /\ orphaned \in BOOLEAN
    /\ pc \in [Processes -> Labels]
    /\ call \in [Processes -> CallType]
    /\ \A p \in Processes : pc[p] \in Holding => Tok(p) # 0
    /\ watcher \in WatcherType
    /\ spent \subseteq Cred \ {0} /\ lost \subseteq Cred \ {0} /\ rejected \subseteq Cred

\* The file never goes back to a refresh token that was exchanged already: it
\* holds one only while whoever exchanged it still has the replacement to write,
\* or after that replacement was lost on the way (an answer that never came, a
\* failed write, a kill).  So a restart finds credentials that still work.
FileUsable ==
    file # None /\ file.refresh \in spent =>
        file.refresh \in lost \/ \E p \in InHand : Tok(p) = file.refresh

\* At most one call at a time exchanges refresh tokens, unless the token was
\* removed under its feet and its mutex dropped from the map.
OneRefreshAtATime ==
    \A p, q \in Processes :
        pc[p] \in Holding /\ pc[q] \in Holding => p = q \/ orphaned

\* The store may hold an exchanged refresh token, for a reload can overtake a
\* refresh with what the file held before; but then its replacement is about to
\* be committed, or the file has a newer mtime and the next scan brings it in.
SpentEntryHeals ==
    entry # None /\ entry.refresh \in spent /\ ~orphaned =>
        \/ entry.refresh \in lost
        \/ \E p \in Processes : pc[p] \in Holding /\ Tok(p) = entry.refresh
        \/ file = None \/ ShouldReload(file.mtime)

\* README.md:129, "refreshes once and retries. If the token still stays
\* unauthorized": a usage sync removes a token as unauthorized only after the
\* access token the store holds for it was answered with a 401.
RemovedOnlyIfCurrentRejected ==
    [][\A w \in Workers :
         At(w, "evict") /\ ~call[w].deactivated /\ RemoveEntry(w) /\ entry # None
            => entry.access \in rejected]_vars

\* A refresh comes to an end: whoever waits for the mutex gets it, whatever the
\* holder's exchange and file write come to.
RefreshEnds ==
    \A p \in Processes : pc[p] \in RefreshLabels ~> pc[p] \notin RefreshLabels
=============================================================================
