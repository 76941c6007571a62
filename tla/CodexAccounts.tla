----------------------------- MODULE CodexAccounts -----------------------------
(* The Codex login profiles (services/agent/codexaccounts): a store of saved   *)
(* accounts, and the two files in the Codex home of which one account is the   *)
(* source. Codex itself, in a Run or outside Quartet, rotates the credentials  *)
(* in the live file; a switch replaces both files, and either of its writes    *)
(* may fail or be interrupted.                                                 *)
EXTENDS Naturals, FiniteSets, Functions, TLC

CONSTANTS
    Sessions,           \* login sessions: a session is the lineage of one refresh token
    IdentityOf,         \* the user and workspace of a session
    Configs,            \* contents of config.toml, or NoFile
    Starts,             \* what the store and the live files may hold at first, and what is asked
    Ids,                \* operations the client may start; an account is named after its own
    MaxGeneration, MaxFaults

VARIABLES
    store,      \* the accounts file
    live,       \* auth.json and config.toml
    svc,        \* the process: its gate on Codex, the replacement under way, recoveryError
    client,     \* the view a client has, and the operations it was told are done
    attempt,    \* the device login under way
    cxSeen      \* newest generation by session, sessions overwritten, faults

cxVars == <<store, live, svc, client, attempt, cxSeen>>

-----------------------------------------------------------------------------
None == <<>>
NoFile == "none"
Idle == [at |-> "idle", op |-> None, gate |-> "free", broken |-> FALSE]

(* StoredCodexAccount: credentials are told apart by session and generation.   *)
Account(auth, cfg) == [who |-> IdentityOf[auth.s], auth |-> auth, cfg |-> cfg]

(* response: the account that the live credentials are known to belong to.     *)
Managed(st, files) ==
    IF /\ st.active \in DOMAIN st.accts /\ files.auth # None
       /\ IdentityOf[files.auth.s] = st.accts[st.active].who
    THEN st.active ELSE 0

(* reconcile: live credentials of the active account go back into its record,  *)
(* and into the records that hold the same snapshot.                           *)
Reconciled(st, files) ==
    LET x == Managed(st, files)
        Same(y) == st.accts[y].who = st.accts[x].who /\ st.accts[y].auth = st.accts[x].auth
        auths == [y \in DOMAIN st.accts |->
                    IF Same(y) THEN [st.accts[y] EXCEPT !.auth = files.auth] ELSE st.accts[y]]
    IN  IF x = 0 THEN st
        ELSE [st EXCEPT !.accts = IF st.applied THEN [auths EXCEPT ![x].cfg = files.cfg] ELSE auths]

Reconciles(st, files) ==
    LET new == Reconciled(st, files)
    IN  IF new = st THEN st ELSE [new EXCEPT !.rev = @ + 1]

Ended(st, op, status) ==
    [st EXCEPT !.rev = @ + 1, !.ops = (op.id :> [req |-> op.req, status |-> status]) @@ @]

First(start) ==
    LET held == {start.store.accts[x].auth : x \in DOMAIN start.store.accts} \cup {start.live.auth}
    IN  [gen |-> [s \in Sessions |-> IF [s |-> s, g |-> 1] \in held THEN 1 ELSE 0],
         gone |-> {}, foreign |-> FALSE, done |-> [i \in Ids |-> 0], faults |-> 0,
         asks |-> start.asks]

Init ==
    /\ \E s \in Starts : store = s.store /\ live = s.live /\ cxSeen = First(s)
    /\ svc = Idle
    /\ client = [view |-> None, acked |-> {}]
    /\ attempt = None

MayFail == cxSeen.faults < MaxFaults
Faulty == [cxSeen EXCEPT !.faults = @ + 1]
\* A view is good for one state of the store and the files: one that is behind is refused.
Stale == client' = [client EXCEPT !.view = None]
Viewed == [client EXCEPT !.view = [rev |-> store'.rev, live |-> live]]
Free(s) == [s EXCEPT !.at = "idle", !.op = None, !.gate = IF s.broken THEN "kept" ELSE "free"]

-----------------------------------------------------------------------------
(* Codex refreshes its token: in a Run, or in a terminal at any time. Between  *)
(* the comparison of a replacement and its write the new token is overwritten. *)
\* So is one that belongs to no record in use: nobody looks after it.
Overwritten == IF svc.at = "writing" THEN {live'.auth.s} ELSE {}
Unmanaged == IF store.pending = None /\ Managed(store, live) = 0 THEN {live.auth.s} ELSE {}
Rotate ==
    /\ live.auth # None
    /\ live.auth.g = cxSeen.gen[live.auth.s] /\ live.auth.g < MaxGeneration
    /\ live' = [live EXCEPT !.auth.g = @ + 1]
    /\ cxSeen' = [cxSeen EXCEPT !.gen[live.auth.s] = @ + 1,
                               !.gone = @ \cup Overwritten \cup Unmanaged]
    /\ Stale
    /\ UNCHANGED <<store, svc, attempt>>

Newest(auth) == auth # None /\ auth.g = cxSeen.gen[auth.s]
InStore(st, s) == \E x \in DOMAIN st.accts : st.accts[x].auth.s = s /\ Newest(st.accts[x].auth)

(* The user signs in to a new session, outside Quartet.                        *)
SignIn(s) ==
    /\ cxSeen.gen[s] = 0
    /\ live' = [live EXCEPT !.auth = [s |-> s, g |-> 1]]
    /\ cxSeen' = [cxSeen EXCEPT !.gen[s] = 1,
                    !.foreign = @ \/ (live.auth # None /\ IdentityOf[live.auth.s] # IdentityOf[s]),
                    !.gone = @ \cup Overwritten \cup (IF live.auth = None THEN {} ELSE {live.auth.s})]
    /\ Stale
    /\ UNCHANGED <<store, svc, attempt>>

(* A Run of Codex holds the gate; its end looks at the live credentials.       *)
RunStart ==
    /\ svc.at = "idle" /\ svc.gate = "free"
    /\ svc' = [svc EXCEPT !.gate = "run"]
    /\ UNCHANGED <<store, live, client, attempt, cxSeen>>

(* List: a gate that was kept for a recovery is let go when none is pending.   *)
List(done) ==
    /\ svc.at = "idle" /\ done => svc.gate = "run"
    /\ svc' = IF done THEN [svc EXCEPT !.gate = "free"]
              ELSE IF svc.gate = "kept" /\ store.pending = None THEN Idle ELSE svc
    /\ \/ /\ store' = IF store.pending = None THEN Reconciles(store, live) ELSE store
          /\ client' = IF ~done THEN Viewed
                       ELSE IF store' = store THEN client ELSE [client EXCEPT !.view = None]
          /\ cxSeen' = cxSeen
       \/ /\ MayFail /\ cxSeen' = Faulty
          /\ store.pending = None /\ Reconciles(store, live) # store
          /\ UNCHANGED <<store, client>>
    /\ UNCHANGED <<live, attempt>>

-----------------------------------------------------------------------------
Request(action, acct, auth, cfg, apply) ==
    [action |-> action, acct |-> acct, auth |-> auth, cfg |-> cfg, apply |-> apply]
Keep == "keep"      \* a file that a request leaves alone

(* What an import, a capture or an update makes of an account.                 *)
Candidate(st, files, r) ==
    CASE r.action = "import" -> Account(r.auth, r.cfg)
      [] r.action = "capture" -> Account(files.auth, files.cfg)
      [] r.action = "update" -> Account(IF r.auth = None THEN st.accts[r.acct].auth ELSE r.auth,
                                        IF r.cfg = Keep THEN st.accts[r.acct].cfg ELSE r.cfg)
      [] OTHER -> IF r.acct = 0 THEN None ELSE st.accts[r.acct]

Possible(st, files, r) ==
    /\ r.acct # 0 => r.acct \in DOMAIN st.accts
    /\ r.action = "capture" => files.auth # None
    /\ r.action = "restore" => st.backup # None
    /\ r.action \in {"import", "capture", "update"} =>
          \A x \in DOMAIN st.accts \ {r.acct} :
             LET c == Candidate(st, files, r)
             IN  st.accts[x].auth # c.auth \/ st.accts[x].cfg # c.cfg

ReplacesFiles(st, files, r) ==
    \/ r.action \in {"activate", "restore"}
    \/ r.action = "update" /\ r.acct = Managed(st, files) /\ (r.auth # None \/ r.cfg # Keep)

(* The record changes of an operation; x is the account it is about.           *)
Recorded(st, files, op) ==
    LET r == op.req IN
    CASE r.action = "import" -> [st EXCEPT !.accts = op.id :> op.cand @@ @]
      [] r.action = "capture" -> [st EXCEPT !.accts = op.id :> op.cand @@ @, !.active = op.id,
                                            !.applied = files.cfg # NoFile]
      [] r.action = "update" -> [st EXCEPT !.accts[r.acct] = op.cand]
      [] r.action = "delete" ->
            [st EXCEPT !.accts = Restrict(@, DOMAIN @ \ {r.acct}),
                       !.active = IF @ = r.acct THEN 0 ELSE @,
                       !.applied = @ /\ st.active # r.acct]
      [] OTHER -> st

\* The user gives up a session when the record that has its newest credentials goes, or when an
\* older copy of them is put to use.
Dropped(st, r) ==
    IF r.action \in {"update", "delete"}
    THEN {store.accts[r.acct].auth.s} \ {s \in Sessions : InStore(st, s)} ELSE {}
Outdated(auth) == IF auth = None \/ Newest(auth) THEN {} ELSE {auth.s}

(* Mutate, up to the point where the files are replaced. A request that was    *)
(* sent before is answered from the record of operations.                      *)
MutateAgain(id) ==
    /\ svc.at = "idle" /\ id \in DOMAIN store.ops /\ store.ops[id].status = "completed"
    /\ client' = [client EXCEPT !.view = [rev |-> store.rev, live |-> live], !.acked = @ \cup {id}]
    /\ UNCHANGED <<store, live, svc, attempt, cxSeen>>

Sends(id, r) ==
    /\ svc.at = "idle" /\ id \notin DOMAIN store.ops /\ attempt # [id |-> id]
    /\ client.view = [rev |-> store.rev, live |-> live]
    /\ store.pending = None
    /\ Possible(store, live, r)

MutateRecords(id, r) ==
    LET op == [id |-> id, req |-> r, cand |-> Candidate(store, live, r)]
        st == Ended(Recorded(store, live, op), op, "completed")
    IN
    /\ Sends(id, r) /\ ~ReplacesFiles(store, live, r)
    /\ \/ /\ store' = st
          /\ client' = [Viewed EXCEPT !.acked = @ \cup {id}]
          /\ cxSeen' = [cxSeen EXCEPT !.done[id] = @ + 1,
                          !.foreign = @ /\ r.action # "capture",
                          !.gone = @ \cup Dropped(st, r)]
       \/ MayFail /\ cxSeen' = Faulty /\ UNCHANGED <<store, client>>
    /\ UNCHANGED <<live, svc, attempt>>

MutateFiles(id, r) ==
    /\ Sends(id, r) /\ ReplacesFiles(store, live, r) /\ svc.gate = "free"
    /\ svc' = [svc EXCEPT !.at = "gated", !.gate = "op",
                  !.op = [id |-> id, req |-> r, cand |-> Candidate(store, live, r), st |-> store,
                          files |-> live]]
    /\ UNCHANGED <<store, live, client, attempt, cxSeen>>

-----------------------------------------------------------------------------
(* What the replacement makes of the files and of the store.                   *)
After(st, op) ==
    LET r == op.req
        apply == IF r.action = "update" THEN st.applied /\ r.cfg # NoFile ELSE r.apply
        cand == IF r.action = "activate" THEN st.accts[r.acct]
                ELSE IF r.action = "update" /\ r.auth = None
                THEN [op.cand EXCEPT !.auth = st.accts[r.acct].auth] ELSE op.cand
    IN  IF r.action = "restore"
        THEN [files |-> st.backup.files, next |-> st.backup.managed, apply |-> st.backup.applied,
              cand |-> None]
        ELSE [files |-> [auth |-> cand.auth, cfg |-> IF apply THEN cand.cfg ELSE op.files.cfg],
              next |-> r.acct, apply |-> apply, cand |-> cand]

(* The gate is held: the files are read again, the live rotation is recorded,  *)
(* and the transaction is saved before a file is touched.                      *)
Gated ==
    LET op == svc.op
        st == Reconciled(op.st, op.files)
        after == After(st, op)
        pending == [before |-> [files |-> op.files, managed |-> Managed(st, op.files),
                                applied |-> st.applied],
                    after |-> after.files, op |-> [id |-> op.id, req |-> op.req]]
        saved == [st EXCEPT !.pending = pending, !.rev = @ + 1]
    IN
    /\ svc.at = "gated"
    /\ \/ /\ live = op.files /\ (after.apply /\ op.req.action # "restore" => after.cand.cfg # NoFile)
          /\ \/ /\ store' = saved
                /\ svc' = [svc EXCEPT !.at = "replace",
                             !.op = [id |-> op.id, req |-> op.req, cand |-> after.cand, st |-> saved,
                                     next |-> after.next, apply |-> after.apply, back |-> FALSE,
                                     from |-> op.files, to |-> after.files]]
                /\ cxSeen' = cxSeen /\ Stale
             \/ MayFail /\ cxSeen' = Faulty /\ svc' = Free(svc) /\ UNCHANGED <<store, client>>
       \/ /\ live # op.files \/ (after.apply /\ op.req.action # "restore" /\ after.cand.cfg = NoFile)
          /\ svc' = Free(svc) /\ UNCHANGED <<store, client, cxSeen>>
    /\ UNCHANGED <<live, attempt>>

(* ReplaceFiles compares a file and then writes it, one after the other. Under *)
(* failedTransaction and recover it goes back to the files of before.          *)
Goes(at) == svc' = [svc EXCEPT !.at = at]
Fails == IF svc.op.back THEN svc' = Free([svc EXCEPT !.broken = TRUE]) ELSE Goes("failed")

ReplaceAuth ==
    /\ svc.at = "replace"
    /\ \/ svc.op.from.auth = svc.op.to.auth /\ Goes("config") /\ cxSeen' = cxSeen
       \/ /\ svc.op.from.auth # svc.op.to.auth /\ cxSeen' = cxSeen
          /\ IF live.auth = svc.op.from.auth THEN Goes("writing") ELSE Fails
       \/ MayFail /\ cxSeen' = Faulty /\ Fails
    /\ UNCHANGED <<store, live, client, attempt>>

WriteAuth ==
    /\ svc.at = "writing"
    /\ live' = [live EXCEPT !.auth = svc.op.to.auth]
    /\ Goes("config")
    /\ UNCHANGED <<store, client, attempt, cxSeen>>

ReplaceConfig ==
    /\ svc.at = "config"
    /\ \/ live' = [live EXCEPT !.cfg = svc.op.to.cfg] /\ Goes("verify") /\ cxSeen' = cxSeen
       \/ MayFail /\ cxSeen' = Faulty /\ Fails /\ live' = live
    /\ UNCHANGED <<store, client, attempt>>

Verify ==
    /\ svc.at = "verify"
    /\ IF live = svc.op.to THEN Goes("save") ELSE Fails
    /\ UNCHANGED <<store, live, client, attempt, cxSeen>>

(* The last save of Mutate makes the switch good.                              *)
Switched(op) ==
    LET st == op.st
        there == op.next \in DOMAIN st.accts
        new == [st EXCEPT !.backup = st.pending.before, !.pending = None,
                  !.active = IF there THEN op.next ELSE 0, !.applied = there /\ op.apply]
    IN  Ended(Recorded(new, op.to, op), op, "completed")

Commit ==
    /\ svc.at = "save" /\ ~svc.op.back
    /\ LET op == svc.op st == Switched(op) IN
       \/ /\ store' = st
          /\ svc' = Free(svc)
          /\ client' = [client EXCEPT !.view = [rev |-> st.rev, live |-> op.to], !.acked = @ \cup {op.id}]
          /\ cxSeen' = [cxSeen EXCEPT !.done[op.id] = @ + 1, !.foreign = (@ /\ live # op.to) \/ op.req.action = "restore",
                          !.gone = @ \cup Dropped(st, op.req) \cup Outdated(op.to.auth)]
       \/ MayFail /\ cxSeen' = Faulty /\ Goes("failed") /\ UNCHANGED <<store, client>>
    /\ UNCHANGED <<live, attempt>>

(* Rollback accepts either side of each file and refuses anything else.        *)
Restores(p) ==
    IF /\ live.auth \in {p.before.files.auth, p.after.auth}
       /\ live.cfg \in {p.before.files.cfg, p.after.cfg}
    THEN [at |-> "replace", gate |-> "op", broken |-> FALSE,
          op |-> p.op @@ [back |-> TRUE, from |-> live, to |-> p.before.files]]
    ELSE [Idle EXCEPT !.gate = "kept", !.broken = TRUE]

FailedTransaction ==
    /\ svc.at = "failed"
    /\ \/ svc' = Restores(store.pending) /\ cxSeen' = cxSeen
       \/ MayFail /\ cxSeen' = Faulty /\ svc' = Free([svc EXCEPT !.broken = TRUE])
    /\ UNCHANGED <<store, live, client, attempt>>

(* A restore while a transaction is pending tries the recovery again.          *)
MutateRecover ==
    /\ svc.at = "idle" /\ store.pending # None /\ svc.gate \in {"free", "kept"}
    /\ svc' = Restores(store.pending)
    /\ UNCHANGED <<store, live, client, attempt, cxSeen>>

(* recover: the store goes back to what it said before.                        *)
Recover ==
    LET p == store.pending
        st == [store EXCEPT !.pending = None, !.active = p.before.managed,
                            !.applied = p.before.applied]
    IN
    /\ svc.at = "save" /\ svc.op.back
    /\ \/ /\ store' = Ended(st, p.op, "rolled_back")
          /\ svc' = Idle
          /\ client' \in {client, Viewed}
          /\ cxSeen' = cxSeen
       \/ /\ MayFail /\ cxSeen' = Faulty
          /\ svc' = Free([svc EXCEPT !.broken = TRUE]) /\ UNCHANGED <<store, client>>
    /\ UNCHANGED <<live, attempt>>

(* The process dies and starts again: Initialize recovers before it serves.    *)
Restart ==
    /\ MayFail /\ cxSeen' = Faulty
    /\ svc' = IF store.pending = None THEN Idle ELSE Restores(store.pending)
    /\ attempt' = None
    /\ UNCHANGED <<store, live, client>>

-----------------------------------------------------------------------------
(* Login: Codex signs in in a home of its own; what it leaves there is saved.  *)
LoginStart(id) ==
    /\ svc.at = "idle" /\ attempt = None /\ id \notin DOMAIN store.ops
    /\ attempt' = [id |-> id]
    /\ UNCHANGED <<store, live, svc, client, cxSeen>>

SaveLogin(s) ==
    LET op == [id |-> attempt.id, req |-> Request("login", 0, None, NoFile, FALSE)]
        new == [store EXCEPT !.accts = op.id :> Account([s |-> s, g |-> 1], NoFile) @@ @]
    IN
    /\ svc.at = "idle" /\ attempt # None /\ cxSeen.gen[s] = 0
    /\ attempt' = None
    /\ \/ /\ store' = Ended(new, op, "completed") /\ Stale
          /\ cxSeen' = [cxSeen EXCEPT !.gen[s] = 1, !.done[op.id] = @ + 1]
       \/ MayFail /\ cxSeen' = [Faulty EXCEPT !.gen[s] = 1] /\ UNCHANGED <<store, client>>
    /\ UNCHANGED <<live, svc>>

LoginEnds ==
    /\ svc.at = "idle" /\ attempt # None
    /\ attempt' = None
    /\ UNCHANGED <<store, live, svc, client, cxSeen>>

-----------------------------------------------------------------------------
Accts == DOMAIN store.accts
Old(s) == [s |-> s, g |-> 1]
Copy(s) == [s |-> s, g |-> cxSeen.gen[s]]
Requests ==
    {Request("import", 0, Copy(s), c, FALSE) : s \in {t \in Sessions : cxSeen.gen[t] > 0}, c \in Configs}
    \cup {Request("capture", 0, None, Keep, FALSE), Request("restore", 0, None, Keep, FALSE)}
    \cup {Request("update", x, Old(store.accts[x].auth.s), Keep, FALSE) : x \in Accts}
    \cup {Request("update", x, None, c, FALSE) : x \in Accts, c \in Configs}
    \cup {Request("activate", x, None, Keep, apply) : x \in Accts, apply \in BOOLEAN}
    \cup {Request("delete", x, None, Keep, FALSE) : x \in Accts}

Next ==
    \/ Rotate
    \/ \E s \in Sessions : ("sign in" \in cxSeen.asks /\ SignIn(s)) \/ SaveLogin(s)
    \/ RunStart
    \/ \E done \in BOOLEAN : List(done)
    \/ \E id \in Ids : MutateAgain(id) \/ ("login" \in cxSeen.asks /\ LoginStart(id))
    \/ \E id \in Ids, r \in Requests : r.action \in cxSeen.asks /\ (MutateRecords(id, r) \/ MutateFiles(id, r))
    \/ Gated \/ ReplaceAuth \/ WriteAuth \/ ReplaceConfig \/ Verify \/ Commit
    \/ FailedTransaction \/ MutateRecover \/ Recover \/ Restart
    \/ LoginEnds

Spec == Init /\ [][Next]_cxVars

-----------------------------------------------------------------------------
(* The credentials that Codex rotated while their account was in use are in    *)
(* the store or still live, however the switch away from it ended.             *)
NewestKept ==
    \A x \in Accts :
       LET s == store.accts[x].auth.s
       IN  s \in cxSeen.gone \/ InStore(store, s) \/ (Newest(live.auth) /\ live.auth.s = s)

(* No Run starts while a replacement may have been left half done.             *)
WholeFiles == svc.at = "idle" /\ svc.gate \in {"free", "run"} => store.pending = None

(* What the store says is applied is what Codex reads, unless the user signed  *)
(* in to something else outside.                                               *)
AppliedIsLive ==
    svc.at = "idle" /\ store.pending = None /\ store.active # 0 /\ ~cxSeen.foreign =>
       /\ Managed(store, live) = store.active
       /\ store.applied => live.cfg = store.accts[store.active].cfg

(* No record gets the credentials of somebody else, an operation that was      *)
(* answered is on record, and none is carried out twice.                       *)
OperationsKept ==
    /\ \A x \in Accts : store.accts[x].who = IdentityOf[store.accts[x].auth.s]
    /\ \A id \in client.acked : id \in DOMAIN store.ops /\ store.ops[id].status = "completed"
    /\ \A id \in Ids : cxSeen.done[id] <= 1

CodexKept == NewestKept /\ WholeFiles /\ AppliedIsLive /\ OperationsKept
=============================================================================
