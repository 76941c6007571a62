------------------------------ MODULE AgentProbe ------------------------------
(* What is known of one Agent's runtime (services/agent/probe): whether it     *)
(* works in its environment, and the selections offered for a new session.     *)
(* Probes take up to half a minute and are shared; between them users select,  *)
(* the environment is edited, an account is switched, and the server dies.     *)
EXTENDS Naturals

CONSTANTS
    Callers,                        \* requests and background work under way
    Models,                         \* of the Agent; 1 is its default
    Picks,                          \* selections: what is selected, the model, the value
    MaxAsks, MaxEvents              \* validations asked for; edits, selections and faults

VARIABLES
    env,        \* the version of the environment in the settings
    sess,       \* acpSessionCache: current model and mode, and the thought level by model
    valid,      \* acpValidationCache: the validation for a version of the environment
    file,       \* the snapshot on disk, and whether a save of it is owed
    flight,     \* probes under way, by preferred model (0: none preferred)
    who,        \* of each caller: what it does, and what it has read
    cooling,    \* the last probe failed less than five minutes ago
    pbSeen      \* counts; the user's last selection, whether a validation crossed it, wipes

pbVars == <<env, sess, valid, file, flight, who, cooling, pbSeen>>

-----------------------------------------------------------------------------
None == <<>>
Idle == [at |-> "idle"]

Init ==
    /\ env = 0 /\ sess = None /\ valid = None /\ cooling = FALSE
    /\ file = [entry |-> None, owed |-> FALSE]
    /\ flight = [p \in Models \cup {0} |-> None]
    /\ who = [c \in Callers |-> Idle]
    /\ pbSeen = [asks |-> 0, events |-> 0, last |-> None, crossed |-> FALSE, wipes |-> 0, blind |-> FALSE]

MayFail == pbSeen.events < MaxEvents
Faulty == [pbSeen EXCEPT !.events = @ + 1]
Goes(c, state) == who' = [who EXCEPT ![c] = state]
Moves(c, at) == who' = [who EXCEPT ![c].at = at]

(* The thought levels by model: of one model; these, and otherwise those.      *)
LevelOf(m, v) == [x \in {m} |-> v]
Over(these, those) ==
    [m \in DOMAIN these \cup DOMAIN those |-> IF m \in DOMAIN these THEN these[m] ELSE those[m]]

(* The selection that is shown: the thought level belongs to the model.        *)
Shown(s) == [model |-> s.model, mode |-> s.mode, level |-> s.levels[s.model]]
FromShown(sel) == [model |-> sel.model, mode |-> sel.mode, levels |-> LevelOf(sel.model, sel.level)]

(* fetchACPSessionInfoForAgent: the Agent's own defaults, and the lists of the *)
(* preferred model.                                                            *)
Fresh(pref) ==
    [model |-> IF pref = 0 THEN 1 ELSE pref, mode |-> 1, levels |-> [m \in {1, pref} \ {0} |-> 1]]

(* Mutant: a refresh brings the Agent's defaults back.                         *)
MergedFresh(old, fresh) == IF old = None THEN fresh ELSE [fresh EXCEPT !.levels = Over(@, old.levels)]
(* mergeACPSessionInfoCache: what was selected stays, new lists come in.       *)
Merged(old, fresh) == IF old = None THEN fresh ELSE [old EXCEPT !.levels = Over(@, fresh.levels)]

Matched == valid # None /\ valid.ver = env
Offered == Matched /\ valid.ok

-----------------------------------------------------------------------------
(* A validation is asked for: by a Run that needs the Agent, by the refresh    *)
(* behind a list, one at a time and not while it cools down, or by an edit.    *)
Asked(kind, ver) == [at |-> "asked", kind |-> kind, pref |-> 0, ver |-> ver]
Asking == pbSeen.asks < MaxAsks /\ pbSeen' = [pbSeen EXCEPT !.asks = @ + 1]

Refreshing == \E c \in Callers : who[c].at # "idle" /\ who[c].kind = "refresh"
RefreshAsync(c) ==
    /\ who[c] = Idle /\ ~Refreshing /\ ~cooling /\ Asking
    /\ Goes(c, Asked("refresh", env))
    /\ UNCHANGED <<env, sess, valid, file, flight, cooling>>

(* ensureBindingAvailable: what is cached decides, a first validation that has *)
(* not ended included.                                                         *)
EnsureAvailable(c) ==
    /\ who[c] = Idle /\ pbSeen.asks < MaxAsks
    /\ LET seen == [pbSeen EXCEPT !.asks = @ + 1] IN
       \/ /\ ~Matched
          /\ Goes(c, Asked("run", env)) /\ pbSeen' = seen
       \/ /\ Matched /\ valid.ok /\ file.owed
          /\ Goes(c, [at |-> "stored", kind |-> "run"]) /\ pbSeen' = seen
       \/ /\ Matched /\ ~valid.ok
          /\ pbSeen' = [seen EXCEPT !.blind = @ \/ ~valid.ended]
          /\ UNCHANGED who
    /\ UNCHANGED <<env, sess, valid, file, flight, cooling>>

(* markValidationRefreshing                                                    *)
Mark(c) ==
    LET new == [ver |-> who[c].ver, ok |-> FALSE, ended |-> FALSE, sel |-> None, under |-> 0,
                joined |-> FALSE, wipes |-> 0, refreshing |-> TRUE]
    IN
    /\ who[c].at = "asked"
    /\ valid' = IF valid # None /\ valid.ver = who[c].ver THEN [valid EXCEPT !.refreshing = TRUE]
                ELSE new
    /\ Moves(c, "probing")
    /\ UNCHANGED <<env, sess, file, flight, cooling, pbSeen>>

(* refreshACPSessionCacheEntry: callers that prefer the same model share one   *)
(* probe; it runs in the environment it finds when it starts.                  *)
Fly(c) ==
    LET p == who[c].pref IN
    /\ who[c].at = "probing"
    /\ flight' = IF flight[p] # None THEN flight
                 ELSE [flight EXCEPT ![p] = [under |-> env, wipes |-> pbSeen.wipes, by |-> c]]
    /\ Moves(c, "flying")
    /\ UNCHANGED <<env, sess, valid, file, cooling, pbSeen>>

(* validateBindingWithEnvironment: the version is the one the caller came with.*)
Validated(c, f, result) ==
    [at |-> "landed", kind |-> who[c].kind, ver |-> who[c].ver,
     got |-> [ok |-> result.ok, sel |-> result.sel, under |-> f.under, wipes |-> f.wipes,
             joined |-> f.by # c]]

(* The probe ends: its result is merged under the lock and handed to all.      *)
Land(p) ==
    LET f == flight[p]
        Aboard(c) == who[c].at = "flying" /\ who[c].pref = p
        After(c, result) ==
            IF who[c].kind = "preview" /\ result.ok THEN [who[c] EXCEPT !.at = "retry"]
            ELSE IF who[c].kind \in {"preview", "selected"} THEN Idle
            ELSE Validated(c, f, result)
        Hand(result) == who' = [c \in Callers |-> IF Aboard(c) THEN After(c, result) ELSE who[c]]
    IN
    /\ f # None
    /\ flight' = [flight EXCEPT ![p] = None]
    /\ \/ /\ sess' = Merged(sess, Fresh(p))
          /\ cooling' = FALSE
          /\ Hand([ok |-> TRUE, sel |-> Shown(sess')])
          /\ pbSeen' = pbSeen
       \/ /\ MayFail /\ pbSeen' = Faulty
          /\ cooling' = TRUE
          /\ Hand([ok |-> FALSE, sel |-> None])
          /\ UNCHANGED sess
    /\ UNCHANGED <<env, valid, file>>

(* StoreValidation: the version is compared before the lock is taken.          *)
StoreChecked(c) ==
    /\ who[c].at = "landed"
    /\ Moves(c, IF who[c].ver = env THEN "checked" ELSE "stored")
    /\ UNCHANGED <<env, sess, valid, file, flight, cooling, pbSeen>>

StoreEntry(c) ==
    LET newer == valid # None /\ valid.ver > who[c].ver
        got == who[c].got
        entry == [ok |-> got.ok, sel |-> got.sel, under |-> got.under, wipes |-> got.wipes,
                  joined |-> got.joined, ver |-> who[c].ver, ended |-> TRUE, refreshing |-> FALSE]
    IN
    /\ who[c].at = "checked"
    /\ valid' = IF newer THEN valid ELSE entry
    /\ Moves(c, IF newer \/ ~got.ok THEN "stored" ELSE "entered")
    /\ UNCHANGED <<env, sess, file, flight, cooling, pbSeen>>

StoreSelection(c) ==
    /\ who[c].at = "entered"
    /\ sess' = FromShown(who[c].got.sel)
    /\ Moves(c, "stored")
    /\ UNCHANGED <<env, valid, file, flight, cooling, pbSeen>>

-----------------------------------------------------------------------------
(* persistLocked and LoadPersisted hold persistMu, as an edit does from before *)
(* it invalidates until it has saved.                                          *)
PersistFree == \A c \in Callers : who[c].at \notin {"wiping", "wiped"}
Snapshot == IF valid = None THEN None ELSE [valid EXCEPT !.refreshing = FALSE]
Written ==
    \/ file' = [entry |-> Snapshot, owed |-> FALSE] /\ pbSeen' = pbSeen
    \/ MayFail /\ file' = [file EXCEPT !.owed = TRUE] /\ pbSeen' = Faulty

(* The refresh saves every ten minutes, or when a save is owed.                *)
Persist(c) ==
    /\ who[c].at = "stored" /\ PersistFree
    /\ Goes(c, Idle)
    /\ \/ Written
       \/ who[c].kind = "refresh" /\ ~file.owed /\ UNCHANGED <<file, pbSeen>>
    /\ UNCHANGED <<env, sess, valid, flight, cooling>>

Loads == file.entry # None /\ ~file.owed /\ valid = None
LoadPersisted ==
    /\ PersistFree /\ Loads
    /\ valid' = file.entry
    /\ sess' = IF file.entry.ok /\ sess = None THEN FromShown(file.entry.sel) ELSE sess
    /\ UNCHANGED <<env, file, flight, who, cooling, pbSeen>>

-----------------------------------------------------------------------------
(* SaveAgentEnvVars: the settings, then both caches and the file, then a new   *)
(* validation. An account switch is the same without the settings.             *)
Edit(c, saves) ==
    /\ who[c] = Idle /\ pbSeen.events < MaxEvents
    /\ \A d \in Callers : who[d].at # "idle" => who[d].kind # "edit"
    /\ env' = IF saves THEN env + 1 ELSE env
    /\ Goes(c, [at |-> "edited", kind |-> "edit", ver |-> env', saved |-> saves])
    /\ pbSeen' = [pbSeen EXCEPT !.events = @ + 1]
    /\ UNCHANGED <<sess, valid, file, flight, cooling>>

InvalidateSession(c) ==
    /\ who[c].at = "edited" /\ PersistFree
    /\ sess' = None
    /\ pbSeen' = [pbSeen EXCEPT !.last = None, !.crossed = FALSE]
    /\ Moves(c, "wiping")
    /\ UNCHANGED <<env, valid, file, flight, cooling>>

InvalidateValidation(c) ==
    /\ who[c].at = "wiping"
    /\ valid' = None /\ cooling' = FALSE
    /\ pbSeen' = [pbSeen EXCEPT !.wipes = @ + 1]
    /\ Moves(c, "wiped")
    /\ UNCHANGED <<env, sess, file, flight>>

PersistWiped(c) ==
    /\ who[c].at = "wiped"
    /\ Written
    /\ Goes(c, IF who[c].saved THEN Asked("run", who[c].ver) ELSE Idle)
    /\ UNCHANGED <<env, sess, valid, flight, cooling>>

-----------------------------------------------------------------------------
Crossed == \E c \in Callers : who[c].at \in {"landed", "checked", "entered"} /\ who[c].got.ok
Selected == [pbSeen EXCEPT !.last = Shown(sess'), !.crossed = @ \/ Crossed]

(* applyCachedPreviewSelection                                                 *)
Applied(target, m, v) ==
    CASE target = "model" -> [sess EXCEPT !.model = m]
      [] target = "mode" -> [sess EXCEPT !.mode = v]
      [] target = "level" -> [sess EXCEPT !.model = m, !.levels[m] = v]
Known(target, m) == sess # None /\ (target # "mode" => m \in DOMAIN sess.levels)

(* PreviewSetConfig: from the cache, with a refresh behind it; or after a      *)
(* probe, whose result is looked at once more.                                 *)
Preview(c, target, m, v) ==
    /\ who[c] = Idle /\ pbSeen.events < MaxEvents
    /\ LET seen == [pbSeen EXCEPT !.events = @ + 1] IN
       IF Known(target, m)
       THEN /\ sess' = Applied(target, m, v)
            /\ Goes(c, [at |-> "applied", kind |-> "selected", pref |-> m])
            /\ pbSeen' = [Selected EXCEPT !.events = @ + 1]
       ELSE /\ Goes(c, [at |-> "probing", kind |-> "preview", pref |-> m, want |-> <<target, m, v>>])
            /\ pbSeen' = seen
            /\ UNCHANGED sess
    /\ UNCHANGED <<env, valid, file, flight, cooling>>

PreviewAgain(c) ==
    LET w == who[c].want IN
    /\ who[c].at = "retry"
    /\ IF Known(w[1], w[2])
       THEN /\ sess' = Applied(w[1], w[2], w[3])
            /\ Moves(c, "applied")
            /\ pbSeen' = Selected
       ELSE /\ Goes(c, Idle) /\ UNCHANGED <<sess, pbSeen>>
    /\ UNCHANGED <<env, valid, file, flight, cooling>>

Mirrored(c) ==
    IF who[c].kind = "selected" THEN [at |-> "refresh", kind |-> "selected", pref |-> who[c].pref]
    ELSE Idle

(* mirrorValidationSelectorState: a copy is taken under one lock and written   *)
(* under another.                                                              *)
MirrorRead(c) ==
    /\ who[c].at = "applied"
    /\ IF sess = None THEN Goes(c, Mirrored(c))
       ELSE Goes(c, [at |-> "mirror", kind |-> who[c].kind, pref |-> who[c].pref, sel |-> Shown(sess)])
    /\ UNCHANGED <<env, sess, valid, file, flight, cooling, pbSeen>>

MirrorWrite(c) ==
    /\ who[c].at = "mirror"
    /\ valid' = IF valid = None THEN None ELSE [valid EXCEPT !.sel = who[c].sel]
    /\ Goes(c, Mirrored(c))
    /\ UNCHANGED <<env, sess, file, flight, cooling, pbSeen>>

(* refreshACPModelCacheAsync: not in the cool-down.                            *)
PreviewRefresh(c) ==
    /\ who[c].at = "refresh"
    /\ Goes(c, IF cooling THEN Idle ELSE [who[c] EXCEPT !.at = "probing"])
    /\ UNCHANGED <<env, sess, valid, file, flight, cooling, pbSeen>>

(* CacheACPConfigState: a live session's switch, mirrored under the lock. A    *)
(* change of the model brings the levels the session reported for it.          *)
LiveSwitch(target, m, v) ==
    LET base == IF sess = None THEN [model |-> m, mode |-> 1, levels |-> LevelOf(m, 1)] ELSE sess
        new == CASE target = "model" -> [base EXCEPT !.model = m, !.levels = Over(LevelOf(m, 1), @)]
                 [] target = "mode" -> [base EXCEPT !.mode = v]
                 [] target = "level" -> [base EXCEPT !.model = m, !.levels = Over(LevelOf(m, v), @)]
    IN
    /\ pbSeen.events < MaxEvents
    /\ sess # None \/ target = "model"
    /\ sess' = new
    /\ valid' = IF valid = None THEN None ELSE [valid EXCEPT !.sel = Shown(new)]
    /\ pbSeen' = [Selected EXCEPT !.events = @ + 1]
    /\ UNCHANGED <<env, file, flight, who, cooling>>

-----------------------------------------------------------------------------
CoolDown ==
    /\ cooling /\ cooling' = FALSE
    /\ UNCHANGED <<env, sess, valid, file, flight, who, pbSeen>>

Crash ==
    /\ MayFail
    /\ sess' = None /\ valid' = None /\ cooling' = FALSE
    /\ file' = [file EXCEPT !.owed = FALSE]
    /\ flight' = [p \in DOMAIN flight |-> None]
    /\ who' = [c \in Callers |-> Idle]
    /\ pbSeen' = [Faulty EXCEPT !.last = None, !.crossed = FALSE]
    /\ UNCHANGED env

Next ==
    \/ LoadPersisted \/ CoolDown \/ Crash
    \/ \E p \in DOMAIN flight : Land(p)
    \/ \E w \in Picks :
          LiveSwitch(w[1], w[2], w[3]) \/ \E c \in Callers : Preview(c, w[1], w[2], w[3])
    \/ \E c \in Callers :
          \/ RefreshAsync(c) \/ EnsureAvailable(c) \/ Mark(c) \/ Fly(c)
          \/ StoreChecked(c) \/ StoreEntry(c) \/ StoreSelection(c) \/ Persist(c)
          \/ \E saves \in BOOLEAN : Edit(c, saves)
          \/ InvalidateSession(c) \/ InvalidateValidation(c) \/ PersistWiped(c)
          \/ PreviewAgain(c) \/ MirrorRead(c) \/ MirrorWrite(c) \/ PreviewRefresh(c)

Spec == Init /\ [][Next]_pbVars

-----------------------------------------------------------------------------
(* An Agent is offered because it worked in the environment it has now, across *)
(* edits, files and restarts; unless its validation joined an older probe.     *)
OfferedOnOwnEnv == Offered /\ ~valid.joined => valid.under = env

(* What is shown as being validated is: somebody will store the result.        *)
RefreshingIsTended ==
    Matched /\ valid.refreshing =>
        \E c \in Callers : /\ who[c].at \in {"probing", "flying", "landed", "checked"}
                           /\ who[c].kind \notin {"preview", "selected"} /\ who[c].ver = env

(* Probes do not undo what a user has selected, unless he did so while the     *)
(* result of a validation was on its way from the Agent to the cache.          *)
SelectionKept ==
    pbSeen.last # None /\ sess # None /\ ~pbSeen.crossed => Shown(sess) = pbSeen.last

ProbeKept == OfferedOnOwnEnv /\ RefreshingIsTended /\ SelectionKept

(* The following do not hold.                                                  *)
OfferedOnOwnProbe == Offered => valid.under = env
SelectionStays == pbSeen.last # None /\ sess # None => Shown(sess) = pbSeen.last
MirrorAgrees ==
    (\A c \in Callers : who[c] = Idle) /\ valid # None /\ valid.sel # None /\ sess # None =>
        valid.sel = Shown(sess)
WipedStaysOut == Offered => valid.wipes = pbSeen.wipes
RefusalsEarned == ~pbSeen.blind
NewerStays == [][Offered /\ env' = env /\ valid' # None => valid'.ver = env]_pbVars
=============================================================================
