---------------------------- MODULE WechatListener ----------------------------
(* The WeChat side of the IM gateway (pkg/messaging/wechat): the long poll of   *)
(* one bot, the goroutines that handle what it brings, the replier that keeps   *)
(* for each bot the token of every user, and the scan, logout and restart that  *)
(* replace the listener while the goroutines of the old one are still at work.  *)
EXTENDS Naturals, Sequences, FiniteSets, FiniteSetsExt

CONSTANTS
    Cases,              \* by bot, the messages its users send, in order; the accounts that are
                        \* logged in at first, then scanned or logged out; and the faults
    Bots, Users,
    Handlers,           \* goroutines a monitor may have at a time
    Listeners           \* listeners that may be alive together, the draining ones included

VARIABLES
    files,      \* on disk: credentials, sync buffers and user tokens, by bot
    server,     \* iLink: how many messages have come in, and where its last batch began
    lis,        \* the listeners, each with its monitor, goroutines and seenMsgs
    rep,        \* the replier
    web,        \* the scan and the logout under way
    reply,      \* the reply under way
    wlSeen      \* messages handled and lost, tokens that were saved, faults

wlVars == <<files, server, lis, rep, web, reply, wlSeen>>

-----------------------------------------------------------------------------
Inbox == wlSeen.case.inbox
None == <<>>
NoTokens == [u \in Users |-> 0]

(* LoadAllCredentials reads the files in the order of their names, and only    *)
(* the first account counts.                                                   *)
Primary == IF files.creds = {} THEN 0 ELSE Min(files.creds)

(* A new listener loads the sync buffer; what an older one saw is forgotten.   *)
Started(bot) ==
    [bot |-> bot, at |-> "poll", buf |-> files.buf[bot], rest |-> <<>>, stop |-> FALSE,
     seen |-> {}, expired |-> FALSE, hands |-> [h \in Handlers |-> None]]

(* ensureUserTokenBot: the cache is for one bot, and loaded when that changes. *)
Aligned(r, bot) ==
    IF r.bot = bot THEN r
    ELSE [r EXCEPT !.bot = bot, !.cache = IF bot = 0 THEN NoTokens ELSE files.tokens[bot]]

(* RefreshCredentials                                                          *)
Refreshed(r) == Aligned([r EXCEPT !.meta = {}, !.clients = {}], Primary)

NewReplier == [bot |-> 0, cache |-> NoTokens, meta |-> {}, clients |-> {}]

Init ==
    /\ \E c \in Cases :
          wlSeen = [case |-> c, handled |-> {}, lost |-> {}, saved |-> {}, twice |-> FALSE, faults |-> 0]
    /\ files = [creds |-> wlSeen.case.first, buf |-> [b \in Bots |-> 0], tokens |-> [b \in Bots |-> NoTokens]]
    /\ server = [b \in Bots |-> [in |-> 0, batch |-> 0]]
    /\ lis = [l \in Listeners |-> IF l = 1 /\ Primary # 0 THEN Started(Primary) ELSE None]
    /\ rep = Refreshed(NewReplier)
    /\ web = [login |-> "idle", logout |-> "idle", bot |-> 0]
    /\ reply = None

MayFail == wlSeen.faults < wlSeen.case.faults
Faulty == [wlSeen EXCEPT !.faults = @ + 1]

(* A user writes to the bot.                                                   *)
Arrives(b) ==
    /\ server[b].in < Len(Inbox[b])
    /\ server' = [server EXCEPT ![b].in = @ + 1]
    /\ UNCHANGED <<files, lis, rep, web, reply, wlSeen>>

-----------------------------------------------------------------------------
(* Run groups a batch by sender, the senders in the order they came in.        *)
BySender(from, msgs) ==
    LET senders == {msgs[i].user : i \in from .. Len(msgs)}
        Mine(u) == SelectSeq(SubSeq(msgs, from, Len(msgs)), LAMBDA m : m.user = u)
        Rank(u) == Min({i \in from .. Len(msgs) : msgs[i].user = u})
        Order(k) == CHOOSE u \in senders : Cardinality({v \in senders : Rank(v) < Rank(u)}) = k - 1
    IN  [k \in 1 .. Cardinality(senders) |-> Mine(Order(k))]

(* GetUpdates: without a buffer iLink sends its last batch again.              *)
Poll(l) ==
    LET b == lis[l].bot
        from == IF lis[l].buf = 0 THEN server[b].batch ELSE lis[l].buf
    IN
    /\ lis[l] # None /\ lis[l].at = "poll" /\ ~lis[l].stop
    /\ from < server[b].in
    /\ lis' = [lis EXCEPT ![l].at = "save", ![l].buf = server[b].in, ![l].expired = FALSE,
                  ![l].rest = BySender(from + 1, SubSeq(Inbox[b], 1, server[b].in))]
    /\ server' = [server EXCEPT ![b].batch = from]
    /\ UNCHANGED <<files, rep, web, reply, wlSeen>>

(* The session expired: a stale buffer is dropped, an empty one cannot help.   *)
SessionExpired(l) ==
    /\ lis[l] # None /\ lis[l].at = "poll" /\ ~lis[l].stop
    /\ MayFail /\ wlSeen' = Faulty
    /\ lis' = [lis EXCEPT ![l].expired = lis[l].buf = 0, ![l].buf = 0]
    /\ files' = IF lis[l].buf = 0 THEN files ELSE [files EXCEPT !.buf[lis[l].bot] = 0]
    /\ UNCHANGED <<server, rep, web, reply>>

(* saveBuf comes before the messages are handled; its failure is only logged.  *)
SaveBuf(l) ==
    /\ lis[l] # None /\ lis[l].at = "save"
    /\ lis' = [lis EXCEPT ![l].at = "dispatch"]
    /\ \/ files' = [files EXCEPT !.buf[lis[l].bot] = lis[l].buf] /\ wlSeen' = wlSeen
       \/ MayFail /\ wlSeen' = Faulty /\ files' = files
    /\ UNCHANGED <<server, rep, web, reply>>

(* One goroutine for each sender, as far as there is room.                     *)
Dispatch(l) ==
    /\ lis[l] # None /\ lis[l].at = "dispatch"
    /\ \E h \in Handlers :
          /\ lis[l].hands[h] = None /\ \A k \in Handlers : k < h => lis[l].hands[k] # None
          /\ lis' = [lis EXCEPT ![l].rest = Tail(@), ![l].at = IF Len(lis[l].rest) = 1 THEN "poll" ELSE @,
                        ![l].hands[h] = [at |-> "next", msgs |-> Head(lis[l].rest)]]
    /\ UNCHANGED <<files, server, rep, web, reply, wlSeen>>

(* The context of the listener is done: Run ends, also between two senders,    *)
(* and waits for its goroutines.                                               *)
Contents(msgs) == {msgs[i] : i \in DOMAIN msgs}
RunEnds(l) ==
    /\ lis[l] # None /\ lis[l].stop
    /\ lis[l].at \in {"poll", "dispatch"}
    /\ lis' = [lis EXCEPT ![l].at = "drain", ![l].rest = <<>>]
    /\ wlSeen' = [wlSeen EXCEPT !.lost = @ \cup UNION {Contents(lis[l].rest[k]) : k \in DOMAIN lis[l].rest}]
    /\ UNCHANGED <<files, server, rep, web, reply>>

Drained(l) ==
    /\ lis[l] # None /\ lis[l].at = "drain" /\ \A h \in Handlers : lis[l].hands[h] = None
    /\ lis' = [lis EXCEPT ![l] = None]
    /\ UNCHANGED <<files, server, rep, web, reply, wlSeen>>

-----------------------------------------------------------------------------
(* handleIncoming, for the first message of a goroutine.                       *)
Handles(l, h, at) == lis[l] # None /\ lis[l].hands[h] # None /\ lis[l].hands[h].at = at
Now(l, h) == Head(lis[l].hands[h].msgs)
Goes(l, h, at) == lis' = [lis EXCEPT ![l].hands[h].at = at]
Popped(hand) == IF Len(hand.msgs) = 1 THEN None ELSE [at |-> "next", msgs |-> Tail(hand.msgs)]

\* RegisterIncoming: a listener whose account was replaced registers nothing.
Incoming(l, h) ==
    LET mine == lis[l].bot = Primary
        new == Now(l, h) \notin lis[l].seen
    IN
    /\ Handles(l, h, "next")
    /\ lis' = IF new
              THEN [lis EXCEPT ![l].hands[h].at = IF mine THEN "ensure" ELSE "pass",
                               ![l].seen = @ \cup {Now(l, h)}]
              ELSE [lis EXCEPT ![l].hands[h] = Popped(@)]
    /\ rep' = IF new /\ mine
              THEN [rep EXCEPT !.meta = @ \cup {[msg |-> Now(l, h), bot |-> lis[l].bot]}]
              ELSE rep
    /\ UNCHANGED <<files, server, web, reply, wlSeen>>

(* storeUserToken looks at the account once more under the lock, and saves the *)
(* whole partition before it lets go.                                          *)
StoreUserToken(bot, m) ==
    LET cache == [rep.cache EXCEPT ![m.user] = m.id]
        users == {u \in Users : cache[u] # 0}
    IN
    IF rep.bot # bot \/ Primary # bot THEN UNCHANGED <<rep, files, wlSeen>>
    ELSE /\ rep' = [rep EXCEPT !.cache = cache]
         /\ \/ /\ files' = [files EXCEPT !.tokens[bot] = cache]
               /\ wlSeen' = [wlSeen EXCEPT !.saved = @ \cup {<<bot, u>> : u \in users}]
            \/ MayFail /\ wlSeen' = Faulty /\ files' = files

Ensure(l, h) ==
    /\ Handles(l, h, "ensure")
    /\ Goes(l, h, "store")
    /\ rep' = Aligned(rep, lis[l].bot)
    /\ UNCHANGED <<files, server, web, reply, wlSeen>>

Store(l, h) ==
    /\ Handles(l, h, "store")
    /\ Goes(l, h, "pass")
    /\ StoreUserToken(lis[l].bot, Now(l, h))
    /\ UNCHANGED <<server, web, reply>>

(* A lone "a" only refreshes the token; anything else goes to the gateway.     *)
OnMessage(l, h) ==
    /\ Handles(l, h, "pass")
    /\ lis' = [lis EXCEPT ![l].hands[h] = Popped(@)]
    /\ wlSeen' = [wlSeen EXCEPT !.handled = @ \cup {[by |-> l, msg |-> Now(l, h)]},
                                !.twice = @ \/ [by |-> l, msg |-> Now(l, h)] \in wlSeen.handled]
    /\ UNCHANGED <<files, server, rep, web, reply>>

-----------------------------------------------------------------------------
(* ReplyText, ReplyMedia: the reply goes through the bot that got the message. *)
ReplyText(meta) ==
    /\ reply = None /\ wlSeen.case.replies /\ meta.msg.kind # "refresh"
    /\ \E l \in Listeners : [by |-> l, msg |-> meta.msg] \in wlSeen.handled
    /\ meta.bot \in rep.clients \cup files.creds
    /\ reply' = [at |-> "sending", msg |-> meta.msg, bot |-> meta.bot]
    /\ UNCHANGED <<files, server, lis, rep, web, wlSeen>>

ReplySent ==
    /\ reply # None /\ reply.at = "sending"
    /\ reply' = IF reply.bot = Primary THEN [reply EXCEPT !.at = "ensure"] ELSE None
    /\ rep' = [rep EXCEPT !.clients = @ \cup {reply.bot}]
    /\ UNCHANGED <<files, server, lis, web, wlSeen>>

ReplyEnsures ==
    /\ reply # None /\ reply.at = "ensure"
    /\ reply' = [reply EXCEPT !.at = "store"]
    /\ rep' = Aligned(rep, reply.bot)
    /\ UNCHANGED <<files, server, lis, web, wlSeen>>

ReplyStores ==
    /\ reply # None /\ reply.at = "store"
    /\ reply' = None
    /\ StoreUserToken(reply.bot, reply.msg)
    /\ UNCHANGED <<server, lis, web>>

-----------------------------------------------------------------------------
(* Manager.Restart: the listener is told to stop and the next one starts.      *)
Free(ls) == {l \in Listeners : ls[l] = None}
Restarts ==
    LET stopped == [l \in Listeners |-> IF lis[l] = None THEN None ELSE [lis[l] EXCEPT !.stop = TRUE]]
    IN
    /\ Free(lis) # {}
    /\ rep' = Refreshed(rep)
    /\ lis' = IF Primary = 0 THEN stopped
              ELSE [stopped EXCEPT ![Min(Free(lis))] = Started(Primary)]
    \* A listener that takes the place of an older one has handled nothing yet.
    /\ wlSeen' = [wlSeen EXCEPT !.handled =
                     {[r EXCEPT !.by = IF lis[r.by] = None THEN 0 ELSE r.by] :
                        r \in {q \in @ : q.by # 0}} \cup {q \in @ : q.by = 0}]

(* WeChatLoginStatus: the scan is confirmed, the credentials are saved.        *)
LoginConfirmed(b) ==
    /\ web.login = "idle" /\ b \in wlSeen.case.scanned
    /\ web' = [web EXCEPT !.login = "restart"]
    /\ files' = [files EXCEPT !.creds = @ \cup {b}]
    /\ UNCHANGED <<server, lis, rep, reply, wlSeen>>

(* WeChatLogout: RemoveCredentials deletes the credentials, then the buffer,   *)
(* and an error there ends the request.                                        *)
LogoutCredentials(b) ==
    /\ web.logout = "idle" /\ b \in files.creds \cap wlSeen.case.leaves
    /\ \/ /\ files' = [files EXCEPT !.creds = @ \ {b}, !.buf[b] = 0]
          /\ web' = [web EXCEPT !.logout = "tokens", !.bot = b]
          /\ wlSeen' = wlSeen
       \/ /\ MayFail /\ wlSeen' = Faulty
          /\ files' = [files EXCEPT !.creds = @ \ {b}]
          /\ web' = [web EXCEPT !.logout = "done"]
    /\ UNCHANGED <<server, lis, rep, reply>>

LogoutTokens ==
    /\ web.logout = "tokens"
    /\ web' = [web EXCEPT !.logout = "restart"]
    /\ \/ /\ files' = [files EXCEPT !.tokens[web.bot] = NoTokens]
          /\ wlSeen' = [wlSeen EXCEPT !.saved = {p \in @ : p[1] # web.bot}]
       \/ MayFail /\ wlSeen' = Faulty /\ files' = files
    /\ UNCHANGED <<server, lis, rep, reply>>

WebRestart ==
    /\ \/ web.login = "restart" /\ web' = [web EXCEPT !.login = "done"]
       \/ web.logout = "restart" /\ web' = [web EXCEPT !.logout = "done"]
    /\ Restarts
    /\ UNCHANGED <<files, server, reply>>

(* The process dies with the messages it had in hand, and starts again.        *)
InHand(l) ==
    IF lis[l] = None THEN {}
    ELSE UNION {Contents(lis[l].rest[k]) : k \in DOMAIN lis[l].rest}
         \cup UNION {Contents(lis[l].hands[h].msgs) : h \in {k \in Handlers : lis[l].hands[k] # None}}

Crash ==
    /\ MayFail
    /\ wlSeen' = [Faulty EXCEPT !.lost = @ \cup UNION {InHand(l) : l \in Listeners},
                    !.handled = {[r EXCEPT !.by = 0] : r \in @}]
    /\ lis' = [l \in Listeners |-> IF l = 1 /\ Primary # 0 THEN Started(Primary) ELSE None]
    /\ rep' = Refreshed(NewReplier)
    /\ web' = [web EXCEPT !.login = IF @ = "idle" THEN @ ELSE "done",
                          !.logout = IF @ = "idle" THEN @ ELSE "done"]
    /\ reply' = None
    /\ UNCHANGED <<files, server>>

Next ==
    \/ \E b \in Bots : Arrives(b) \/ LoginConfirmed(b) \/ LogoutCredentials(b)
    \/ \E l \in Listeners :
          \/ Poll(l) \/ SessionExpired(l) \/ SaveBuf(l)
          \/ Dispatch(l) \/ RunEnds(l) \/ Drained(l)
          \/ \E h \in Handlers :
                Incoming(l, h) \/ Ensure(l, h) \/ Store(l, h) \/ OnMessage(l, h)
    \/ \E meta \in rep.meta : ReplyText(meta)
    \/ ReplySent \/ ReplyEnsures \/ ReplyStores
    \/ LogoutTokens \/ WebRestart \/ Crash

Spec == Init /\ [][Next]_wlVars

-----------------------------------------------------------------------------
(* No position that a monitor has reached, in memory or on disk, is beyond a   *)
(* message that nobody handled, has in hand, or was seen to lose: restarts,    *)
(* replays and the late saves of an old listener skip none.                    *)
Accounted ==
    {r.msg : r \in wlSeen.handled} \cup wlSeen.lost \cup UNION {InHand(l) : l \in Listeners}
Behind(b, n) == {Inbox[b][i] : i \in 1 .. n}

NothingSkipped ==
    /\ \A b \in Bots : Behind(b, files.buf[b]) \subseteq Accounted
    /\ \A l \in Listeners : lis[l] # None => Behind(lis[l].bot, lis[l].buf) \subseteq Accounted

(* One listener hands a message to the gateway once, replayed or not.          *)
OncePerListener == ~wlSeen.twice

(* A token is filed under the bot and the user that it came from, whichever    *)
(* account was replaced while it was stored.                                   *)
Issued(b, u) == {m.id : m \in {n \in Contents(Inbox[b]) : n.user = u}}
OwnTokens ==
    /\ \A b \in Bots, u \in Users : files.tokens[b][u] \in {0} \cup Issued(b, u)
    /\ rep.bot # 0 => \A u \in Users : rep.cache[u] \in {0} \cup Issued(rep.bot, u)

(* A user whose token was saved can be written to after any restart and any    *)
(* change of account and back, until the account is logged out.                *)
TokensSurvive ==
    \A p \in wlSeen.saved :
       /\ files.tokens[p[1]][p[2]] # 0
       /\ rep.bot = p[1] => rep.cache[p[2]] # 0

ListenerKept == NothingSkipped /\ OncePerListener /\ OwnTokens /\ TokensSurvive
=============================================================================
