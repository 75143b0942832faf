---------------------------- MODULE FeatureSwitches ----------------------------
(***************************************************************************)
(* The feature switches of the chats of a process.  Every chat reads its   *)
(* switches from a URL its session identity determines; chats with the     *)
(* same URL share one read, which a language binding performs and reports, *)
(* and which is followed by a refresh or a retry as long as a chat waits   *)
(* for it.                                                                 *)
(*                                                                         *)
(* A chat has its own lock (features), the shared reads another (REQUESTS) *)
(* and the flags of a chat are a cell (Arc<Flags>) that the read refers to *)
(* weakly.  start_features holds the chat's lock throughout and takes the  *)
(* shared one in the middle, so it is two steps here.  Clocks are left     *)
(* out: a read's deadline passes at any time, and a GET ends at any time   *)
(* after it began.  With them go the delays before retries and refreshes,  *)
(* and the count of failures that sets them.                               *)
(***************************************************************************)
EXTENDS Integers, FiniteSets

CONSTANTS
    Threads,    \* threads creating, identifying and dropping chats
    Chats,      \* places for chats: one that is dropped may be created anew
    Users,      \* user ids set_identity is given
    NoUser,     \* no session identity
    UrlOf,      \* the URL of each identity: users of one bucket share theirs
    MaxReads,   \* bound on the read ids in use at once
    MaxCells,   \* bound on the flag cells: one more than there are chats
    MaxEpoch    \* bound on the changes of what the server answers

ASSUME NoUserAssumption == NoUser \notin Users
ASSUME BoundsAssumption ==
    /\ MaxReads \in Nat /\ MaxEpoch \in Nat
    /\ IsFiniteSet(Chats) /\ MaxCells = Cardinality(Chats) + 1

Identities == Users \cup {NoUser}
Urls == {UrlOf[i] : i \in Identities}
Cells == 1 .. MaxCells
NoCell == 0
ReadIds == 1 .. MaxReads
NoRead == 0
Epochs == 0 .. MaxEpoch
NoUrl == "no url"
NoChat == "no chat"

ASSUME UrlsAssumption ==
    {NoUrl, "nobody", "caller", "no answer"} \cap Urls = {}

(***************************************************************************)
(* What a cell holds: no flag on, the flags of an answer of a URL, told    *)
(* apart by the epoch of the server that gave it, or those of an answer    *)
(* the caller passed to set_feature_switches.                              *)
(***************************************************************************)
Flags(from, epoch) == [from |-> from, epoch |-> epoch]
AllOff == Flags("nobody", 0)
FromCaller == Flags("caller", 0)
NoAnswer == Flags("no answer", 0)
AnswersOf(u) == {Flags(u, e) : e \in Epochs}

VARIABLES
    identity,   \* owner_user_id of each chat
    url,        \* the URL of the read it takes part in
    cell,       \* its flag cell; NoCell: there is no such chat
    flags,      \* what each cell holds
    requests,   \* by_url: the read of each URL
    gets,       \* the GETs the bindings have under way
    at,         \* what each thread does next
    on,         \* the chat it does it to
    fetch,      \* the GET the core handed it
    server      \* the epoch of the server's answer at each URL

chatVars == <<identity, url, cell>>
vars == <<identity, url, cell, flags, requests, gets, at, on, fetch, server>>

\* A URL without an entry is one nobody waits at and that holds no answer.  An
\* entry abandoned by its binding has no id and is past its deadline.
NoRequest == [id |-> NoRead, expired |-> TRUE, chats |-> {}, answer |-> NoAnswer]

NoGet == [id |-> NoRead, url |-> NoUrl, since |-> 0]

Alive(ch) == cell[ch] # NoCell

\* strong_count() > 0
Live(c) == \E ch \in Chats : cell[ch] = c

\* A cell for new flags.  The reference a read keeps to a dead cell never comes
\* to life again (a Weak keeps its allocation, so ptr_eq cannot take a new cell
\* for it); here the cell is used again, and such references are let go.
NewCell == CHOOSE c \in Cells : ~Live(c)

LetGo(c) == [u \in Urls |-> [requests[u] EXCEPT !.chats = @ \ {c}]]

\* A new read id.  The counter in the code never repeats one; here an id is
\* free once no read, GET or thread has it.
FreeIds ==
    ReadIds \ ({requests[u].id : u \in Urls} \cup {g.id : g \in gets}
               \cup {fetch[t].id : t \in Threads})

NewId == CHOOSE id \in FreeIds : TRUE

\* The features lock of a chat is free.
Unlocked(ch) == \A t \in Threads : ~(at[t] = "join" /\ on[t] = ch)

Init ==
    /\ identity = [ch \in Chats |-> NoUser]
    /\ url = [ch \in Chats |-> NoUrl]
    /\ cell = [ch \in Chats |-> NoCell]
    /\ flags = [c \in Cells |-> AllOff]
    /\ requests = [u \in Urls |-> NoRequest]
    /\ gets = {}
    /\ at = [t \in Threads |-> "idle"]
    /\ on = [t \in Threads |-> NoChat]
    /\ fetch = [t \in Threads |-> NoGet]
    /\ server = [u \in Urls |-> 0]

Goto(t, from, to) ==
    /\ at[t] = from
    /\ at' = [at EXCEPT ![t] = to]

-----------------------------------------------------------------------------
(***************************************************************************)
(* A chat: its creation, its identity, its end.                            *)
(***************************************************************************)

\* A binding creates a chat, and will start its reads.
Create(t, ch) ==
    /\ ~Alive(ch)
    /\ Goto(t, "idle", "start")
    /\ on' = [on EXCEPT ![t] = ch]
    /\ cell' = [cell EXCEPT ![ch] = NewCell]
    /\ requests' = LetGo(NewCell)
    /\ UNCHANGED <<identity, url, flags, gets, fetch, server>>

\* set_identity, after which the binding starts the chat's reads again.
SetIdentity(t, ch, user) ==
    /\ Alive(ch)
    /\ Goto(t, "idle", "start")
    /\ on' = [on EXCEPT ![t] = ch]
    /\ identity' = [identity EXCEPT ![ch] = user]
    /\ UNCHANGED <<url, cell, flags, requests, gets, fetch, server>>

\* The last reference to a chat goes; no thread is in a call on it.
Drop(ch) ==
    /\ Alive(ch)
    /\ \A t \in Threads : on[t] # ch
    /\ identity' = [identity EXCEPT ![ch] = NoUser]
    /\ url' = [url EXCEPT ![ch] = NoUrl]
    /\ cell' = [cell EXCEPT ![ch] = NoCell]
    /\ flags' = [flags EXCEPT ![cell[ch]] = AllOff]
    /\ UNCHANGED <<requests, gets, at, on, fetch, server>>

CallerAnswers(ch) == url[ch] = NoUrl

\* set_feature_switches with an answer: taken only by a chat that reads none.
SetFeatureSwitches(ch) ==
    /\ Alive(ch)
    /\ Unlocked(ch)
    /\ CallerAnswers(ch)
    /\ flags' = [flags EXCEPT ![cell[ch]] = FromCaller]
    /\ UNCHANGED <<chatVars, requests, gets, at, on, fetch, server>>

-----------------------------------------------------------------------------
(***************************************************************************)
(* start_features: the chat takes part in the read of its identity's URL.  *)
(***************************************************************************)

\* A variant that stays with the first URL.
FirstUrl(ch) == IF url[ch] = NoUrl THEN UrlOf[identity[ch]] ELSE url[ch]

TargetUrl(ch) == UrlOf[identity[ch]]

Moves(ch) == url[ch] # NoUrl /\ url[ch] # TargetUrl(ch)

\* A variant that keeps the flags of the URL it leaves.
KeptCell(ch) == cell[ch]

CellAfter(ch) == IF Moves(ch) THEN NewCell ELSE cell[ch]

\* Under the features lock: the session identity is read, and a chat that
\* moves leaves its cell, which is the end of it, for a new one.
StartFeatures(t) ==
    LET ch == on[t] IN
    /\ at[t] = "start"
    /\ Unlocked(ch)
    /\ Goto(t, "start", "join")
    /\ url' = [url EXCEPT ![ch] = TargetUrl(ch)]
    /\ cell' = [cell EXCEPT ![ch] = CellAfter(ch)]
    /\ IF CellAfter(ch) = cell[ch]
       THEN UNCHANGED <<flags, requests>>
       ELSE /\ flags' = [flags EXCEPT ![cell[ch]] = AllOff]
            /\ requests' = LetGo(CellAfter(ch))
    /\ UNCHANGED <<identity, gets, on, fetch, server>>

\* A variant that lets a replaced read's chats go.
WaitingAlone(r, c) == {c}

\* The chats of a read once the chat of cell c joins it: the live ones.
WaitingWith(r, c) == {d \in r.chats : Live(d)} \cup {c}

\* A variant that hands over an answer there has not been.
UncheckedFlags(r, c) == r.answer

JoinedFlags(r, c) == IF r.answer = NoAnswer THEN flags[c] ELSE r.answer

\* Under both locks: the chat takes the latest answer at once, and joins the
\* read under way; otherwise it starts one, which takes over the chats and the
\* answer of the read it replaces.
Join(t) ==
    LET ch == on[t]
        u == url[ch]
        r == requests[u]
    IN
    /\ at[t] = "join"
    /\ flags' = [flags EXCEPT ![cell[ch]] = JoinedFlags(r, cell[ch])]
    /\ on' = [on EXCEPT ![t] = NoChat]
    /\ \/ /\ ~r.expired
          /\ Goto(t, "join", "idle")
          /\ requests' = [requests EXCEPT ![u].chats = WaitingWith(r, cell[ch])]
          /\ UNCHANGED fetch
       \/ /\ r.expired
          /\ FreeIds # {}
          /\ Goto(t, "join", "begin")
          /\ requests' = [requests EXCEPT
                ![u] = [id |-> NewId, expired |-> FALSE,
                        chats |-> WaitingWith(r, cell[ch]), answer |-> r.answer]]
          /\ fetch' = [fetch EXCEPT
                ![t] = [id |-> NewId, url |-> u, since |-> 0]]
    /\ UNCHANGED <<chatVars, gets, server>>

\* The binding begins the GET it was handed...
BeginGet(t) ==
    /\ Goto(t, "begin", "idle")
    /\ gets' = gets \cup {[fetch[t] EXCEPT !.since = server[fetch[t].url]]}
    /\ fetch' = [fetch EXCEPT ![t] = NoGet]
    /\ UNCHANGED <<chatVars, flags, requests, on, server>>

\* A variant that leaves the read registered.
LeftRegistered(r) == r

Abandoned(r) == [r EXCEPT !.id = NoRead, !.expired = TRUE]

\* ... or cannot, and abandons the read (pyo3's start_feature_read).
AbandonGet(t) ==
    /\ Goto(t, "begin", "idle")
    /\ requests' = [u \in Urls |-> IF requests[u].id = fetch[t].id
                                   THEN Abandoned(requests[u])
                                   ELSE requests[u]]
    /\ fetch' = [fetch EXCEPT ![t] = NoGet]
    /\ UNCHANGED <<chatVars, flags, gets, on, server>>

-----------------------------------------------------------------------------
(***************************************************************************)
(* The reads.                                                              *)
(***************************************************************************)

\* The server answers differently from now on.
ServerChanges(u) ==
    /\ server[u] < MaxEpoch
    /\ server' = [server EXCEPT ![u] = @ + 1]
    /\ UNCHANGED <<chatVars, flags, requests, gets, at, on, fetch>>

\* A read's deadline passes.
Expire(u) ==
    /\ requests[u].id # NoRead
    /\ ~requests[u].expired
    /\ requests' = [requests EXCEPT ![u].expired = TRUE]
    /\ UNCHANGED <<chatVars, flags, gets, at, on, fetch, server>>

\* A variant that takes any result for the URL's read.
ReadsOfUrl(g) == {g.url}

\* The URLs whose read GET g is the one of: one, or none if the read was
\* replaced or abandoned.
ReadsOf(g) == {u \in Urls : requests[u].id = g.id}

\* A variant that keeps chats that are gone.
AllWaiting(r) == r.chats

StillWaiting(r) == {c \in r.chats : Live(c)}

\* A variant that ends the reads when one fails.
RepeatsAfterAnswer(r, answer) == StillWaiting(r) # {} /\ answer # NoAnswer

\* Whether another read follows one: a refresh after an answer, a retry after
\* a result that is none, as long as a chat waits.
Repeats(r, answer) == StillWaiting(r) # {}

\* complete_fetch for GET g of the read of u: the answer, if it is one and in
\* time, goes to the chats that wait, and the next GET to the binding.
Finish(u, g, result) ==
    LET r == requests[u]
        answer == IF r.expired THEN NoAnswer ELSE result
        id == IF FreeIds # {} THEN NewId ELSE g.id
    IN
    /\ flags' = IF answer = NoAnswer THEN flags
                ELSE [c \in Cells |-> IF c \in StillWaiting(r) THEN answer
                                                               ELSE flags[c]]
    /\ IF Repeats(r, answer)
       THEN /\ requests' = [requests EXCEPT
                  ![u] = [id |-> id, expired |-> FALSE, chats |-> StillWaiting(r),
                          answer |-> IF answer = NoAnswer THEN r.answer ELSE answer]]
            /\ gets' = (gets \ {g}) \cup {[id |-> id, url |-> u, since |-> server[u]]}
       ELSE /\ requests' = [requests EXCEPT ![u] = NoRequest]
            /\ gets' = gets \ {g}

\* GET g ends with a result, an answer the server gave since it began or none
\* (a failure, a timeout, a response that is no answer); one whose read is
\* gone changes nothing.
Complete(g, result) ==
    /\ g \in gets
    /\ result = NoAnswer \/ result.epoch \in g.since .. server[g.url]
    /\ \/ \E u \in ReadsOf(g) : Finish(u, g, result)
       \/ /\ ReadsOf(g) = {}
          /\ gets' = gets \ {g}
          /\ UNCHANGED <<flags, requests>>
    /\ UNCHANGED <<chatVars, at, on, fetch, server>>

Next ==
    \/ \E t \in Threads :
          \/ \E ch \in Chats : Create(t, ch)
          \/ \E ch \in Chats, user \in Users : SetIdentity(t, ch, user)
          \/ StartFeatures(t)
          \/ Join(t)
          \/ BeginGet(t)
          \/ AbandonGet(t)
    \/ \E ch \in Chats : Drop(ch) \/ SetFeatureSwitches(ch)
    \/ \E u \in Urls : ServerChanges(u) \/ Expire(u)
    \/ \E g \in gets : \E result \in AnswersOf(g.url) \cup {NoAnswer} :
          Complete(g, result)

Spec == Init /\ [][Next]_vars

(***************************************************************************)
(* A call that began goes on, a binding begins the GET it was handed       *)
(* before the read's deadline, every GET ends (it has a timeout), and the  *)
(* server answers some read of each URL in time again and again: without   *)
(* that no client hears anything.                                          *)
(***************************************************************************)
BeginsInTime ==
    \A t \in Threads, u \in Urls :
        at[t] = "begin" /\ fetch[t].id = requests[u].id /\ requests'[u].expired
            => requests'[u].id = NoRead

AnswersInTime(u) ==
    \E g \in gets : \E result \in AnswersOf(u) :
        g.url = u /\ ~requests[u].expired /\ requests[u].id = g.id
           /\ Complete(g, result)

EndsGet(id) ==
    \E g \in gets : g.id = id
        /\ \E result \in AnswersOf(g.url) \cup {NoAnswer} : Complete(g, result)

Fairness ==
    /\ \A t \in Threads :
          WF_vars(StartFeatures(t) \/ Join(t) \/ BeginGet(t) \/ AbandonGet(t))
    /\ \A id \in ReadIds : WF_vars(EndsGet(id))
    /\ \A u \in Urls : SF_vars(AnswersInTime(u))

FairSpec == Init /\ [][Next /\ BeginsInTime]_vars /\ Fairness

-----------------------------------------------------------------------------
(***************************************************************************)
(* Properties.                                                             *)
(***************************************************************************)
Gets == [id : ReadIds \cup {NoRead}, url : Urls \cup {NoUrl}, since : Epochs]

CellValues == {AllOff, FromCaller} \cup UNION {AnswersOf(u) : u \in Urls}

\* The type of the state.
TypeOK ==
    /\ identity \in [Chats -> Identities]
    /\ url \in [Chats -> Urls \cup {NoUrl}]
    /\ cell \in [Chats -> Cells \cup {NoCell}]
    /\ flags \in [Cells -> CellValues]
    /\ requests \in [Urls -> [id : ReadIds \cup {NoRead}, expired : BOOLEAN,
                              chats : SUBSET Cells,
                              answer : CellValues \cup {NoAnswer}]]
    /\ gets \subseteq Gets
    /\ at \in [Threads -> {"idle", "start", "join", "begin"}]
    /\ on \in [Threads -> Chats \cup {NoChat}]
    /\ fetch \in [Threads -> Gets]
    /\ server \in [Urls -> Epochs]

\* A chat that started its reads waits in the read of its URL, whatever
\* replaced that read, and in no other.
WaitsAtItsUrl ==
    \A ch \in Chats : Alive(ch) /\ Unlocked(ch) =>
        \A u \in Urls : cell[ch] \in requests[u].chats <=> url[ch] = u

\* Once no start is due, a chat reads the URL of the identity set last,
\* although identity and start are two calls that race with another thread's.
ReadsItsIdentitysUrl ==
    \A ch \in Chats : Alive(ch) /\ (\A t \in Threads : on[t] # ch) =>
        url[ch] = UrlOf[identity[ch]]

\* The chats of a URL agree: each holds the latest answer of the read they
\* share, and none of another URL or of the caller.
SharesLatestAnswer ==
    \A ch \in Chats, u \in Urls :
        Alive(ch) /\ Unlocked(ch) /\ url[ch] = u =>
            IF requests[u].answer = NoAnswer
            THEN flags[cell[ch]] \notin UNION {AnswersOf(v) : v \in Urls}
            ELSE flags[cell[ch]] = requests[u].answer

\* A read others can join has a GET that will end it, under way or about to
\* begin; so no chat ever waits for a read nobody performs, unless it was
\* abandoned.
JoinableReadIsPerformed ==
    \A u \in Urls :
        requests[u].id # NoRead =>
            \/ \E g \in gets : g.id = requests[u].id /\ g.url = u
            \/ \E t \in Threads : at[t] = "begin" /\ fetch[t].id = requests[u].id

\* The flags a chat has of its URL are never replaced by ones the server gave
\* earlier, or by none, as long as it stays with that URL: a late result of a
\* read that was replaced changes nothing.
FlagsNeverGoBack ==
    [][\A ch \in Chats :
          Alive(ch) /\ Alive(ch)' /\ url'[ch] = url[ch] =>
              LET before == flags[cell[ch]]
                  after == flags'[cell'[ch]]
              IN  before.from = url[ch] =>
                     after.from = before.from /\ after.epoch >= before.epoch]_vars

\* Once all chats are gone for good, the reads stop.
ReadsStop ==
    <>[](\A ch \in Chats : ~Alive(ch)) => <>[](gets = {})

\* What the server answers for good reaches every chat that stays with its
\* URL, through any failures, retries and reads that were replaced, unless the
\* binding abandons the URL's read.
Hears(ch, u) ==
    \/ ~Alive(ch)
    \/ url[ch] # u
    \/ flags[cell[ch]] = Flags(u, MaxEpoch)
    \/ requests[u].id = NoRead

ChatsHearTheServer ==
    \A ch \in Chats, u \in Urls :
        Alive(ch) /\ url[ch] = u /\ server[u] = MaxEpoch ~> Hears(ch, u)
=============================================================================
