------------------------ MODULE FeatureSwitchesProofs ------------------------
(***************************************************************************)
(* Proofs, for any threads, chats, users, URLs and numbers of read ids and *)
(* answers, of the safety properties that the run feature_reads checks on  *)
(* a small instance.                                                       *)
(***************************************************************************)
EXTENDS FeatureSwitches, FiniteSetTheorems, TLAPS

Answers == UNION {AnswersOf(u) : u \in Urls}

\* A thread in start_features has a chat, alone once it holds the chat's lock.
CallsFit ==
    \A t \in Threads :
        /\ at[t] \in {"start", "join"} => on[t] \in Chats /\ Alive(on[t])
        /\ at[t] = "join" =>
              /\ url[on[t]] \in Urls
              /\ \A s \in Threads : at[s] = "join" /\ on[s] = on[t] => s = t

\* Cells are of one chat; one that is of none is off, and waits nowhere again.
CellsFit ==
    /\ \A ch \in Chats : ~Alive(ch) => url[ch] = NoUrl
    /\ \A ch, other \in Chats : Alive(ch) /\ cell[ch] = cell[other] => ch = other
    /\ \A c \in Cells : ~Live(c) => flags[c] = AllOff

\* The URL of a chat is its identity's, up to calls that will see to it.
UrlsFit ==
    \A ch \in Chats :
        Alive(ch) /\ (\A t \in Threads : ~(at[t] = "start" /\ on[t] = ch)) =>
            url[ch] = UrlOf[identity[ch]]

\* Ids of reads and of their GETs are unique, and a GET is of its read's URL.
IdsFit ==
    /\ \A u, v \in Urls : requests[u].id = requests[v].id /\ requests[u].id # NoRead => u = v
    /\ \A g \in gets :
          /\ g.id # NoRead /\ g.url \in Urls /\ g.since <= server[g.url]
          /\ \A u \in Urls : requests[u].id = g.id => g.url = u
          /\ \A h \in gets : h.id = g.id => h = g
    /\ \A t \in Threads :
          at[t] = "begin" =>
              /\ fetch[t].id # NoRead /\ fetch[t].url \in Urls
              /\ \A u \in Urls : requests[u].id = fetch[t].id => fetch[t].url = u
              /\ \A g \in gets : g.id # fetch[t].id
              /\ \A s \in Threads : at[s] = "begin" /\ fetch[s].id = fetch[t].id => s = t

\* The answer a read holds is of its URL, and no later than its next GET's.
AnswersFit ==
    \A u \in Urls :
        requests[u].answer # NoAnswer =>
            /\ requests[u].answer \in AnswersOf(u)
            /\ requests[u].answer.epoch <= server[u]
            /\ \A g \in gets : g.id = requests[u].id => requests[u].answer.epoch <= g.since

\* A chat that waits does so at its URL.
WaitsOnlyThere ==
    \A ch \in Chats, u \in Urls :
        Alive(ch) /\ cell[ch] \in requests[u].chats => url[ch] = u

\* It holds the read's answer, and one that waits nowhere holds none.
FlagsFit ==
    /\ \A ch \in Chats, u \in Urls :
          Alive(ch) /\ cell[ch] \in requests[u].chats =>
              IF requests[u].answer = NoAnswer
              THEN flags[cell[ch]] \notin Answers
              ELSE flags[cell[ch]] = requests[u].answer
    /\ \A ch \in Chats :
          Alive(ch) /\ (\A u \in Urls : cell[ch] \notin requests[u].chats) =>
              flags[cell[ch]] \notin Answers

\* The inductive invariant.
IInv ==
    /\ TypeOK
    /\ CallsFit
    /\ CellsFit
    /\ UrlsFit
    /\ IdsFit
    /\ AnswersFit
    /\ JoinableReadIsPerformed
    /\ WaitsOnlyThere
    /\ WaitsAtItsUrl
    /\ FlagsFit

-----------------------------------------------------------------------------
(***************************************************************************)
(* There is a cell for a chat that needs one, and a new id is nobody's.    *)
(***************************************************************************)
LEMMA NewCellIsFree ==
    ASSUME TypeOK
    PROVE  NewCell \in Cells /\ ~Live(NewCell)
<1>1. IsFiniteSet(Cells) /\ Cardinality(Cells) = MaxCells
  <2>1. Cardinality(Chats) \in Nat
    BY BoundsAssumption, FS_CardinalityType
  <2>2. QED
    BY <2>1, BoundsAssumption, FS_Interval DEF Cells
<1>2. \E c \in Cells : ~Live(c)
  <2>1. SUFFICES ASSUME \A c \in Cells : Live(c) PROVE FALSE
    OBVIOUS
  <2> DEFINE f == [c \in Cells |-> CHOOSE ch \in Chats : cell[ch] = c]
  <2>2. \A c \in Cells : f[c] \in Chats /\ cell[f[c]] = c
    BY <2>1 DEF Live
  <2>3. f \in [Cells -> Chats]
    BY <2>2
  <2>4. Cardinality(Chats) < Cardinality(Cells)
    BY <1>1, BoundsAssumption, FS_CardinalityType
  <2> HIDE DEF f
  <2>5. \E c, d \in Cells : c # d /\ f[c] = f[d]
    BY <1>1, <2>3, <2>4, BoundsAssumption, FS_PigeonHole
  <2>6. QED
    BY <2>2, <2>5
<1>3. QED
  BY <1>2 DEF NewCell

LEMMA NewIdIsFree ==
    ASSUME FreeIds # {}
    PROVE  /\ NewId \in ReadIds /\ NewId # NoRead
           /\ \A u \in Urls : requests[u].id # NewId
           /\ \A g \in gets : g.id # NewId
           /\ \A t \in Threads : fetch[t].id # NewId
<1>1. NewId \in FreeIds
  BY DEF NewId
<1>2. QED
  BY <1>1 DEF FreeIds, ReadIds, NoRead

-----------------------------------------------------------------------------
(***************************************************************************)
(* Types.                                                                  *)
(***************************************************************************)
RequestType ==
    [id : ReadIds \cup {NoRead}, expired : BOOLEAN, chats : SUBSET Cells,
     answer : CellValues \cup {NoAnswer}]

LEMMA EpochsAreNumbers == 0 \in Epochs /\ \A e \in Epochs : e \in Int
  BY BoundsAssumption DEF Epochs

LEMMA UrlOfIdentity == \A i \in Identities : UrlOf[i] \in Urls
  BY DEF Urls

LEMMA NothingHasAType ==
    /\ NoGet \in Gets
    /\ NoRequest \in RequestType
    /\ AllOff \in CellValues /\ FromCaller \in CellValues
    /\ \A u \in Urls : AnswersOf(u) \subseteq CellValues
  BY EpochsAreNumbers DEF NoGet, Gets, NoRequest, RequestType, CellValues

LEMMA RequestsHaveAType ==
    ASSUME TypeOK, NEW u \in Urls
    PROVE  requests[u] \in RequestType
  BY DEF TypeOK, RequestType

LEMMA LetGoHasAType ==
    ASSUME TypeOK, NEW c
    PROVE  LetGo(c) \in [Urls -> RequestType]
  BY DEF TypeOK, LetGo, RequestType

\* The GET that follows another one.
LEMMA NextIdHasAType ==
    ASSUME TypeOK, NEW g \in gets
    PROVE  (IF FreeIds # {} THEN NewId ELSE g.id) \in ReadIds \cup {NoRead}
  BY NewIdIsFree DEF TypeOK, Gets

LEMMA FinishKeepsType ==
    ASSUME TypeOK, NEW g \in gets, NEW u \in Urls,
           NEW result \in AnswersOf(g.url) \cup {NoAnswer}, g.url \in Urls,
           Finish(u, g, result)
    PROVE  /\ flags' \in [Cells -> CellValues]
           /\ requests' \in [Urls -> RequestType]
           /\ gets' \subseteq Gets
<1> DEFINE r == requests[u]
           answer == IF r.expired THEN NoAnswer ELSE result
           id == IF FreeIds # {} THEN NewId ELSE g.id
<1>1. r \in RequestType
  BY RequestsHaveAType
<1>2. answer \in CellValues \cup {NoAnswer}
  BY NothingHasAType
<1>3. id \in ReadIds \cup {NoRead}
  BY NextIdHasAType
<1>4. server[u] \in Epochs
  BY DEF TypeOK
<1> HIDE DEF r, answer, id
<1>5. StillWaiting(r) \subseteq Cells
  BY <1>1 DEF StillWaiting, RequestType
<1>6. /\ flags' = IF answer = NoAnswer THEN flags
                  ELSE [c \in Cells |-> IF c \in StillWaiting(r) THEN answer
                                                                 ELSE flags[c]]
      /\ \/ /\ requests' = [requests EXCEPT
                  ![u] = [id |-> id, expired |-> FALSE, chats |-> StillWaiting(r),
                          answer |-> IF answer = NoAnswer THEN r.answer ELSE answer]]
            /\ gets' = (gets \ {g}) \cup {[id |-> id, url |-> u, since |-> server[u]]}
         \/ /\ requests' = [requests EXCEPT ![u] = NoRequest]
            /\ gets' = gets \ {g}
  BY DEF Finish, r, answer, id
<1>7. flags' \in [Cells -> CellValues]
  BY <1>2, <1>6 DEF TypeOK
<1>8. [id |-> id, expired |-> FALSE, chats |-> StillWaiting(r),
       answer |-> IF answer = NoAnswer THEN r.answer ELSE answer] \in RequestType
  BY <1>1, <1>2, <1>3, <1>5 DEF RequestType
<1>9. requests' \in [Urls -> RequestType]
  BY <1>6, <1>8, NothingHasAType DEF TypeOK, RequestType
<1>10. [id |-> id, url |-> u, since |-> server[u]] \in Gets
  BY <1>3, <1>4 DEF Gets
<1>11. gets' \subseteq Gets
  BY <1>6, <1>10 DEF TypeOK
<1>12. QED
  BY <1>7, <1>9, <1>11

LEMMA TypeNext ==
    ASSUME IInv, [Next]_vars
    PROVE  TypeOK'
<1> USE DEF IInv, chatVars
<1>1. ASSUME NEW t \in Threads, NEW ch \in Chats, Create(t, ch) PROVE TypeOK'
  BY <1>1, NewCellIsFree, LetGoHasAType DEF Create, Goto, TypeOK, RequestType
<1>2. ASSUME NEW t \in Threads, NEW ch \in Chats, NEW user \in Users,
             SetIdentity(t, ch, user)
      PROVE  TypeOK'
  BY <1>2 DEF SetIdentity, Goto, TypeOK, Identities
<1>3. ASSUME NEW t \in Threads, StartFeatures(t) PROVE TypeOK'
  <2>1. on[t] \in Chats /\ TargetUrl(on[t]) \in Urls
    BY <1>3, UrlOfIdentity DEF StartFeatures, CallsFit, TargetUrl, TypeOK
  <2>2. CellAfter(on[t]) \in Cells \cup {NoCell}
    BY <2>1, NewCellIsFree DEF CellAfter, TypeOK
  <2>3. cell[on[t]] \in Cells
    BY <1>3, <2>1 DEF StartFeatures, CallsFit, TypeOK, Alive
  <2>4. flags' \in [Cells -> CellValues]
    BY <1>3, <2>3, NothingHasAType DEF StartFeatures, TypeOK
  <2>5. requests' \in [Urls -> RequestType]
    BY <1>3, LetGoHasAType DEF StartFeatures, TypeOK, RequestType
  <2>6. QED
    BY <1>3, <2>1, <2>2, <2>4, <2>5 DEF StartFeatures, Goto, TypeOK, RequestType
<1>4. ASSUME NEW t \in Threads, Join(t) PROVE TypeOK'
  <2> DEFINE ch == on[t]
             u == url[ch]
             r == requests[u]
  <2>1. ch \in Chats /\ cell[ch] \in Cells /\ u \in Urls /\ r \in RequestType
    BY <1>4, RequestsHaveAType DEF Join, CallsFit, TypeOK, Alive
  <2>2. JoinedFlags(r, cell[ch]) \in CellValues
    BY <2>1 DEF JoinedFlags, TypeOK, RequestType
  <2>3. WaitingWith(r, cell[ch]) \subseteq Cells
    BY <2>1 DEF WaitingWith, RequestType
  <2>4. requests' \in [Urls -> RequestType] /\ fetch' \in [Threads -> Gets]
    <3>1. CASE requests' = [requests EXCEPT ![u].chats = WaitingWith(r, cell[ch])]
               /\ UNCHANGED fetch
      BY <2>1, <2>3, <3>1 DEF TypeOK, RequestType
    <3>2. CASE /\ FreeIds # {}
               /\ requests' = [requests EXCEPT
                     ![u] = [id |-> NewId, expired |-> FALSE,
                             chats |-> WaitingWith(r, cell[ch]), answer |-> r.answer]]
               /\ fetch' = [fetch EXCEPT ![t] = [id |-> NewId, url |-> u, since |-> 0]]
      <4>1. [id |-> NewId, expired |-> FALSE, chats |-> WaitingWith(r, cell[ch]),
             answer |-> r.answer] \in RequestType
        BY <2>1, <2>3, <3>2, NewIdIsFree DEF RequestType
      <4>2. [id |-> NewId, url |-> u, since |-> 0] \in Gets
        BY <2>1, <3>2, NewIdIsFree, EpochsAreNumbers DEF Gets
      <4>3. QED
        BY <3>2, <4>1, <4>2 DEF TypeOK, RequestType
    <3>3. QED
      BY <1>4, <3>1, <3>2 DEF Join
  <2>5. flags' \in [Cells -> CellValues]
    BY <1>4, <2>2 DEF Join, TypeOK
  <2>6. QED
    BY <1>4, <2>4, <2>5 DEF Join, Goto, TypeOK, RequestType
<1>5. ASSUME NEW t \in Threads, BeginGet(t) PROVE TypeOK'
  <2>1. fetch[t] \in Gets /\ server[fetch[t].url] \in Epochs
    BY <1>5 DEF BeginGet, Goto, IdsFit, TypeOK
  <2>2. [fetch[t] EXCEPT !.since = server[fetch[t].url]] \in Gets
    BY <2>1 DEF Gets
  <2>3. QED
    BY <1>5, <2>2, NothingHasAType DEF BeginGet, Goto, TypeOK
<1>6. ASSUME NEW t \in Threads, AbandonGet(t) PROVE TypeOK'
  <2>1. \A u \in Urls : Abandoned(requests[u]) \in RequestType
    BY RequestsHaveAType DEF Abandoned, RequestType
  <2>2. requests' \in [Urls -> RequestType]
    BY <1>6, <2>1, RequestsHaveAType DEF AbandonGet
  <2>3. QED
    BY <1>6, <2>2, NothingHasAType DEF AbandonGet, Goto, TypeOK, RequestType
<1>7. ASSUME NEW ch \in Chats, Drop(ch) PROVE TypeOK'
  BY <1>7, NothingHasAType DEF Drop, TypeOK, Identities
<1>8. ASSUME NEW ch \in Chats, SetFeatureSwitches(ch) PROVE TypeOK'
  BY <1>8, NothingHasAType DEF SetFeatureSwitches, TypeOK
<1>9. ASSUME NEW u \in Urls, ServerChanges(u) PROVE TypeOK'
  BY <1>9, BoundsAssumption DEF ServerChanges, TypeOK, Epochs
<1>10. ASSUME NEW u \in Urls, Expire(u) PROVE TypeOK'
  BY <1>10 DEF Expire, TypeOK
<1>11. ASSUME NEW g \in gets, NEW result \in AnswersOf(g.url) \cup {NoAnswer},
              Complete(g, result)
       PROVE  TypeOK'
  <2>1. g.url \in Urls
    BY DEF IdsFit
  <2>2. /\ flags' \in [Cells -> CellValues]
        /\ requests' \in [Urls -> RequestType]
        /\ gets' \subseteq Gets
    <3>1. CASE \E u \in ReadsOf(g) : Finish(u, g, result)
      BY <2>1, <3>1, FinishKeepsType DEF ReadsOf
    <3>2. CASE gets' = gets \ {g} /\ UNCHANGED <<flags, requests>>
      BY <3>2 DEF TypeOK, RequestType
    <3>3. QED
      BY <1>11, <3>1, <3>2 DEF Complete
  <2>3. QED
    BY <1>11, <2>2 DEF Complete, TypeOK, RequestType
<1>12. CASE UNCHANGED vars
  BY <1>12 DEF vars, TypeOK
<1>13. QED
  BY <1>1, <1>2, <1>3, <1>4, <1>5, <1>6, <1>7, <1>8, <1>9, <1>10, <1>11, <1>12 DEF Next

-----------------------------------------------------------------------------
(***************************************************************************)
(* Chats, their calls and their cells.                                     *)
(***************************************************************************)

\* The steps of calls on chats, and all others.
LEMMA StepsOfCalls ==
    ASSUME [Next]_vars
    PROVE  \/ \E t \in Threads, ch \in Chats : Create(t, ch)
           \/ \E t \in Threads, ch \in Chats, user \in Users : SetIdentity(t, ch, user)
           \/ \E t \in Threads : StartFeatures(t)
           \/ \E t \in Threads : Join(t)
           \/ \E t \in Threads : BeginGet(t)
           \/ \E t \in Threads : AbandonGet(t)
           \/ \E ch \in Chats : Drop(ch)
           \/ UNCHANGED <<chatVars, at, on>>
<1> USE DEF chatVars
<1>1. ASSUME NEW ch \in Chats, SetFeatureSwitches(ch) PROVE UNCHANGED <<chatVars, at, on>>
  BY <1>1 DEF SetFeatureSwitches
<1>2. ASSUME NEW u \in Urls, ServerChanges(u) \/ Expire(u)
      PROVE  UNCHANGED <<chatVars, at, on>>
  BY <1>2 DEF ServerChanges, Expire
<1>3. ASSUME NEW g \in gets, NEW result \in AnswersOf(g.url) \cup {NoAnswer},
             Complete(g, result)
      PROVE  UNCHANGED <<chatVars, at, on>>
  BY <1>3 DEF Complete
<1>4. CASE UNCHANGED vars
  BY <1>4 DEF vars
<1>5. CASE Next
  BY <1>1, <1>2, <1>3, <1>5 DEF Next
<1>6. QED
  BY <1>4, <1>5

LEMMA CallsNext ==
    ASSUME IInv, [Next]_vars
    PROVE  CallsFit'
<1> USE DEF IInv, chatVars
<1>1. ASSUME NEW t \in Threads, NEW ch \in Chats, Create(t, ch) PROVE CallsFit'
  <2>1. NewCell # NoCell
    BY NewCellIsFree DEF Cells, NoCell
  <2>2. QED
    BY <1>1, <2>1 DEF Create, Goto, TypeOK, CallsFit, Alive
<1>2. ASSUME NEW t \in Threads, NEW ch \in Chats, NEW user \in Users,
             SetIdentity(t, ch, user)
      PROVE  CallsFit'
  BY <1>2 DEF SetIdentity, Goto, TypeOK, CallsFit, Alive
<1>3. ASSUME NEW t \in Threads, StartFeatures(t) PROVE CallsFit'
  <2>1. on[t] \in Chats /\ TargetUrl(on[t]) \in Urls
    BY <1>3, UrlOfIdentity DEF StartFeatures, CallsFit, TargetUrl, TypeOK
  <2>2. CellAfter(on[t]) # NoCell
    BY <1>3, <2>1, NewCellIsFree
       DEF StartFeatures, CellAfter, CallsFit, Alive, Cells, NoCell
  <2>3. QED
    BY <1>3, <2>1, <2>2 DEF StartFeatures, Unlocked, Goto, TypeOK, CallsFit, Alive
<1>4. ASSUME NEW t \in Threads, Join(t) PROVE CallsFit'
  <2>1. at'[t] \in {"idle", "begin"} /\ \A s \in Threads \ {t} : at'[s] = at[s]
    BY <1>4 DEF Join, Goto, TypeOK
  <2>2. \A s \in Threads \ {t} : on'[s] = on[s]
    BY <1>4 DEF Join, TypeOK
  <2>3. QED
    BY <1>4, <2>1, <2>2 DEF Join, TypeOK, CallsFit, Alive
<1>5. ASSUME NEW t \in Threads, BeginGet(t) \/ AbandonGet(t) PROVE CallsFit'
  BY <1>5 DEF BeginGet, AbandonGet, Goto, TypeOK, CallsFit, Alive
<1>6. ASSUME NEW ch \in Chats, Drop(ch) PROVE CallsFit'
  BY <1>6 DEF Drop, TypeOK, CallsFit, Alive
<1>7. CASE UNCHANGED <<chatVars, at, on>>
  BY <1>7 DEF CallsFit, Alive
<1>8. QED
  BY <1>1, <1>2, <1>3, <1>4, <1>5, <1>6, <1>7, StepsOfCalls

LEMMA UrlsNext ==
    ASSUME IInv, [Next]_vars
    PROVE  UrlsFit'
<1> USE DEF IInv, chatVars
<1>1. ASSUME NEW t \in Threads, NEW ch \in Chats, Create(t, ch) PROVE UrlsFit'
  BY <1>1 DEF Create, Goto, TypeOK, UrlsFit, Alive
<1>2. ASSUME NEW t \in Threads, NEW ch \in Chats, NEW user \in Users,
             SetIdentity(t, ch, user)
      PROVE  UrlsFit'
  BY <1>2 DEF SetIdentity, Goto, TypeOK, UrlsFit, Alive
<1>3. ASSUME NEW t \in Threads, StartFeatures(t) PROVE UrlsFit'
  BY <1>3 DEF StartFeatures, Goto, TypeOK, UrlsFit, Alive, TargetUrl
<1>4. ASSUME NEW t \in Threads, Join(t) PROVE UrlsFit'
  <2>1. at[t] = "join" /\ \A s \in Threads \ {t} : at'[s] = at[s] /\ on'[s] = on[s]
    BY <1>4 DEF Join, Goto, TypeOK
  <2>2. QED
    BY <1>4, <2>1 DEF Join, TypeOK, UrlsFit, Alive
<1>5. ASSUME NEW t \in Threads, BeginGet(t) \/ AbandonGet(t) PROVE UrlsFit'
  BY <1>5 DEF BeginGet, AbandonGet, Goto, TypeOK, UrlsFit, Alive
<1>6. ASSUME NEW ch \in Chats, Drop(ch) PROVE UrlsFit'
  BY <1>6 DEF Drop, TypeOK, UrlsFit, Alive
<1>7. CASE UNCHANGED <<chatVars, at, on>>
  BY <1>7 DEF UrlsFit, Alive
<1>8. QED
  BY <1>1, <1>2, <1>3, <1>4, <1>5, <1>6, <1>7, StepsOfCalls

\* A chat that gets a new cell shares it with none.
LEMMA NewCellIsOwn ==
    ASSUME TypeOK, CellsFit, NEW ch \in Chats,
           cell' = [cell EXCEPT ![ch] = NewCell]
    PROVE  /\ Alive(ch)' /\ \A other \in Chats \ {ch} : Alive(other)' <=> Alive(other)
           /\ \A d, other \in Chats : Alive(d)' /\ cell'[d] = cell'[other] => d = other
           /\ \A c \in Cells : ~Live(c)' => c # NewCell /\ (~Live(c) \/ c = cell[ch])
<1>1. NewCell \in Cells /\ NewCell # NoCell /\ \A d \in Chats : cell[d] # NewCell
  BY NewCellIsFree DEF Cells, NoCell, Live
<1>2. cell'[ch] = NewCell /\ \A d \in Chats \ {ch} : cell'[d] = cell[d]
  BY DEF TypeOK
<1>3. /\ Alive(ch)' /\ \A other \in Chats \ {ch} : Alive(other)' <=> Alive(other)
      /\ \A d, other \in Chats : Alive(d)' /\ cell'[d] = cell'[other] => d = other
  BY <1>1, <1>2 DEF CellsFit, Alive
<1>4. \A c \in Cells : ~Live(c)' => c # NewCell /\ (~Live(c) \/ c = cell[ch])
  BY <1>2 DEF Live
<1>5. QED
  BY <1>3, <1>4

\* What a read hands over goes to live cells.
LEMMA FinishesLiveCells ==
    ASSUME TypeOK, NEW g, NEW result, Complete(g, result)
    PROVE  \A c \in Cells : ~Live(c) => flags'[c] = flags[c]
<1>1. CASE UNCHANGED flags
  BY <1>1
<1>2. ASSUME NEW u \in Urls, Finish(u, g, result)
      PROVE  \A c \in Cells : ~Live(c) => flags'[c] = flags[c]
  BY <1>2 DEF Finish, StillWaiting
<1>3. QED
  BY <1>1, <1>2 DEF Complete, ReadsOf

LEMMA CellsNext ==
    ASSUME IInv, [Next]_vars
    PROVE  CellsFit'
<1> USE DEF IInv, chatVars
<1>1. ASSUME NEW t \in Threads, NEW ch \in Chats, Create(t, ch) PROVE CellsFit'
  <2>1. cell[ch] \notin Cells
    BY <1>1 DEF Create, Alive, Cells, NoCell
  <2>2. QED
    BY <1>1, <2>1, NewCellIsOwn DEF Create, CellsFit
<1>2. ASSUME NEW t \in Threads, NEW ch \in Chats, NEW user \in Users,
             SetIdentity(t, ch, user)
      PROVE  CellsFit'
  BY <1>2 DEF SetIdentity, CellsFit, Alive, Live
<1>3. ASSUME NEW t \in Threads, StartFeatures(t) PROVE CellsFit'
  <2>1. on[t] \in Chats /\ Alive(on[t]) /\ cell[on[t]] \in Cells
    BY <1>3 DEF StartFeatures, CallsFit, TypeOK, Alive
  <2>2. CASE CellAfter(on[t]) = cell[on[t]]
    <3>1. UNCHANGED <<cell, flags>>
      BY <1>3, <2>1, <2>2 DEF StartFeatures, TypeOK
    <3>2. \A ch \in Chats : ~Alive(ch)' => url'[ch] = NoUrl
      BY <1>3, <2>1, <3>1 DEF StartFeatures, TypeOK, CellsFit, Alive
    <3>3. QED
      BY <3>1, <3>2 DEF CellsFit, Alive, Live
  <2>3. CASE CellAfter(on[t]) # cell[on[t]]
    <3>1. CellAfter(on[t]) = NewCell
      BY <2>3 DEF CellAfter
    <3>2. /\ cell' = [cell EXCEPT ![on[t]] = NewCell]
          /\ flags' = [flags EXCEPT ![cell[on[t]]] = AllOff]
      BY <1>3, <2>3, <3>1 DEF StartFeatures
    <3>3. \A ch \in Chats : ~Alive(ch)' => url'[ch] = NoUrl
      BY <1>3, <2>1, <3>2, NewCellIsOwn DEF StartFeatures, TypeOK, CellsFit
    <3>4. \A c \in Cells : ~Live(c)' => flags'[c] = AllOff
      BY <2>1, <3>2, NewCellIsOwn DEF TypeOK, CellsFit
    <3>5. QED
      BY <2>1, <3>2, <3>3, <3>4, NewCellIsOwn DEF CellsFit
  <2>4. QED
    BY <2>2, <2>3
<1>4. ASSUME NEW t \in Threads, Join(t) PROVE CellsFit'
  <2>1. on[t] \in Chats /\ Live(cell[on[t]])
    BY <1>4 DEF Join, CallsFit, Live
  <2>2. \A c \in Cells : ~Live(c) => flags'[c] = flags[c]
    BY <1>4, <2>1 DEF Join, TypeOK
  <2>3. QED
    BY <1>4, <2>2 DEF Join, CellsFit, Alive, Live
<1>5. ASSUME NEW t \in Threads, BeginGet(t) \/ AbandonGet(t) PROVE CellsFit'
  BY <1>5 DEF BeginGet, AbandonGet, CellsFit, Alive, Live
<1>6. ASSUME NEW ch \in Chats, Drop(ch) PROVE CellsFit'
  <2>1. /\ cell'[ch] = NoCell /\ \A d \in Chats \ {ch} : cell'[d] = cell[d]
        /\ url'[ch] = NoUrl /\ \A d \in Chats \ {ch} : url'[d] = url[d]
        /\ cell[ch] \in Cells
    BY <1>6 DEF Drop, TypeOK, Alive
  <2>2. \A d, other \in Chats : Alive(d)' /\ cell'[d] = cell'[other] => d = other
    BY <2>1 DEF CellsFit, Alive
  <2>3. \A c \in Cells : ~Live(c)' => flags'[c] = AllOff
    <3>1. SUFFICES ASSUME NEW c \in Cells, ~Live(c)' PROVE flags'[c] = AllOff
      OBVIOUS
    <3>2. c = cell[ch] \/ ~Live(c)
      BY <2>1, <3>1 DEF Live
    <3>3. QED
      BY <1>6, <2>1, <3>2 DEF Drop, TypeOK, CellsFit
  <2>4. QED
    BY <2>1, <2>2, <2>3 DEF CellsFit, Alive
<1>7. ASSUME NEW ch \in Chats, SetFeatureSwitches(ch) PROVE CellsFit'
  <2>1. Live(cell[ch])
    BY DEF Live
  <2>2. \A c \in Cells : ~Live(c) => flags'[c] = flags[c]
    BY <1>7, <2>1 DEF SetFeatureSwitches, TypeOK
  <2>3. QED
    BY <1>7, <2>2 DEF SetFeatureSwitches, CellsFit, Alive, Live
<1>8. ASSUME NEW u \in Urls, ServerChanges(u) \/ Expire(u) PROVE CellsFit'
  BY <1>8 DEF ServerChanges, Expire, CellsFit, Alive, Live
<1>9. ASSUME NEW g \in gets, NEW result \in AnswersOf(g.url) \cup {NoAnswer},
             Complete(g, result)
      PROVE  CellsFit'
  <2>1. UNCHANGED <<cell, url>>
    BY <1>9 DEF Complete
  <2>2. QED
    BY <1>9, <2>1, FinishesLiveCells DEF CellsFit, Alive, Live
<1>10. CASE UNCHANGED vars
  BY <1>10 DEF vars, CellsFit, Alive, Live
<1>11. QED
  BY <1>1, <1>2, <1>3, <1>4, <1>5, <1>6, <1>7, <1>8, <1>9, <1>10 DEF Next

-----------------------------------------------------------------------------
(***************************************************************************)
(* Reads: their ids, GETs and answers.                                     *)
(***************************************************************************)

\* All steps but four leave them as they are.
LEMMA StepsOfReads ==
    ASSUME IInv, [Next]_vars
    PROVE  \/ \E t \in Threads : Join(t) \/ BeginGet(t) \/ AbandonGet(t)
           \/ \E g \in gets : \E result \in AnswersOf(g.url) \cup {NoAnswer} :
                 Complete(g, result)
           \/ /\ \A u \in Urls : requests'[u].id = requests[u].id
                                 /\ requests'[u].answer = requests[u].answer
              /\ UNCHANGED <<gets, fetch>>
              /\ \A t \in Threads : at'[t] = "begin" <=> at[t] = "begin"
              /\ \A u \in Urls : server[u] \in Int /\ server'[u] \in Int
                                 /\ server[u] <= server'[u]
<1> USE DEF IInv, chatVars
<1> DEFINE Quiet ==
              /\ \A u \in Urls : requests'[u].id = requests[u].id
                                 /\ requests'[u].answer = requests[u].answer
              /\ UNCHANGED <<gets, fetch>>
              /\ \A t \in Threads : at'[t] = "begin" <=> at[t] = "begin"
              /\ \A u \in Urls : server[u] \in Int /\ server'[u] \in Int
                                 /\ server[u] <= server'[u]
<1>a. \A u \in Urls : server[u] \in Int
  BY EpochsAreNumbers DEF TypeOK
<1>1. ASSUME NEW t \in Threads, NEW ch \in Chats, Create(t, ch) PROVE Quiet
  BY <1>1, <1>a DEF Create, Goto, LetGo, TypeOK
<1>2. ASSUME NEW t \in Threads, NEW ch \in Chats, NEW user \in Users,
             SetIdentity(t, ch, user)
      PROVE  Quiet
  BY <1>2, <1>a DEF SetIdentity, Goto, TypeOK
<1>3. ASSUME NEW t \in Threads, StartFeatures(t) PROVE Quiet
  BY <1>3, <1>a DEF StartFeatures, Goto, LetGo, TypeOK
<1>4. ASSUME NEW ch \in Chats, Drop(ch) \/ SetFeatureSwitches(ch) PROVE Quiet
  BY <1>4, <1>a DEF Drop, SetFeatureSwitches
<1>5. ASSUME NEW u \in Urls, ServerChanges(u) PROVE Quiet
  BY <1>5, <1>a DEF ServerChanges, TypeOK
<1>6. ASSUME NEW u \in Urls, Expire(u) PROVE Quiet
  BY <1>6, <1>a DEF Expire, TypeOK
<1>7. CASE UNCHANGED vars
  BY <1>7, <1>a DEF vars
<1>8. QED
  BY <1>1, <1>2, <1>3, <1>4, <1>5, <1>6, <1>7 DEF Next

\* A call joins the read under way, or starts one, which keeps the answer.
LEMMA JoinsRead ==
    ASSUME IInv, NEW t \in Threads, Join(t)
    PROVE  /\ UNCHANGED <<gets, server>>
           /\ \A v \in Urls : requests'[v].answer = requests[v].answer
           /\ \/ /\ \A v \in Urls : requests'[v].id = requests[v].id
                 /\ UNCHANGED fetch
                 /\ \A s \in Threads : at'[s] = "begin" <=> at[s] = "begin"
              \/ /\ FreeIds # {}
                 /\ requests'[url[on[t]]].id = NewId
                 /\ \A v \in Urls \ {url[on[t]]} : requests'[v].id = requests[v].id
                 /\ url[on[t]] \in Urls
                 /\ fetch'[t].id = NewId /\ fetch'[t].url = url[on[t]]
                 /\ at'[t] = "begin"
                 /\ \A s \in Threads \ {t} : at'[s] = at[s] /\ fetch'[s] = fetch[s]
<1> USE DEF IInv
<1>1. url[on[t]] \in Urls /\ on[t] \in Chats
  BY DEF Join, CallsFit
<1>2. CASE UNCHANGED fetch
  BY <1>1, <1>2 DEF Join, Goto, TypeOK
<1>3. CASE fetch' # fetch
  BY <1>1, <1>3 DEF Join, Goto, TypeOK
<1>4. QED
  BY <1>2, <1>3

\* A result of a read that is gone changes nothing; one of a URL's read ends
\* the read, or is followed by another GET.
LEMMA CompletesRead ==
    ASSUME IInv, NEW g \in gets, NEW result \in AnswersOf(g.url) \cup {NoAnswer},
           Complete(g, result)
    PROVE  /\ UNCHANGED <<at, on, fetch, server, identity, url, cell>>
           /\ \/ /\ \A u \in Urls : requests[u].id # g.id
                 /\ gets' = gets \ {g}
                 /\ UNCHANGED <<flags, requests>>
              \/ /\ requests[g.url].id = g.id
                 /\ Finish(g.url, g, result)
<1>1. \A u \in ReadsOf(g) : u = g.url /\ u \in Urls
  BY DEF IInv, IdsFit, ReadsOf
<1>2. QED
  BY <1>1 DEF Complete, ReadsOf, chatVars

\* The id of the GET that follows g, and the answer g gives.
IdAfter(g) == IF FreeIds # {} THEN NewId ELSE g.id

AnswerOf(g, result) == IF requests[g.url].expired THEN NoAnswer ELSE result

GetAfter(g) == [id |-> IdAfter(g), url |-> g.url, since |-> server[g.url]]

LEMMA FinishesRead ==
    ASSUME IInv, NEW g \in gets, NEW result \in AnswersOf(g.url) \cup {NoAnswer},
           requests[g.url].id = g.id, Finish(g.url, g, result)
    PROVE  /\ g.url \in Urls
           /\ IdAfter(g) # NoRead
           /\ \/ IdAfter(g) = g.id
              \/ /\ \A u \in Urls : requests[u].id # IdAfter(g)
                 /\ \A h \in gets : h.id # IdAfter(g)
                 /\ \A t \in Threads : fetch[t].id # IdAfter(g)
           /\ \A u \in Urls \ {g.url} : requests'[u] = requests[u]
           /\ \/ /\ requests'[g.url].id = IdAfter(g)
                 /\ requests'[g.url].chats = StillWaiting(requests[g.url])
                 /\ requests'[g.url].answer =
                       IF AnswerOf(g, result) = NoAnswer THEN requests[g.url].answer
                                                         ELSE AnswerOf(g, result)
                 /\ gets' = (gets \ {g}) \cup {GetAfter(g)}
              \/ /\ StillWaiting(requests[g.url]) = {}
                 /\ requests'[g.url] = NoRequest
                 /\ gets' = gets \ {g}
           /\ flags' = IF AnswerOf(g, result) = NoAnswer THEN flags
                       ELSE [c \in Cells |-> IF c \in StillWaiting(requests[g.url])
                                             THEN AnswerOf(g, result) ELSE flags[c]]
<1>1. g.url \in Urls /\ g.id # NoRead
  BY DEF IInv, IdsFit
<1>2. /\ IdAfter(g) # NoRead
      /\ \/ IdAfter(g) = g.id
         \/ /\ \A u \in Urls : requests[u].id # IdAfter(g)
            /\ \A h \in gets : h.id # IdAfter(g)
            /\ \A t \in Threads : fetch[t].id # IdAfter(g)
  BY <1>1, NewIdIsFree DEF IdAfter
<1>3. /\ flags' = IF AnswerOf(g, result) = NoAnswer THEN flags
                  ELSE [c \in Cells |-> IF c \in StillWaiting(requests[g.url])
                                        THEN AnswerOf(g, result) ELSE flags[c]]
      /\ \/ /\ requests' = [requests EXCEPT
                  ![g.url] = [id |-> IdAfter(g), expired |-> FALSE,
                              chats |-> StillWaiting(requests[g.url]),
                              answer |-> IF AnswerOf(g, result) = NoAnswer
                                         THEN requests[g.url].answer
                                         ELSE AnswerOf(g, result)]]
            /\ gets' = (gets \ {g}) \cup {GetAfter(g)}
         \/ /\ StillWaiting(requests[g.url]) = {}
            /\ requests' = [requests EXCEPT ![g.url] = NoRequest]
            /\ gets' = gets \ {g}
  BY DEF Finish, Repeats, IdAfter, AnswerOf, GetAfter
<1>4. QED
  BY <1>1, <1>2, <1>3 DEF IInv, TypeOK

LEMMA IdsNext ==
    ASSUME IInv, [Next]_vars
    PROVE  IdsFit'
<1>a. \A u \in Urls : server[u] \in Int
  BY EpochsAreNumbers DEF IInv, TypeOK
<1>b. \A g \in gets : g.url \in Urls /\ g.since \in Int
  BY EpochsAreNumbers DEF IInv, TypeOK, IdsFit, Gets
<1>1. ASSUME NEW t \in Threads, Join(t) PROVE IdsFit'
  <2>1. CASE /\ \A v \in Urls : requests'[v].id = requests[v].id
             /\ UNCHANGED fetch
             /\ \A s \in Threads : at'[s] = "begin" <=> at[s] = "begin"
    BY <1>1, <2>1, JoinsRead DEF IInv, IdsFit
  <2>2. CASE FreeIds # {} /\ at'[t] = "begin" /\ fetch'[t].id = NewId
    <3>1. /\ requests'[url[on[t]]].id = NewId
          /\ \A v \in Urls \ {url[on[t]]} : requests'[v].id = requests[v].id
          /\ url[on[t]] \in Urls /\ fetch'[t].url = url[on[t]]
          /\ \A s \in Threads \ {t} : at'[s] = at[s] /\ fetch'[s] = fetch[s]
          /\ UNCHANGED <<gets, server>>
      <4>1. at[t] # "begin"
        BY <1>1 DEF Join, Goto
      <4>2. QED
        BY <1>1, <2>2, <4>1, JoinsRead
    <3>2. /\ NewId # NoRead
          /\ \A u \in Urls : requests[u].id # NewId
          /\ \A g \in gets : g.id # NewId
          /\ \A s \in Threads : fetch[s].id # NewId
      BY <2>2, NewIdIsFree
    <3>3. \A u, v \in Urls :
             requests'[u].id = requests'[v].id /\ requests'[u].id # NoRead => u = v
      BY <3>1, <3>2 DEF IInv, IdsFit
    <3>4. \A g \in gets :
             /\ g.id # NoRead /\ g.url \in Urls /\ g.since <= server[g.url]
             /\ \A u \in Urls : requests'[u].id = g.id => g.url = u
             /\ \A h \in gets : h.id = g.id => h = g
      BY <3>1, <3>2 DEF IInv, IdsFit
    <3>5. ASSUME NEW s \in Threads, at'[s] = "begin"
          PROVE  /\ fetch'[s].id # NoRead /\ fetch'[s].url \in Urls
                 /\ \A u \in Urls : requests'[u].id = fetch'[s].id => fetch'[s].url = u
                 /\ \A g \in gets : g.id # fetch'[s].id
                 /\ \A o \in Threads :
                       at'[o] = "begin" /\ fetch'[o].id = fetch'[s].id => o = s
      BY <2>2, <3>1, <3>2, <3>5 DEF IInv, IdsFit
    <3>6. QED
      BY <3>1, <3>3, <3>4, <3>5 DEF IdsFit
  <2>3. QED
    BY <1>1, <2>1, <2>2, JoinsRead
<1>2. ASSUME NEW t \in Threads, BeginGet(t) PROVE IdsFit'
  <2> DEFINE new == [fetch[t] EXCEPT !.since = server[fetch[t].url]]
  <2>1. /\ at[t] = "begin" /\ at'[t] = "idle" /\ gets' = gets \cup {new}
        /\ \A s \in Threads \ {t} : at'[s] = at[s] /\ fetch'[s] = fetch[s]
        /\ UNCHANGED <<requests, server>>
    BY <1>2 DEF BeginGet, Goto, IInv, TypeOK
  <2>2. /\ fetch[t].id # NoRead /\ fetch[t].url \in Urls
        /\ new.id = fetch[t].id /\ new.url = fetch[t].url
        /\ new.since = server[fetch[t].url]
    BY <2>1 DEF IInv, IdsFit, TypeOK, Gets
  <2> HIDE DEF new
  <2>3. \A g \in gets' :
           /\ g.id # NoRead /\ g.url \in Urls /\ g.since <= server[g.url]
           /\ \A u \in Urls : requests[u].id = g.id => g.url = u
           /\ \A h \in gets' : h.id = g.id => h = g
    BY <1>a, <2>1, <2>2 DEF IInv, IdsFit
  <2>4. QED
    BY <2>1, <2>2, <2>3 DEF IInv, IdsFit
<1>3. ASSUME NEW t \in Threads, AbandonGet(t) PROVE IdsFit'
  <2>1. /\ at'[t] = "idle" /\ UNCHANGED <<gets, server>>
        /\ \A s \in Threads \ {t} : at'[s] = at[s] /\ fetch'[s] = fetch[s]
        /\ \A u \in Urls : requests'[u].id \in {requests[u].id, NoRead}
    BY <1>3 DEF AbandonGet, Abandoned, Goto, IInv, TypeOK
  <2>2. QED
    BY <2>1 DEF IInv, IdsFit
<1>4. ASSUME NEW g \in gets, NEW result \in AnswersOf(g.url) \cup {NoAnswer},
             Complete(g, result)
      PROVE  IdsFit'
  <2>1. UNCHANGED <<at, fetch, server>>
    BY <1>4, CompletesRead
  <2>2. CASE gets' = gets \ {g} /\ UNCHANGED requests
    BY <2>1, <2>2 DEF IInv, IdsFit
  <2>3. CASE requests[g.url].id = g.id /\ Finish(g.url, g, result)
    <3> DEFINE id == IdAfter(g)
               new == GetAfter(g)
    <3>1. /\ g.url \in Urls
          /\ id # NoRead
          /\ id = g.id \/ ( /\ \A u \in Urls : requests[u].id # id
                            /\ \A h \in gets : h.id # id
                            /\ \A t \in Threads : fetch[t].id # id )
          /\ \A u \in Urls \ {g.url} : requests'[u] = requests[u]
          /\ \/ requests'[g.url].id = id /\ gets' = (gets \ {g}) \cup {new}
             \/ requests'[g.url].id = NoRead /\ gets' = gets \ {g}
      BY <2>3, FinishesRead DEF NoRequest
    <3>2. new.id = id /\ new.url = g.url /\ new.since = server[g.url]
      BY DEF GetAfter
    <3> HIDE DEF id, new
    <3>3. \A u, v \in Urls :
             requests'[u].id = requests'[v].id /\ requests'[u].id # NoRead => u = v
      BY <2>3, <3>1 DEF IInv, IdsFit
    <3>4. ASSUME NEW h \in gets'
          PROVE  /\ h.id # NoRead /\ h.url \in Urls /\ h.since <= server[h.url]
                 /\ \A u \in Urls : requests'[u].id = h.id => h.url = u
                 /\ \A k \in gets' : k.id = h.id => k = h
      <4>1. CASE h = new
        BY <1>a, <2>3, <3>1, <3>2, <4>1 DEF IInv, IdsFit
      <4>2. CASE h # new
        BY <2>3, <3>1, <3>2, <4>2 DEF IInv, IdsFit
      <4>3. QED
        BY <4>1, <4>2
    <3>5. ASSUME NEW t \in Threads, at[t] = "begin"
          PROVE  /\ fetch[t].id # NoRead /\ fetch[t].url \in Urls
                 /\ \A u \in Urls : requests'[u].id = fetch[t].id => fetch[t].url = u
                 /\ \A h \in gets' : h.id # fetch[t].id
                 /\ \A s \in Threads : at[s] = "begin" /\ fetch[s].id = fetch[t].id => s = t
      BY <2>3, <3>1, <3>2, <3>5 DEF IInv, IdsFit
    <3>6. QED
      BY <2>1, <3>3, <3>4, <3>5 DEF IdsFit
  <2>4. QED
    BY <1>4, <2>2, <2>3, CompletesRead
<1>5. CASE /\ \A u \in Urls : requests'[u].id = requests[u].id
           /\ UNCHANGED <<gets, fetch>>
           /\ \A t \in Threads : at'[t] = "begin" <=> at[t] = "begin"
           /\ \A u \in Urls : server[u] \in Int /\ server'[u] \in Int
                              /\ server[u] <= server'[u]
  BY <1>5, <1>b DEF IInv, IdsFit
<1>6. QED
  BY <1>1, <1>2, <1>3, <1>4, <1>5, StepsOfReads

LEMMA AnswersHaveEpochs ==
    ASSUME NEW u, NEW a \in AnswersOf(u)
    PROVE  a.from = u /\ a.epoch \in Epochs /\ a.epoch \in Int
  BY EpochsAreNumbers DEF AnswersOf, Flags

LEMMA AnswersNext ==
    ASSUME IInv, [Next]_vars
    PROVE  AnswersFit'
<1>a. \A u \in Urls : server[u] \in Int
  BY EpochsAreNumbers DEF IInv, TypeOK
<1>1. ASSUME NEW t \in Threads, Join(t) PROVE AnswersFit'
  <2>1. CASE \A v \in Urls : requests'[v].id = requests[v].id
    BY <1>1, <2>1, JoinsRead DEF IInv, AnswersFit
  <2>2. CASE /\ FreeIds # {}
             /\ \A v \in Urls : requests'[v].id \in {requests[v].id, NewId}
    BY <1>1, <2>2, JoinsRead, NewIdIsFree DEF IInv, AnswersFit
  <2>3. QED
    BY <1>1, <2>1, <2>2, JoinsRead
<1>2. ASSUME NEW t \in Threads, BeginGet(t) PROVE AnswersFit'
  <2> DEFINE new == [fetch[t] EXCEPT !.since = server[fetch[t].url]]
  <2>1. at[t] = "begin" /\ gets' = gets \cup {new} /\ UNCHANGED <<requests, server>>
    BY <1>2 DEF BeginGet, Goto
  <2>2. new.id = fetch[t].id /\ new.since = server[fetch[t].url]
    BY DEF IInv, TypeOK, Gets
  <2> HIDE DEF new
  <2>3. QED
    BY <2>1, <2>2 DEF IInv, IdsFit, AnswersFit
<1>3. ASSUME NEW t \in Threads, AbandonGet(t) PROVE AnswersFit'
  <2>1. /\ UNCHANGED <<gets, server>>
        /\ \A u \in Urls : /\ requests'[u].id \in {requests[u].id, NoRead}
                           /\ requests'[u].answer = requests[u].answer
    BY <1>3 DEF AbandonGet, Abandoned, IInv, TypeOK
  <2>2. QED
    BY <2>1 DEF IInv, IdsFit, AnswersFit
<1>4. ASSUME NEW g \in gets, NEW result \in AnswersOf(g.url) \cup {NoAnswer},
             Complete(g, result)
      PROVE  AnswersFit'
  <2>1. UNCHANGED server
    BY <1>4, CompletesRead
  <2>2. CASE gets' = gets \ {g} /\ UNCHANGED requests
    BY <2>1, <2>2 DEF IInv, AnswersFit
  <2>3. CASE requests[g.url].id = g.id /\ Finish(g.url, g, result)
    <3>1. /\ g.url \in Urls /\ g.since \in Int
          /\ \A u \in Urls \ {g.url} : requests'[u] = requests[u]
          /\ \A u \in Urls \ {g.url} : requests[u].id # IdAfter(g)
      <4>1. g.since \in Int
        BY EpochsAreNumbers DEF IInv, TypeOK, Gets
      <4>2. \A u \in Urls \ {g.url} : requests[u].id # g.id
        BY DEF IInv, IdsFit
      <4>3. QED
        BY <2>3, <4>1, <4>2, FinishesRead
    <3>2. GetAfter(g).id = IdAfter(g) /\ GetAfter(g).since = server[g.url]
      BY DEF GetAfter
    <3>3. ASSUME NEW u \in Urls \ {g.url}, requests'[u].answer # NoAnswer
          PROVE  /\ requests'[u].answer \in AnswersOf(u)
                 /\ requests'[u].answer.epoch <= server[u]
                 /\ \A h \in gets' : h.id = requests'[u].id
                                        => requests'[u].answer.epoch <= h.since
      <4>1. \A h \in gets' : h.id = requests[u].id => h \in gets
        BY <2>3, <3>1, <3>2, FinishesRead
      <4>2. QED
        BY <3>1, <3>3, <4>1 DEF IInv, AnswersFit
    <3>4. ASSUME requests'[g.url].answer # NoAnswer
          PROVE  /\ requests'[g.url].answer \in AnswersOf(g.url)
                 /\ requests'[g.url].answer.epoch <= server[g.url]
                 /\ \A h \in gets' : h.id = requests'[g.url].id
                                        => requests'[g.url].answer.epoch <= h.since
      <4>1. /\ requests'[g.url].id = IdAfter(g)
            /\ gets' = (gets \ {g}) \cup {GetAfter(g)}
            /\ requests'[g.url].answer \in {requests[g.url].answer, result}
        BY <2>3, <3>4, FinishesRead DEF NoRequest, AnswerOf
      <4>2. /\ requests'[g.url].answer \in AnswersOf(g.url)
            /\ requests'[g.url].answer.epoch <= server[g.url]
        <5>1. CASE requests'[g.url].answer = requests[g.url].answer
          BY <3>1, <3>4, <5>1 DEF IInv, AnswersFit
        <5>2. CASE requests'[g.url].answer = result
          BY <1>a, <1>4, <3>1, <3>4, <5>2, AnswersHaveEpochs DEF Complete
        <5>3. QED
          BY <4>1, <5>1, <5>2
      <4>3. \A h \in gets \ {g} : h.id # IdAfter(g)
        BY <2>3, FinishesRead DEF IInv, IdsFit
      <4>4. QED
        BY <3>2, <4>1, <4>2, <4>3
    <3>5. QED
      BY <2>1, <3>3, <3>4 DEF AnswersFit
  <2>4. QED
    BY <1>4, <2>2, <2>3, CompletesRead
<1>5. CASE /\ \A u \in Urls : requests'[u].id = requests[u].id
                              /\ requests'[u].answer = requests[u].answer
           /\ UNCHANGED gets
           /\ \A u \in Urls : server[u] \in Int /\ server'[u] \in Int
                              /\ server[u] <= server'[u]
  BY <1>5, AnswersHaveEpochs DEF IInv, AnswersFit
<1>6. QED
  BY <1>1, <1>2, <1>3, <1>4, <1>5, StepsOfReads

LEMMA JoinableNext ==
    ASSUME IInv, [Next]_vars
    PROVE  JoinableReadIsPerformed'
<1>1. ASSUME NEW t \in Threads, Join(t) PROVE JoinableReadIsPerformed'
  <2>1. at[t] # "begin"
    BY <1>1 DEF Join, Goto
  <2>2. QED
    BY <1>1, <2>1, JoinsRead DEF IInv, JoinableReadIsPerformed
<1>2. ASSUME NEW t \in Threads, BeginGet(t) PROVE JoinableReadIsPerformed'
  <2> DEFINE new == [fetch[t] EXCEPT !.since = server[fetch[t].url]]
  <2>1. /\ at[t] = "begin" /\ gets' = gets \cup {new} /\ UNCHANGED requests
        /\ \A s \in Threads \ {t} : at'[s] = at[s] /\ fetch'[s] = fetch[s]
    BY <1>2 DEF BeginGet, Goto, IInv, TypeOK
  <2>2. new.id = fetch[t].id /\ new.url = fetch[t].url
    BY DEF IInv, TypeOK, Gets
  <2> HIDE DEF new
  <2>3. QED
    BY <2>1, <2>2 DEF IInv, IdsFit, JoinableReadIsPerformed
<1>3. ASSUME NEW t \in Threads, AbandonGet(t) PROVE JoinableReadIsPerformed'
  <2>1. /\ UNCHANGED gets
        /\ \A s \in Threads \ {t} : at'[s] = at[s] /\ fetch'[s] = fetch[s]
        /\ \A u \in Urls : requests'[u].id = IF requests[u].id = fetch[t].id
                                             THEN NoRead ELSE requests[u].id
    BY <1>3 DEF AbandonGet, Abandoned, Goto, IInv, TypeOK
  <2>2. QED
    BY <2>1 DEF IInv, JoinableReadIsPerformed
<1>4. ASSUME NEW g \in gets, NEW result \in AnswersOf(g.url) \cup {NoAnswer},
             Complete(g, result)
      PROVE  JoinableReadIsPerformed'
  <2>1. UNCHANGED <<at, fetch>>
    BY <1>4, CompletesRead
  <2>2. CASE (\A u \in Urls : requests[u].id # g.id) /\ gets' = gets \ {g}
             /\ UNCHANGED requests
    BY <2>1, <2>2 DEF IInv, JoinableReadIsPerformed
  <2>3. CASE requests[g.url].id = g.id /\ Finish(g.url, g, result)
    <3>1. \A u \in Urls \ {g.url} : requests[u].id # g.id
      BY <2>3 DEF IInv, IdsFit
    <3>2. GetAfter(g).id = IdAfter(g) /\ GetAfter(g).url = g.url
      BY DEF GetAfter
    <3>3. QED
      BY <2>1, <2>3, <3>1, <3>2, FinishesRead
         DEF IInv, JoinableReadIsPerformed, NoRequest
  <2>4. QED
    BY <1>4, <2>2, <2>3, CompletesRead
<1>5. CASE /\ \A u \in Urls : requests'[u].id = requests[u].id
           /\ UNCHANGED <<gets, fetch>>
           /\ \A t \in Threads : at'[t] = "begin" <=> at[t] = "begin"
  BY <1>5 DEF IInv, JoinableReadIsPerformed
<1>6. QED
  BY <1>1, <1>2, <1>3, <1>4, <1>5, StepsOfReads

-----------------------------------------------------------------------------
(***************************************************************************)
(* Chats that wait, and what they hold.                                    *)
(***************************************************************************)

\* Whether a chat waits at a URL changes only when one is created, starts its
\* reads or joins one: a read that ends has no live chat to let go.
LEMMA StepsOfWaiting ==
    ASSUME IInv, [Next]_vars
    PROVE  \/ \E t \in Threads, ch \in Chats : Create(t, ch)
           \/ \E t \in Threads : StartFeatures(t) \/ Join(t)
           \/ \A ch \in Chats :
                 Alive(ch)' =>
                    /\ Alive(ch) /\ cell'[ch] = cell[ch] /\ url'[ch] = url[ch]
                    /\ Unlocked(ch)' => Unlocked(ch)
                    /\ \A u \in Urls :
                          cell[ch] \in requests'[u].chats <=> cell[ch] \in requests[u].chats
<1> USE DEF IInv, chatVars
<1> DEFINE Same ==
              \A ch \in Chats :
                 Alive(ch)' =>
                    /\ Alive(ch) /\ cell'[ch] = cell[ch] /\ url'[ch] = url[ch]
                    /\ Unlocked(ch)' => Unlocked(ch)
                    /\ \A u \in Urls :
                          cell[ch] \in requests'[u].chats <=> cell[ch] \in requests[u].chats
<1>1. ASSUME NEW t \in Threads, NEW ch \in Chats, NEW user \in Users,
             SetIdentity(t, ch, user)
      PROVE  Same
  BY <1>1 DEF SetIdentity, Goto, TypeOK, Alive, Unlocked
<1>2. ASSUME NEW t \in Threads, BeginGet(t) PROVE Same
  BY <1>2 DEF BeginGet, Goto, TypeOK, Alive, Unlocked
<1>3. ASSUME NEW t \in Threads, AbandonGet(t) PROVE Same
  <2>1. \A u \in Urls : requests'[u].chats = requests[u].chats
    BY <1>3 DEF AbandonGet, Abandoned, TypeOK
  <2>2. QED
    BY <1>3, <2>1 DEF AbandonGet, Goto, TypeOK, Alive, Unlocked
<1>4. ASSUME NEW ch \in Chats, Drop(ch) PROVE Same
  BY <1>4 DEF Drop, TypeOK, Alive, Unlocked
<1>5. ASSUME NEW ch \in Chats, SetFeatureSwitches(ch) PROVE Same
  BY <1>5 DEF SetFeatureSwitches, Alive, Unlocked
<1>6. ASSUME NEW u \in Urls, ServerChanges(u) \/ Expire(u) PROVE Same
  <2>1. \A v \in Urls : requests'[v].chats = requests[v].chats
    BY <1>6 DEF ServerChanges, Expire, TypeOK
  <2>2. QED
    BY <1>6, <2>1 DEF ServerChanges, Expire, Alive, Unlocked
<1>7. ASSUME NEW g \in gets, NEW result \in AnswersOf(g.url) \cup {NoAnswer},
             Complete(g, result)
      PROVE  Same
  <2>1. UNCHANGED <<at, on, url, cell>>
    BY <1>7, CompletesRead
  <2>2. \A ch \in Chats, u \in Urls :
           Alive(ch) => (cell[ch] \in requests'[u].chats <=> cell[ch] \in requests[u].chats)
    <3>1. CASE UNCHANGED requests
      BY <3>1
    <3>2. CASE requests[g.url].id = g.id /\ Finish(g.url, g, result)
      <4>1. \A ch \in Chats : Alive(ch) =>
               (cell[ch] \in StillWaiting(requests[g.url])
                   <=> cell[ch] \in requests[g.url].chats)
        BY DEF StillWaiting, Live
      <4>2. QED
        BY <3>2, <4>1, FinishesRead DEF NoRequest
    <3>3. QED
      BY <1>7, <3>1, <3>2, CompletesRead
  <2>3. QED
    BY <2>1, <2>2 DEF Alive, Unlocked
<1>8. CASE UNCHANGED vars
  BY <1>8 DEF vars, Alive, Unlocked
<1>9. QED
  BY <1>1, <1>2, <1>3, <1>4, <1>5, <1>6, <1>7, <1>8 DEF Next

\* A chat's new cell waits nowhere, and other chats' cells where they did.
LEMMA NewCellWaitsNowhere ==
    ASSUME TypeOK, NEW ch \in Chats,
           cell' = [cell EXCEPT ![ch] = NewCell], requests' = LetGo(NewCell)
    PROVE  /\ cell'[ch] = NewCell
           /\ \A u \in Urls : NewCell \notin requests'[u].chats
           /\ \A other \in Chats \ {ch}, u \in Urls :
                 /\ cell'[other] = cell[other]
                 /\ cell[other] \in requests'[u].chats
                       <=> cell[other] \in requests[u].chats
<1>1. \A u \in Urls : requests'[u].chats = requests[u].chats \ {NewCell}
  BY DEF LetGo, TypeOK
<1>2. \A other \in Chats : cell[other] # NewCell
  BY NewCellIsFree DEF Live
<1>3. QED
  BY <1>1, <1>2 DEF TypeOK

\* A call that starts reads keeps its chat's cell and URL, or its cell and no
\* URL so far, or takes a new cell.
LEMMA StartsReads ==
    ASSUME IInv, NEW t \in Threads, StartFeatures(t)
    PROVE  /\ on[t] \in Chats /\ Alive(on[t]) /\ cell[on[t]] \in Cells
           /\ url'[on[t]] = TargetUrl(on[t]) /\ TargetUrl(on[t]) \in Urls
           /\ \A ch \in Chats \ {on[t]} : url'[ch] = url[ch]
           /\ \/ /\ url[on[t]] \in {NoUrl, TargetUrl(on[t])}
                 /\ UNCHANGED <<cell, flags, requests>>
              \/ /\ url[on[t]] # TargetUrl(on[t])
                 /\ cell' = [cell EXCEPT ![on[t]] = NewCell]
                 /\ requests' = LetGo(NewCell)
                 /\ flags' = [flags EXCEPT ![cell[on[t]]] = AllOff]
<1> USE DEF IInv
<1>1. on[t] \in Chats /\ Alive(on[t]) /\ cell[on[t]] \in Cells
  BY DEF StartFeatures, CallsFit, TypeOK, Alive
<1>2. TargetUrl(on[t]) \in Urls
  BY <1>1, UrlOfIdentity DEF TargetUrl, TypeOK
<1>3. url'[on[t]] = TargetUrl(on[t]) /\ \A ch \in Chats \ {on[t]} : url'[ch] = url[ch]
  BY <1>1 DEF StartFeatures, TypeOK
<1>4. NewCell # cell[on[t]]
  BY <1>1, NewCellIsFree DEF Live
<1>5. CASE Moves(on[t])
  <2>1. CellAfter(on[t]) = NewCell
    BY <1>5 DEF CellAfter
  <2>2. QED
    BY <1>1, <1>2, <1>3, <1>4, <1>5, <2>1 DEF StartFeatures, Moves
<1>6. CASE ~Moves(on[t])
  <2>1. CellAfter(on[t]) = cell[on[t]]
    BY <1>6 DEF CellAfter
  <2>2. UNCHANGED <<cell, flags, requests>>
    BY <1>1, <2>1 DEF StartFeatures, TypeOK
  <2>3. QED
    BY <1>1, <1>2, <1>3, <1>6, <2>2 DEF Moves
<1>7. QED
  BY <1>5, <1>6

\* A call joins its chat's cell to those that wait at its URL.
LEMMA JoinsChats ==
    ASSUME IInv, NEW t \in Threads, Join(t)
    PROVE  /\ on[t] \in Chats /\ Alive(on[t]) /\ url[on[t]] \in Urls
           /\ UNCHANGED <<url, cell>>
           /\ cell[on[t]] \in requests'[url[on[t]]].chats
           /\ \A ch \in Chats \ {on[t]}, u \in Urls :
                 Alive(ch) => (cell[ch] \in requests'[u].chats
                                  <=> cell[ch] \in requests[u].chats)
           /\ \A u \in Urls \ {url[on[t]]} : requests'[u] = requests[u]
           /\ \A ch \in Chats \ {on[t]} : Unlocked(ch)' => Unlocked(ch)
<1> USE DEF IInv
<1>1. on[t] \in Chats /\ Alive(on[t]) /\ url[on[t]] \in Urls
  BY DEF Join, CallsFit
<1>2. /\ UNCHANGED <<url, cell>>
      /\ \A u \in Urls \ {url[on[t]]} : requests'[u] = requests[u]
      /\ requests'[url[on[t]]].chats = WaitingWith(requests[url[on[t]]], cell[on[t]])
  BY <1>1 DEF Join, TypeOK, chatVars
<1>3. \A ch \in Chats \ {on[t]} : Alive(ch) => cell[ch] # cell[on[t]] /\ Live(cell[ch])
  BY <1>1 DEF CellsFit, Live
<1>4. \A ch \in Chats \ {on[t]} : Unlocked(ch)' => Unlocked(ch)
  <2>1. \A s \in Threads \ {t} : at'[s] = at[s] /\ on'[s] = on[s]
    BY DEF Join, Goto, TypeOK
  <2>2. QED
    BY <2>1 DEF Unlocked
<1>5. QED
  BY <1>1, <1>2, <1>3, <1>4 DEF WaitingWith

LEMMA WaitsNext ==
    ASSUME IInv, [Next]_vars
    PROVE  WaitsOnlyThere' /\ WaitsAtItsUrl'
<1> USE DEF IInv
<1>1. ASSUME NEW t \in Threads, NEW ch \in Chats, Create(t, ch)
      PROVE  WaitsOnlyThere' /\ WaitsAtItsUrl'
  <2>1. /\ url[ch] = NoUrl /\ UNCHANGED url
        /\ cell' = [cell EXCEPT ![ch] = NewCell] /\ requests' = LetGo(NewCell)
        /\ \A other \in Chats \ {ch} : Alive(other)' => Alive(other)
        /\ \A other \in Chats : Unlocked(other)' => Unlocked(other)
    BY <1>1 DEF Create, Goto, TypeOK, CellsFit, Alive, Unlocked
  <2>2. NoUrl \notin Urls
    BY UrlsAssumption
  <2>3. /\ cell'[ch] = NewCell
        /\ \A u \in Urls : NewCell \notin requests'[u].chats
        /\ \A other \in Chats \ {ch}, u \in Urls :
              /\ cell'[other] = cell[other]
              /\ cell[other] \in requests'[u].chats <=> cell[other] \in requests[u].chats
    BY <2>1, NewCellWaitsNowhere
  <2>4. WaitsOnlyThere'
    BY <2>1, <2>3 DEF WaitsOnlyThere
  <2>5. WaitsAtItsUrl'
    BY <2>1, <2>2, <2>3 DEF WaitsAtItsUrl
  <2>6. QED
    BY <2>4, <2>5
<1>2. ASSUME NEW t \in Threads, StartFeatures(t)
      PROVE  WaitsOnlyThere' /\ WaitsAtItsUrl'
  <2>1. /\ on[t] \in Chats /\ Alive(on[t])
        /\ url'[on[t]] = TargetUrl(on[t]) /\ TargetUrl(on[t]) \in Urls
        /\ \A ch \in Chats \ {on[t]} : url'[ch] = url[ch]
    BY <1>2, StartsReads
  <2>2. /\ at' = [at EXCEPT ![t] = "join"] /\ at[t] = "start" /\ UNCHANGED on
    BY <1>2 DEF StartFeatures, Goto
  <2>3. \A ch \in Chats : Unlocked(ch)' => Unlocked(ch) /\ ch # on[t]
    BY <2>2 DEF TypeOK, Unlocked
  <2>4. NoUrl \notin Urls
    BY UrlsAssumption
  <2>5. CASE UNCHANGED <<cell, flags, requests>>
             /\ url[on[t]] \in {NoUrl, TargetUrl(on[t])}
    <3>1. \A ch \in Chats : Alive(ch)' => Alive(ch)
      BY <2>5 DEF Alive
    <3>2. WaitsOnlyThere'
      BY <2>1, <2>4, <2>5, <3>1 DEF WaitsOnlyThere
    <3>3. WaitsAtItsUrl'
      BY <2>1, <2>3, <2>5, <3>1 DEF WaitsAtItsUrl
    <3>4. QED
      BY <3>2, <3>3
  <2>6. CASE cell' = [cell EXCEPT ![on[t]] = NewCell] /\ requests' = LetGo(NewCell)
    <3>1. /\ cell'[on[t]] = NewCell
          /\ \A u \in Urls : NewCell \notin requests'[u].chats
          /\ \A ch \in Chats \ {on[t]}, u \in Urls :
                /\ cell'[ch] = cell[ch]
                /\ cell[ch] \in requests'[u].chats <=> cell[ch] \in requests[u].chats
      BY <2>1, <2>6, NewCellWaitsNowhere
    <3>2. \A ch \in Chats : Alive(ch)' => Alive(ch)
      BY <2>1, <2>6 DEF TypeOK, Alive
    <3>3. WaitsOnlyThere'
      BY <2>1, <3>1, <3>2 DEF WaitsOnlyThere
    <3>4. WaitsAtItsUrl'
      BY <2>1, <2>3, <3>1, <3>2 DEF WaitsAtItsUrl
    <3>5. QED
      BY <3>3, <3>4
  <2>7. QED
    BY <1>2, <2>5, <2>6, StartsReads
<1>3. ASSUME NEW t \in Threads, Join(t) PROVE WaitsOnlyThere' /\ WaitsAtItsUrl'
  <2>1. WaitsOnlyThere'
    BY <1>3, JoinsChats DEF WaitsOnlyThere, Alive
  <2>2. WaitsAtItsUrl'
    BY <1>3, <2>1, JoinsChats DEF WaitsOnlyThere, WaitsAtItsUrl, Alive
  <2>3. QED
    BY <2>1, <2>2
<1>4. CASE \A ch \in Chats :
              Alive(ch)' =>
                 /\ Alive(ch) /\ cell'[ch] = cell[ch] /\ url'[ch] = url[ch]
                 /\ Unlocked(ch)' => Unlocked(ch)
                 /\ \A u \in Urls :
                       cell[ch] \in requests'[u].chats <=> cell[ch] \in requests[u].chats
  BY <1>4 DEF WaitsOnlyThere, WaitsAtItsUrl
<1>5. QED
  BY <1>1, <1>2, <1>3, <1>4, StepsOfWaiting

LEMMA NothingIsNoAnswer ==
    /\ AllOff \notin Answers /\ FromCaller \notin Answers /\ NoAnswer \notin Answers
    /\ \A u \in Urls : AnswersOf(u) \subseteq Answers
<1>1. \A a \in Answers : a.from \in Urls
  BY AnswersHaveEpochs DEF Answers
<1>2. /\ AllOff.from = "nobody" /\ FromCaller.from = "caller"
      /\ NoAnswer.from = "no answer"
  BY DEF AllOff, FromCaller, NoAnswer, Flags
<1>3. QED
  BY <1>1, <1>2, UrlsAssumption DEF Answers

\* A chat's flags and the answers of reads change when the chat starts or joins
\* one, when its caller sets them, and when a read completes.
LEMMA StepsOfFlags ==
    ASSUME IInv, [Next]_vars
    PROVE  \/ \E t \in Threads, ch \in Chats : Create(t, ch)
           \/ \E t \in Threads : StartFeatures(t) \/ Join(t)
           \/ \E ch \in Chats : SetFeatureSwitches(ch)
           \/ \E g \in gets : \E result \in AnswersOf(g.url) \cup {NoAnswer} :
                 Complete(g, result)
           \/ /\ \A u \in Urls : requests'[u].answer = requests[u].answer
              /\ \A ch \in Chats : Alive(ch)' => flags'[cell[ch]] = flags[cell[ch]]
<1> USE DEF IInv, chatVars
<1> DEFINE Same ==
              /\ \A u \in Urls : requests'[u].answer = requests[u].answer
              /\ \A ch \in Chats : Alive(ch)' => flags'[cell[ch]] = flags[cell[ch]]
<1>1. ASSUME NEW t \in Threads, NEW ch \in Chats, NEW user \in Users,
             SetIdentity(t, ch, user)
      PROVE  Same
  BY <1>1 DEF SetIdentity
<1>2. ASSUME NEW t \in Threads, BeginGet(t) PROVE Same
  BY <1>2 DEF BeginGet
<1>3. ASSUME NEW t \in Threads, AbandonGet(t) PROVE Same
  BY <1>3 DEF AbandonGet, Abandoned, TypeOK
<1>4. ASSUME NEW ch \in Chats, Drop(ch) PROVE Same
  <2>1. \A other \in Chats : Alive(other)' => other # ch /\ Alive(other)
    BY <1>4 DEF Drop, TypeOK, Alive
  <2>2. \A other \in Chats : Alive(other)' => cell[other] \in Cells \ {cell[ch]}
    BY <2>1 DEF CellsFit, TypeOK, Alive
  <2>3. QED
    BY <1>4, <2>2 DEF Drop, TypeOK
<1>5. ASSUME NEW u \in Urls, ServerChanges(u) \/ Expire(u) PROVE Same
  BY <1>5 DEF ServerChanges, Expire, TypeOK
<1>6. CASE UNCHANGED vars
  BY <1>6 DEF vars
<1>7. QED
  BY <1>1, <1>2, <1>3, <1>4, <1>5, <1>6 DEF Next

\* An answer reaches the chats that wait, and no other.
LEMMA AnswersThoseWaiting ==
    ASSUME IInv, NEW g \in gets, NEW result \in AnswersOf(g.url) \cup {NoAnswer},
           Complete(g, result), NEW ch \in Chats, Alive(ch)
    PROVE  \/ /\ flags'[cell[ch]] = flags[cell[ch]]
              /\ \A u \in Urls : cell[ch] \in requests'[u].chats
                                    => requests'[u].answer = requests[u].answer
           \/ /\ flags'[cell[ch]] = result /\ result # NoAnswer
              /\ cell[ch] \in requests[g.url].chats
              /\ requests[g.url].id = g.id
              /\ requests'[g.url].answer = result
<1>1. CASE UNCHANGED <<flags, requests>>
  BY <1>1
<1>2. CASE requests[g.url].id = g.id /\ Finish(g.url, g, result)
  <2>1. cell[ch] \in Cells
    BY DEF IInv, TypeOK, Alive
  <2>2. CASE cell[ch] \in StillWaiting(requests[g.url])
    <3>1. cell[ch] \in requests[g.url].chats
      BY <2>2 DEF StillWaiting
    <3>2. CASE AnswerOf(g, result) = NoAnswer
      BY <1>2, <2>1, <2>2, <3>2, FinishesRead
    <3>3. CASE AnswerOf(g, result) # NoAnswer
      BY <1>2, <2>1, <2>2, <3>1, <3>3, FinishesRead DEF AnswerOf
    <3>4. QED
      BY <3>2, <3>3
  <2>3. CASE cell[ch] \notin StillWaiting(requests[g.url])
    BY <1>2, <2>1, <2>3, FinishesRead DEF NoRequest
  <2>4. QED
    BY <2>2, <2>3
<1>3. QED
  BY <1>1, <1>2, CompletesRead

LEMMA FlagsNext ==
    ASSUME IInv, [Next]_vars
    PROVE  FlagsFit'
<1> USE DEF IInv
<1>1. ASSUME NEW ch \in Chats, cell' = [cell EXCEPT ![ch] = NewCell],
             requests' = LetGo(NewCell),
             \A c \in Cells : flags'[c] = flags[c] \/ (c = cell[ch] /\ flags'[c] = AllOff)
      PROVE  FlagsFit'
  <2>1. /\ cell'[ch] = NewCell
        /\ \A u \in Urls : NewCell \notin requests'[u].chats
        /\ \A other \in Chats \ {ch}, u \in Urls :
              /\ cell'[other] = cell[other]
              /\ cell[other] \in requests'[u].chats <=> cell[other] \in requests[u].chats
    BY <1>1, NewCellWaitsNowhere
  <2>2. \A other \in Chats \ {ch} : cell'[other] = cell[other]
    BY <1>1 DEF TypeOK
  <2>3. flags'[NewCell] \notin Answers
    BY <1>1, NewCellIsFree, NothingIsNoAnswer DEF CellsFit
  <2>4. \A u \in Urls : requests'[u].answer = requests[u].answer
    BY <1>1 DEF LetGo, TypeOK
  <2>5. \A other \in Chats \ {ch} :
           Alive(other)' => Alive(other) /\ flags'[cell[other]] = flags[cell[other]]
    <3>1. SUFFICES ASSUME NEW other \in Chats \ {ch}, Alive(other)'
                   PROVE  Alive(other) /\ flags'[cell[other]] = flags[cell[other]]
      OBVIOUS
    <3>2. Alive(other)
      BY <2>2, <3>1 DEF Alive
    <3>3. cell[other] \in Cells /\ cell[other] # cell[ch]
      BY <3>2 DEF CellsFit, TypeOK, Alive
    <3>4. QED
      BY <1>1, <3>2, <3>3
  <2>6. SUFFICES ASSUME NEW other \in Chats, Alive(other)'
                 PROVE  /\ \A u \in Urls : cell'[other] \in requests'[u].chats =>
                              IF requests'[u].answer = NoAnswer
                              THEN flags'[cell'[other]] \notin Answers
                              ELSE flags'[cell'[other]] = requests'[u].answer
                        /\ (\A u \in Urls : cell'[other] \notin requests'[u].chats) =>
                              flags'[cell'[other]] \notin Answers
    BY DEF FlagsFit
  <2>7. CASE other = ch
    BY <2>1, <2>3, <2>7
  <2>8. CASE other # ch
    BY <2>1, <2>2, <2>4, <2>5, <2>6, <2>8 DEF FlagsFit
  <2>9. QED
    BY <2>7, <2>8
<1>2. ASSUME NEW t \in Threads, NEW ch \in Chats, Create(t, ch) PROVE FlagsFit'
  BY <1>1, <1>2 DEF Create
<1>3. ASSUME NEW t \in Threads, StartFeatures(t) PROVE FlagsFit'
  <2>1. CASE UNCHANGED <<cell, flags, requests>>
    BY <2>1 DEF FlagsFit, Alive
  <2>2. CASE /\ cell' = [cell EXCEPT ![on[t]] = NewCell]
             /\ requests' = LetGo(NewCell)
             /\ flags' = [flags EXCEPT ![cell[on[t]]] = AllOff]
    <3>1. \A c \in Cells :
             flags'[c] = flags[c] \/ (c = cell[on[t]] /\ flags'[c] = AllOff)
      BY <2>2 DEF TypeOK
    <3>2. QED
      BY <1>1, <1>3, <2>2, <3>1, StartsReads
  <2>3. QED
    BY <1>3, <2>1, <2>2, StartsReads
<1>4. ASSUME NEW t \in Threads, Join(t) PROVE FlagsFit'
  <2> DEFINE c == cell[on[t]]
             r == requests[url[on[t]]]
  <2>1. /\ on[t] \in Chats /\ Alive(on[t]) /\ c \in Cells
        /\ UNCHANGED cell
        /\ \A ch \in Chats \ {on[t]} : Alive(ch) => cell[ch] \in Cells \ {c}
    BY <1>4, JoinsChats DEF CellsFit, TypeOK, Alive
  <2>2. /\ flags'[c] = JoinedFlags(r, c)
        /\ \A d \in Cells \ {c} : flags'[d] = flags[d]
    BY <1>4, <2>1 DEF Join, TypeOK
  <2>3. \A u \in Urls : requests'[u].answer = requests[u].answer
    BY <1>4, JoinsRead
  <2>4. r.answer = NoAnswer => flags[c] \notin Answers
    BY <1>4, <2>1, JoinsChats DEF FlagsFit, WaitsOnlyThere
  <2>5. IF r.answer = NoAnswer THEN flags'[c] \notin Answers
                               ELSE flags'[c] = r.answer
    BY <2>2, <2>4 DEF JoinedFlags
  <2> HIDE DEF c, r
  <2>6. ASSUME NEW u \in Urls, c \in requests'[u].chats
        PROVE  IF requests'[u].answer = NoAnswer
               THEN flags'[c] \notin Answers
               ELSE flags'[c] = requests'[u].answer
    <3>1. u = url[on[t]]
      BY <1>4, <2>6, JoinsChats DEF WaitsOnlyThere, c
    <3>2. QED
      BY <2>3, <2>5, <3>1 DEF r
  <2>7. ASSUME NEW ch \in Chats \ {on[t]}, Alive(ch)
        PROVE  /\ flags'[cell[ch]] = flags[cell[ch]]
               /\ \A u \in Urls : cell[ch] \in requests'[u].chats
                                     <=> cell[ch] \in requests[u].chats
    BY <1>4, <2>1, <2>2, <2>7, JoinsChats
  <2>8. c \in requests'[url[on[t]]].chats /\ url[on[t]] \in Urls
    BY <1>4, JoinsChats DEF c
  <2>9. QED
    BY <2>1, <2>3, <2>6, <2>7, <2>8 DEF FlagsFit, Alive, c
<1>5. CASE \A ch \in Chats :
              Alive(ch)' =>
                 /\ Alive(ch) /\ cell'[ch] = cell[ch]
                 /\ \A u \in Urls :
                       cell[ch] \in requests'[u].chats <=> cell[ch] \in requests[u].chats
  <2>1. ASSUME NEW ch \in Chats, SetFeatureSwitches(ch) PROVE FlagsFit'
    <3>1. \A u \in Urls : cell[ch] \notin requests[u].chats
      BY <2>1, UrlsAssumption DEF SetFeatureSwitches, CallerAnswers, WaitsOnlyThere
    <3>2. /\ cell[ch] \in Cells /\ flags'[cell[ch]] = FromCaller
          /\ \A other \in Chats \ {ch} :
                Alive(other) => flags'[cell[other]] = flags[cell[other]]
      BY <2>1 DEF SetFeatureSwitches, CellsFit, TypeOK, Alive
    <3>3. UNCHANGED requests
      BY <2>1 DEF SetFeatureSwitches
    <3>4. QED
      BY <1>5, <3>1, <3>2, <3>3, NothingIsNoAnswer DEF FlagsFit
  <2>2. ASSUME NEW g \in gets, NEW result \in AnswersOf(g.url) \cup {NoAnswer},
               Complete(g, result)
        PROVE  FlagsFit'
    <3>1. SUFFICES ASSUME NEW ch \in Chats, Alive(ch)'
                   PROVE  /\ \A u \in Urls : cell'[ch] \in requests'[u].chats =>
                                IF requests'[u].answer = NoAnswer
                                THEN flags'[cell'[ch]] \notin Answers
                                ELSE flags'[cell'[ch]] = requests'[u].answer
                          /\ (\A u \in Urls : cell'[ch] \notin requests'[u].chats) =>
                                flags'[cell'[ch]] \notin Answers
      BY DEF FlagsFit
    <3>2. /\ Alive(ch) /\ cell'[ch] = cell[ch]
          /\ \A u \in Urls :
                cell[ch] \in requests'[u].chats <=> cell[ch] \in requests[u].chats
      BY <1>5, <3>1
    <3>3. CASE /\ flags'[cell[ch]] = flags[cell[ch]]
               /\ \A u \in Urls : cell[ch] \in requests'[u].chats
                                     => requests'[u].answer = requests[u].answer
      BY <3>2, <3>3 DEF FlagsFit
    <3>4. CASE /\ flags'[cell[ch]] = result /\ result # NoAnswer
               /\ cell[ch] \in requests[g.url].chats
               /\ requests'[g.url].answer = result
      <4>1. g.url \in Urls /\ \A u \in Urls : cell[ch] \in requests[u].chats => u = g.url
        BY <3>2, <3>4 DEF WaitsOnlyThere, IdsFit
      <4>2. QED
        BY <3>2, <3>4, <4>1
    <3>5. QED
      BY <2>2, <3>2, <3>3, <3>4, AnswersThoseWaiting
  <2>3. CASE /\ \A u \in Urls : requests'[u].answer = requests[u].answer
             /\ \A ch \in Chats : Alive(ch)' => flags'[cell[ch]] = flags[cell[ch]]
    BY <1>5, <2>3 DEF FlagsFit
  <2>4. QED
    BY <1>2, <1>3, <1>4, <2>1, <2>2, <2>3, StepsOfFlags
<1>6. QED
  BY <1>2, <1>3, <1>4, <1>5, StepsOfWaiting

-----------------------------------------------------------------------------
(***************************************************************************)
(* The invariant is inductive, and the properties follow.                  *)
(***************************************************************************)
LEMMA InitIInv == Init => IInv
<1> SUFFICES ASSUME Init PROVE IInv
  OBVIOUS
<1>1. TypeOK
  <2>1. \A i \in Identities : UrlOf[i] \in Urls
    BY UrlOfIdentity
  <2>2. AllOff \in CellValues /\ NoAnswer \in CellValues \cup {NoAnswer}
    BY DEF CellValues
  <2>3. NoRequest \in [id : ReadIds \cup {NoRead}, expired : BOOLEAN,
                       chats : SUBSET Cells, answer : CellValues \cup {NoAnswer}]
    BY <2>2 DEF NoRequest
  <2>4. NoGet \in Gets
    BY EpochsAreNumbers DEF NoGet, Gets
  <2>5. QED
    BY <2>2, <2>3, <2>4, EpochsAreNumbers DEF Init, TypeOK, Identities
<1>2. CallsFit
  BY DEF Init, CallsFit
<1>3. CellsFit
  BY DEF Init, CellsFit, Alive
<1>4. UrlsFit /\ WaitsOnlyThere /\ WaitsAtItsUrl /\ FlagsFit
  BY DEF Init, UrlsFit, WaitsOnlyThere, WaitsAtItsUrl, FlagsFit, Alive
<1>5. IdsFit /\ JoinableReadIsPerformed
  BY DEF Init, IdsFit, JoinableReadIsPerformed, NoRequest
<1>6. AnswersFit
  BY DEF Init, AnswersFit, NoRequest
<1>7. QED
  BY <1>1, <1>2, <1>3, <1>4, <1>5, <1>6 DEF IInv

LEMMA NextIInv == IInv /\ [Next]_vars => IInv'
<1> SUFFICES ASSUME IInv, [Next]_vars PROVE IInv'
  OBVIOUS
<1>1. QED
  BY TypeNext, CallsNext, CellsNext, UrlsNext, IdsNext, AnswersNext, JoinableNext,
     WaitsNext, FlagsNext
     DEF IInv

THEOREM Inductive == Spec => []IInv
  BY InitIInv, NextIInv, PTL DEF Spec

\* The state keeps its type.
THEOREM TypeCorrect == Spec => []TypeOK
<1>1. IInv => TypeOK
  BY DEF IInv
<1>2. QED
  BY <1>1, Inductive, PTL

\* A read that start_features lets a chat join is one a binding performs or is
\* about to: no replaced, late or failed GET leaves a read behind that nobody
\* will end.
THEOREM JoinableReadsArePerformed == Spec => []JoinableReadIsPerformed
<1>1. IInv => JoinableReadIsPerformed
  BY DEF IInv
<1>2. QED
  BY <1>1, Inductive, PTL

\* A chat that has started its reads waits in the read of its URL and in no
\* other, however often the read was replaced and identities changed.
THEOREM ChatsWaitAtTheirUrl == Spec => []WaitsAtItsUrl
<1>1. IInv => WaitsAtItsUrl
  BY DEF IInv
<1>2. QED
  BY <1>1, Inductive, PTL

\* The chats of a URL hold its latest answer, and none of another URL or of
\* the caller: who waits holds it, and every chat of the URL waits.
THEOREM ChatsShareTheLatestAnswer == Spec => []SharesLatestAnswer
<1>1. IInv => SharesLatestAnswer
  BY DEF IInv, WaitsAtItsUrl, FlagsFit, SharesLatestAnswer, Answers
<1>2. QED
  BY <1>1, Inductive, PTL

\* set_identity and the start of the reads that follows are two calls; when
\* no such call is under way for a chat, it reads its identity's URL.
THEOREM ChatsReadTheirIdentitysUrl == Spec => []ReadsItsIdentitysUrl
<1>1. IInv => ReadsItsIdentitysUrl
  BY DEF IInv, UrlsFit, ReadsItsIdentitysUrl
<1>2. QED
  BY <1>1, Inductive, PTL

\* Flags of its URL are those of the answer of the read a chat waits in.
LEMMA FlagsAreTheReads ==
    ASSUME IInv, NEW ch \in Chats, Alive(ch), flags[cell[ch]].from = url[ch]
    PROVE  /\ url[ch] \in Urls
           /\ cell[ch] \in requests[url[ch]].chats
           /\ requests[url[ch]].answer # NoAnswer
           /\ flags[cell[ch]] = requests[url[ch]].answer
<1> USE DEF IInv
<1>1. cell[ch] \in Cells /\ flags[cell[ch]] \in CellValues
  BY DEF TypeOK, Alive
<1>2. url[ch] \in Urls \cup {NoUrl}
  BY DEF TypeOK
<1>3. AllOff.from \notin Urls \cup {NoUrl} /\ FromCaller.from \notin Urls \cup {NoUrl}
  BY UrlsAssumption DEF AllOff, FromCaller, Flags, NoUrl
<1>4. flags[cell[ch]] \in Answers
  BY <1>1, <1>2, <1>3 DEF CellValues, Answers
<1>5. PICK u \in Urls : cell[ch] \in requests[u].chats
  BY <1>4 DEF FlagsFit
<1>6. url[ch] = u
  BY <1>5 DEF WaitsOnlyThere
<1>7. QED
  BY <1>4, <1>5, <1>6 DEF FlagsFit

\* As long as a chat stays with its URL, its flags are never replaced by ones
\* the server gave earlier or by none: complete_fetch takes results of the
\* read itself only, and its GET began after the answer it holds was given.
THEOREM FlagsGoForward == Spec => FlagsNeverGoBack
<1> DEFINE Forward ==
        \A ch \in Chats :
            Alive(ch) /\ Alive(ch)' /\ url'[ch] = url[ch] =>
                LET before == flags[cell[ch]]
                    after == flags'[cell'[ch]]
                IN  before.from = url[ch] =>
                       after.from = before.from /\ after.epoch >= before.epoch
<1>1. IInv /\ [Next]_vars => [Forward]_vars
  <2> SUFFICES ASSUME IInv, Next, NEW ch \in Chats, Alive(ch), Alive(ch)',
                      url'[ch] = url[ch], flags[cell[ch]].from = url[ch]
               PROVE  /\ flags'[cell'[ch]].from = flags[cell[ch]].from
                      /\ flags'[cell'[ch]].epoch >= flags[cell[ch]].epoch
    OBVIOUS
  <2> DEFINE u == url[ch]
             before == flags[cell[ch]]
  <2>1. /\ u \in Urls /\ cell[ch] \in requests[u].chats
        /\ requests[u].answer # NoAnswer /\ before = requests[u].answer
    BY FlagsAreTheReads
  <2>2. before \in AnswersOf(u) /\ before.epoch \in Int
    BY <2>1, AnswersHaveEpochs DEF IInv, AnswersFit
  <2>3. SUFFICES flags'[cell'[ch]] = before
                 \/ /\ flags'[cell'[ch]] \in AnswersOf(u)
                    /\ flags'[cell'[ch]].epoch >= before.epoch
    BY <2>2, AnswersHaveEpochs
  <2>4. cell[ch] \in Cells /\ \A other \in Chats \ {ch} : cell[other] # cell[ch]
    BY DEF IInv, TypeOK, CellsFit, Alive
  <2>5. ASSUME NEW t \in Threads, NEW other \in Chats, Create(t, other)
        PROVE  flags'[cell'[ch]] = before
    BY <2>5 DEF Create, IInv, TypeOK
  <2>6. ASSUME NEW t \in Threads, StartFeatures(t)
        PROVE  flags'[cell'[ch]] = before
    <3>1. CASE UNCHANGED <<cell, flags, requests>>
      BY <3>1
    <3>2. CASE /\ url[on[t]] # TargetUrl(on[t])
               /\ cell' = [cell EXCEPT ![on[t]] = NewCell]
               /\ flags' = [flags EXCEPT ![cell[on[t]]] = AllOff]
      <4>1. on[t] \in Chats \ {ch}
        BY <2>6, <3>2, StartsReads
      <4>2. cell'[ch] = cell[ch] /\ cell[on[t]] # cell[ch]
        BY <2>4, <3>2, <4>1 DEF IInv, TypeOK
      <4>3. QED
        BY <2>4, <3>2, <4>2 DEF IInv, TypeOK
    <3>3. QED
      BY <2>6, <3>1, <3>2, StartsReads
  <2>7. ASSUME NEW t \in Threads, Join(t)
        PROVE  flags'[cell'[ch]] = before
    <3>1. CASE on[t] = ch
      BY <2>1, <2>4, <2>7, <3>1 DEF Join, JoinedFlags, chatVars, IInv, TypeOK
    <3>2. CASE on[t] # ch
      <4>1. on[t] \in Chats /\ UNCHANGED cell
        BY <2>7, JoinsChats
      <4>2. QED
        BY <2>4, <2>7, <3>2, <4>1 DEF Join, IInv, TypeOK
    <3>3. QED
      BY <3>1, <3>2
  <2>8. ASSUME NEW other \in Chats, SetFeatureSwitches(other)
        PROVE  flags'[cell'[ch]] = before
    <3>1. other # ch
      BY <2>1, <2>8, UrlsAssumption DEF SetFeatureSwitches, CallerAnswers
    <3>2. QED
      BY <2>4, <2>8, <3>1 DEF SetFeatureSwitches, chatVars, IInv, TypeOK
  <2>9. ASSUME NEW g \in gets, NEW result \in AnswersOf(g.url) \cup {NoAnswer},
               Complete(g, result)
        PROVE  flags'[cell'[ch]] = before
               \/ /\ flags'[cell'[ch]] \in AnswersOf(u)
                  /\ flags'[cell'[ch]].epoch >= before.epoch
    <3>1. UNCHANGED cell
      BY <2>9, CompletesRead
    <3>2. CASE flags'[cell[ch]] = flags[cell[ch]]
      BY <3>1, <3>2
    <3>3. CASE /\ flags'[cell[ch]] = result /\ result # NoAnswer
               /\ cell[ch] \in requests[g.url].chats
               /\ requests[g.url].id = g.id
      <4>1. g.url = u
        BY <3>3 DEF IInv, IdsFit, WaitsOnlyThere
      <4>2. result \in AnswersOf(u) /\ result.epoch \in Int
        BY <3>3, <4>1, AnswersHaveEpochs
      <4>3. before.epoch <= g.since /\ g.since \in Int
        BY <2>1, <3>3, <4>1, EpochsAreNumbers DEF IInv, TypeOK, Gets, AnswersFit
      <4>4. server[u] \in Int
        BY <2>1, EpochsAreNumbers DEF IInv, TypeOK
      <4>5. g.since <= result.epoch
        BY <2>9, <3>3, <4>1, <4>3, <4>4 DEF Complete
      <4>6. QED
        BY <2>2, <3>1, <3>3, <4>2, <4>3, <4>5
    <3>4. QED
      BY <2>9, <3>2, <3>3, AnswersThoseWaiting
  <2>10. CASE \A other \in Chats : Alive(other)' => flags'[cell[other]] = flags[cell[other]]
                                                    /\ cell'[other] = cell[other]
    BY <2>10
  <2>11. QED
    BY <2>5, <2>6, <2>7, <2>8, <2>9, <2>10, StepsOfFlags, StepsOfWaiting
<1>2. QED
  BY <1>1, Inductive, PTL DEF Spec, FlagsNeverGoBack

=============================================================================
