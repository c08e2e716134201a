-------------------------- MODULE MentorTurn_proofs --------------------------
(***************************************************************************)
(* Proofs about MentorTurn, every safety property its run checks.  The     *)
(* limiter: its windows hold every admission of this life that is still    *)
(* younger than a window (WindowsAreFull), and a window that refused stays *)
(* full as long as the clock stands (RefusalsAreFair).  The transcript:    *)
(* text, rows and charge of a turn follow its program counter              *)
(* (RowsFollowPc).  The cache: entries carry the context they are keyed by *)
(* (CacheInv).                                                             *)
(***************************************************************************)
EXTENDS MentorTurn, FiniteSetTheorems, SequenceTheorems, WellFoundedInduction, TLAPS

Recent(turns) == {t \in turns : gate[t].at + Window > clock}

\* Where a turn is tells whether it was admitted, and to which life it belongs.
AdmissionFollowsPc == \A t \in Turn :
    /\ turn[t].pc # "new" => asker[t] \in Asker /\ asker[t].life <= life
    /\ Running(t) => asker[t].life = life
    /\ turn[t].pc \in {"new", "gate"} => gate[t].at = None
    /\ gate[t].at # None => gate[t].at <= clock

\* The limiter's windows hold all that RateBound counts.
WindowsAreFull ==
    /\ \A u \in User : Recent(OfUser(u)) \subseteq userHits[u]
    /\ \A p \in Pair : Recent(OfPair(p)) \subseteq pairHits[p]

Bounded == \A c \in Nat :
    /\ \A u \in User : Cardinality(During(OfUser(u), c)) <= UserLimit
    /\ \A p \in Pair : Cardinality(During(OfPair(p), c)) <= PairLimit

HitsAreAdmitted ==
    /\ \A u \in User : \A t \in userHits[u] : gate[t].at # None
    /\ \A p \in Pair : \A t \in pairHits[p] : gate[t].at # None


----------------------------------------------------------------------------
(* Types. *)

LEMMA InitType == Init => TypeOK
<1> SUFFICES ASSUME Init PROVE TypeOK
    OBVIOUS
<1> USE MentorAssumption
<1>1. turn \in [Turn -> Request] /\ gate \in [Turn -> Passage] /\ asker \in [Turn -> Asker \cup {None}]
    BY DEF Init, Request, Passage, Place, Reply
<1>2. clock \in 0..MaxClock /\ life \in Nat /\ faults \in 0..MaxFaults
    BY DEF Init
<1>3. cache \in Seq(Entry)
    BY DEF Init
<1>4. userHits \in [User -> SUBSET Turn] /\ pairHits \in [Pair -> SUBSET Turn]
    BY DEF Init
<1>5. thread = {} /\ message = {} /\ ledger = {}
    BY DEF Init
<1> QED
    BY <1>1, <1>2, <1>3, <1>4, <1>5 DEF TypeOK

LEMMA WithoutKeyType ==
    ASSUME cache \in Seq(Entry), NEW key
    PROVE  WithoutKey(key) \in Seq(Entry)
<1>1. CASE At(key) = {}
    BY <1>1 DEF WithoutKey
<1>2. CASE At(key) # {}
    <2> DEFINE i == CHOOSE i \in At(key) : TRUE
    <2>1. i \in 1..Len(cache)
        BY <1>2 DEF At
    <2>2. WithoutKey(key) = SubSeq(cache, 1, i - 1) \o SubSeq(cache, i + 1, Len(cache))
        BY <1>2 DEF WithoutKey
    <2> HIDE DEF i
    <2>3. SubSeq(cache, 1, i - 1) \in Seq(Entry)
        BY <2>1
    <2>4. SubSeq(cache, i + 1, Len(cache)) \in Seq(Entry)
        BY <2>1
    <2> QED
        BY <2>2, <2>3, <2>4
<1> QED
    BY <1>1, <1>2

LEMMA CachedType ==
    ASSUME cache \in Seq(Entry), NEW entry \in Entry
    PROVE  Cached(entry) \in Seq(Entry)
<1>1. WithoutKey(entry.key) \in Seq(Entry)
    BY WithoutKeyType
<1>2. Len(cache) >= CacheSize => Tail(cache) \in Seq(Entry)
    BY MentorAssumption
<1> QED
    BY <1>1, <1>2 DEF Cached

LEMMA OldestType ==
    ASSUME NEW hits \in SUBSET Turn, hits # {}, \A t \in hits : gate[t].at \in Nat
    PROVE  Oldest(hits) \in hits
<1> DEFINE Ats == {gate[t].at : t \in hits}
           Less == OpToRel(<, Nat)
<1>1. PICK a \in Ats : \A b \in Ats : ~ (<<b, a>> \in Less)
    <2>1. IsWellFoundedOn(Less, Nat)
        BY NatLessThanWellFounded
    <2>2. Ats \subseteq Nat /\ Ats # {}
        OBVIOUS
    <2> HIDE DEF Ats, Less
    <2> QED
        BY <2>1, <2>2, WFMin
<1>2. PICK s \in hits : gate[s].at = a
    OBVIOUS
<1>3. ASSUME NEW r \in hits PROVE gate[s].at <= gate[r].at
    <2>1. ~ (<<gate[r].at, a>> \in Less)
        BY <1>1
    <2>2. ~ (gate[r].at < a)
        BY <2>1, <1>2 DEF OpToRel
    <2> QED
        BY <2>2, <1>2
<1> QED
    BY <1>3 DEF Oldest

LEMMA RetryType ==
    ASSUME clock \in Nat, NEW hits \in SUBSET Turn, hits # {},
           \A t \in hits : gate[t].at \in Nat
    PROVE  RetryAfter(hits) \in Nat
<1> USE MentorAssumption
<1>1. gate[Oldest(hits)].at \in Nat
    BY OldestType
<1> DEFINE d == (gate[Oldest(hits)].at + Window) - clock
<1>2. d \in Int
    BY <1>1
<1> HIDE DEF d
<1>3. CeilSeconds(d) \in Int
    BY <1>2 DEF CeilSeconds
<1>4. AtLeastOne(CeilSeconds(d)) \in Nat
    BY <1>3 DEF AtLeastOne
<1> QED
    BY <1>4 DEF RetryAfter, d

AfterGate(t) ==
    \/ BuildFromCache(t)
    \/ BuildFromLoaders(t)
    \/ Loaded(t)
    \/ Ask(t)
    \/ Attack(t)
    \/ Find(t)
    \/ CreateThread(t)
    \/ SayUser(t)
    \/ SayMentor(t)
    \/ RecordSpend(t)
    \/ GatewayFails(t)
    \/ QueryFails(t)

\* What a turn's steps after the gate leave alone.
Quiet ==
    /\ UNCHANGED <<clock, life, asker, gate, userHits, pairHits>>
    /\ \A s \in Turn :
        \/ turn'[s].pc = turn[s].pc
        \/ Running(s) /\ turn[s].pc # "gate" /\ turn'[s].pc \notin {"new", "gate"}

\* What a turn knows by the time it gets there: how many attacks are left, and
\* the thread it writes to.
KnowsItsPlace == \A t \in Turn :
    /\ turn[t].pc \in {"new", "gate", "load", "ask"} => turn[t].left = Attacks
    /\ turn[t].pc = "attack" => turn[t].left > 0
    /\ turn[t].pc \in {"sayUser", "sayMentor", "spend"} => turn[t].thread \in Turn

LEMMA TextType ==
    ASSUME TypeOK, NEW t \in Turn, NEW leaked \in BOOLEAN
    PROVE  Deliverable(t, leaked) \in SUBSET Secret
BY DEF TypeOK, Request, Deliverable

LEMMA RowType ==
    ASSUME TypeOK, NEW t \in Turn, turn[t].thread \in Turn, NEW role \in Role
    PROVE  Row(t, role) \in Message
BY DEF TypeOK, Request, Row, Message

LEMMA RequestWith ==
    ASSUME NEW r \in Request
    PROVE  /\ \A pc \in Place, c \in Context : [r EXCEPT !.pc = pc, !.context = c] \in Request
           /\ \A c \in Context : [r EXCEPT !.context = c] \in Request
           /\ \A pc \in Place : [r EXCEPT !.pc = pc] \in Request
           /\ \A pc \in Place, text \in SUBSET Secret :
                  [r EXCEPT !.pc = pc, !.text = text] \in Request
           /\ \A left \in 0..Attacks, leaked \in BOOLEAN :
                  [r EXCEPT !.left = left, !.leaked = leaked] \in Request
           /\ \A pc \in Place, s \in Turn : [r EXCEPT !.pc = pc, !.thread = s] \in Request
           /\ \A pc \in Place, reply \in Reply : [r EXCEPT !.pc = pc, !.reply = reply] \in Request
BY DEF Request

LEMMA TurnWith ==
    ASSUME turn \in [Turn -> Request], NEW t \in Turn, NEW q \in Request, turn' = [turn EXCEPT ![t] = q]
    PROVE  turn' \in [Turn -> Request]
OBVIOUS

LEMMA AfterGateFrame ==
    ASSUME NEW t \in Turn, AfterGate(t)
    PROVE  UNCHANGED <<clock, life, asker, gate, userHits, pairHits>>
BY DEF AfterGate, BuildFromCache, BuildFromLoaders, Loaded, Ask, Attack, Find, CreateThread, SayUser,
       SayMentor, RecordSpend, GatewayFails, QueryFails, world, process

\* The steps after the gate keep requests well typed and know their place.
LEMMA AfterGateTurn ==
    ASSUME TypeOK, AdmissionFollowsPc, KnowsItsPlace, NEW t \in Turn, AfterGate(t)
    PROVE  turn' \in [Turn -> Request] /\ Quiet /\ KnowsItsPlace'
<1> USE MentorAssumption
<1>0. turn \in [Turn -> Request] /\ cache \in Seq(Entry)
    BY DEF TypeOK
<1>f. UNCHANGED <<clock, life, asker, gate, userHits, pairHits>>
    BY AfterGateFrame
<1>r. \A r \in Request :
        /\ r.pc \in Place /\ r.context \in Context \cup {None} /\ r.left \in 0..Attacks
        /\ r.leaked \in BOOLEAN /\ r.text \in SUBSET Secret /\ r.thread \in Turn \cup {None}
        /\ r.reply \in Reply
    BY DEF Request
<1>p. /\ {"ask", "attack", "find", "create", "sayUser", "sayMentor", "spend", "done"} \subseteq Place
      /\ {"ok", "error"} \subseteq Reply
    BY DEF Place, Reply
<1>k. Running(t) => ContextOf(t) \in Context
    BY DEF AdmissionFollowsPc, ContextOf, Context, Running, Asker
<1>1. CASE BuildFromCache(t)
    <2>1. PICK c \in Context : turn' = [turn EXCEPT ![t].pc = "ask", ![t].context = c]
        <3>1. PICK i \in DOMAIN cache :
                  turn' = [turn EXCEPT ![t].pc = "ask", ![t].context = cache[i].value]
            BY <1>1 DEF BuildFromCache, Hit, At
        <3>2. cache[i] \in Entry
            BY <1>0
        <3>3. cache[i].value \in Context
            BY <3>2 DEF Entry
        <3> QED
            BY <3>1, <3>3
    <2>3. turn[t].pc = "load"
        BY <1>1 DEF BuildFromCache
    <2>4. turn' \in [Turn -> Request]
        <3>1. [turn[t] EXCEPT !.pc = "ask", !.context = c] \in Request
            BY <1>0, <1>p, RequestWith
        <3>2. turn' = [turn EXCEPT ![t] = [turn[t] EXCEPT !.pc = "ask", !.context = c]]
            BY <1>0, <2>1
        <3> QED
            BY <1>0, <3>1, <3>2, TurnWith
    <2> QED
        BY <1>0, <1>f, <2>1, <2>3, <2>4 DEF Quiet, KnowsItsPlace, Running, Request
<1>2. CASE BuildFromLoaders(t)
    <2>1. turn[t].pc = "load" /\ turn' = [turn EXCEPT ![t].context = ContextOf(t)]
        BY <1>2 DEF BuildFromLoaders
    <2>2. ContextOf(t) \in Context
        BY <1>k, <2>1 DEF Running
    <2>4. turn' \in [Turn -> Request]
        <3>1. [turn[t] EXCEPT !.context = ContextOf(t)] \in Request
            BY <1>0, <1>p, <2>2, RequestWith
        <3>2. turn' = [turn EXCEPT ![t] = [turn[t] EXCEPT !.context = ContextOf(t)]]
            BY <1>0, <2>1
        <3> QED
            BY <1>0, <3>1, <3>2, TurnWith
    <2> QED
        BY <1>0, <1>f, <2>1, <2>4 DEF Quiet, KnowsItsPlace, Running, Request
<1>3. CASE Loaded(t) \/ SayUser(t) \/ SayMentor(t) \/ (Find(t) /\ ThreadsOf(t) = {})
    <2>1. PICK pc \in {"ask", "sayMentor", "spend", "create"} :
              /\ turn' = [turn EXCEPT ![t].pc = pc]
              /\ \/ pc = "ask" /\ turn[t].pc = "load"
                 \/ pc = "create" /\ turn[t].pc = "find"
                 \/ pc \in {"sayMentor", "spend"} /\ turn[t].pc \in {"sayUser", "sayMentor"}
        BY <1>3 DEF Loaded, SayUser, SayMentor, Find
    <2>2. turn' \in [Turn -> Request]
        BY <1>0, <1>p, <2>1, SMTT(60) DEF Request
    <2> QED
        BY <1>0, <1>f, <2>1, <2>2 DEF Quiet, KnowsItsPlace, Running, Request
<1>4. CASE Ask(t)
    <2>1. PICK text \in SUBSET Secret : turn' = [turn EXCEPT ![t].pc = "attack", ![t].text = text]
        BY <1>4 DEF Ask
    <2>2. turn[t].pc = "ask"
        BY <1>4 DEF Ask
    <2>4. turn' \in [Turn -> Request]
        <3>1. [turn[t] EXCEPT !.pc = "attack", !.text = text] \in Request
            BY <1>0, <1>p, RequestWith
        <3>2. turn' = [turn EXCEPT ![t] = [turn[t] EXCEPT !.pc = "attack", !.text = text]]
            BY <1>0, <2>1
        <3> QED
            BY <1>0, <3>1, <3>2, TurnWith
    <2> QED
        BY <1>0, <1>f, <2>1, <2>2, <2>4, SMTT(60) DEF Quiet, KnowsItsPlace, Running, Request
<1>5. CASE Attack(t)
    <2>1. turn[t].pc = "attack"
        BY <1>5 DEF Attack
    <2>2. PICK left \in 0..Attacks, leaked \in BOOLEAN, text \in SUBSET Secret :
              turn' = [turn EXCEPT ![t].left = left, ![t].leaked = leaked,
                                   ![t].pc = IF left = 0 THEN "find" ELSE "attack", ![t].text = text]
        <3>0. PICK leaks \in BOOLEAN :
                  turn' = [turn EXCEPT ![t].left = turn[t].left - 1, ![t].leaked = turn[t].leaked \/ leaks,
                                       ![t].pc = IF turn[t].left = 1 THEN "find" ELSE "attack",
                                       ![t].text = IF turn[t].left = 1
                                                   THEN Deliverable(t, turn[t].leaked \/ leaks)
                                                   ELSE turn[t].text]
            BY <1>0, <1>5 DEF Attack
        <3> DEFINE leaked == turn[t].leaked \/ leaks
                   left == turn[t].left - 1
                   text == IF turn[t].left = 1 THEN Deliverable(t, leaked) ELSE turn[t].text
        <3>1. left \in 0..Attacks /\ (turn[t].left = 1 <=> left = 0)
            BY <1>0, <2>1 DEF Request, KnowsItsPlace
        <3>2. leaked \in BOOLEAN
            OBVIOUS
        <3>3. Deliverable(t, leaked) \in SUBSET Secret
            BY <3>2, TextType
        <3>4. text \in SUBSET Secret
            BY <1>0, <3>3 DEF Request
        <3>5. turn' = [turn EXCEPT ![t].left = left, ![t].leaked = leaked,
                                   ![t].pc = IF left = 0 THEN "find" ELSE "attack",
                                   ![t].text = text]
            BY <3>0, <3>1
        <3> HIDE DEF leaked, left, text
        <3> QED
            BY <3>1, <3>2, <3>4, <3>5
    <2>3. left = 0 \/ left > 0
        OBVIOUS
    <2> DEFINE pc == IF left = 0 THEN "find" ELSE "attack"
    <2>5. pc \in Place
        BY <1>p
    <2>4. turn' \in [Turn -> Request]
        <3> HIDE DEF pc
        <3>1. turn' = [turn EXCEPT ![t].left = left, ![t].leaked = leaked, ![t].pc = pc, ![t].text = text]
            BY <2>2 DEF pc
        <3>2. [turn[t] EXCEPT !.left = left, !.leaked = leaked] \in Request
            BY <1>0, RequestWith
        <3>3. \A r \in Request : [r EXCEPT !.pc = pc, !.text = text] \in Request
            BY <2>5, RequestWith
        <3> DEFINE q == [[turn[t] EXCEPT !.left = left, !.leaked = leaked] EXCEPT !.pc = pc, !.text = text]
        <3>4. q \in Request
            BY <3>2, <3>3
        <3>5. turn' = [turn EXCEPT ![t] = q]
            BY <1>0, <3>1
        <3> HIDE DEF q
        <3> QED
            BY <1>0, <3>4, <3>5
    <2> QED
        BY <1>0, <1>f, <2>1, <2>2, <2>3, <2>4, SMTT(60) DEF Quiet, KnowsItsPlace, Running, Request
<1>6. CASE (Find(t) /\ ThreadsOf(t) # {}) \/ CreateThread(t)
    <2>1. PICK s \in Turn : turn' = [turn EXCEPT ![t].pc = "sayUser", ![t].thread = s]
        BY <1>6 DEF Find, CreateThread, ThreadsOf, TypeOK
    <2>2. turn[t].pc \in {"find", "create"}
        BY <1>6 DEF Find, CreateThread
    <2>4. turn' \in [Turn -> Request]
        <3>1. [turn[t] EXCEPT !.pc = "sayUser", !.thread = s] \in Request
            BY <1>0, <1>p, RequestWith
        <3>2. turn' = [turn EXCEPT ![t] = [turn[t] EXCEPT !.pc = "sayUser", !.thread = s]]
            BY <1>0, <2>1
        <3> QED
            BY <1>0, <3>1, <3>2, TurnWith
    <2> QED
        BY <1>0, <1>f, <2>1, <2>2, <2>4 DEF Quiet, KnowsItsPlace, Running, Request
<1>7. CASE RecordSpend(t) \/ GatewayFails(t) \/ QueryFails(t)
    <2>1. PICK reply \in {"ok", "error"} : turn' = [turn EXCEPT ![t].pc = "done", ![t].reply = reply]
        BY <1>7 DEF RecordSpend, GatewayFails, QueryFails, Ends
    <2>2. turn[t].pc \in {"ask", "attack", "find", "create", "sayUser", "sayMentor", "spend"}
        BY <1>7 DEF RecordSpend, GatewayFails, QueryFails
    <2>4. turn' \in [Turn -> Request]
        <3>1. [turn[t] EXCEPT !.pc = "done", !.reply = reply] \in Request
            BY <1>0, <1>p, RequestWith
        <3>2. turn' = [turn EXCEPT ![t] = [turn[t] EXCEPT !.pc = "done", !.reply = reply]]
            BY <1>0, <2>1
        <3> QED
            BY <1>0, <3>1, <3>2, TurnWith
    <2> QED
        BY <1>0, <1>f, <2>1, <2>2, <2>4 DEF Quiet, KnowsItsPlace, Running, Request
<1> QED
    BY <1>1, <1>2, <1>3, <1>4, <1>5, <1>6, <1>7 DEF AfterGate

LEMMA AfterGateType ==
    ASSUME TypeOK, AdmissionFollowsPc, KnowsItsPlace, NEW t \in Turn, AfterGate(t)
    PROVE  TypeOK'
<1> USE MentorAssumption
<1>0. /\ turn \in [Turn -> Request] /\ cache \in Seq(Entry) /\ faults \in 0..MaxFaults
      /\ clock \in 0..MaxClock /\ thread \subseteq Turn /\ message \subseteq Message
      /\ ledger \subseteq Turn
    BY DEF TypeOK
<1>1. turn' \in [Turn -> Request]
    BY AfterGateTurn
<1>2. UNCHANGED <<clock, life, asker, gate, userHits, pairHits>>
    BY AfterGateFrame
<1>3. cache' \in Seq(Entry)
    <2>1. CASE BuildFromLoaders(t)
        BY <1>0, <2>1, WithoutKeyType DEF BuildFromLoaders
    <2>2. CASE Loaded(t)
        <3> DEFINE entry == [key |-> Key(t), value |-> turn[t].context, expires |-> clock + Ttl]
        <3>1. cache' = Cached(entry) /\ turn[t].pc = "load" /\ turn[t].context # None
            BY <2>2 DEF Loaded
        <3>2. turn[t].context \in Context
            BY <1>0, <3>1 DEF Request
        <3>3. Key(t) \in Context
            BY <3>1 DEF AdmissionFollowsPc, Key, ContextOf, Context, Asker
        <3>4. entry \in Entry
            BY <1>0, <3>2, <3>3 DEF Entry
        <3> HIDE DEF entry
        <3> QED
            BY <1>0, <3>1, <3>4, CachedType
    <2>3. CASE ~BuildFromLoaders(t) /\ ~Loaded(t)
        <3>1. cache' = cache
            BY <2>3 DEF AfterGate, BuildFromCache, Ask, Attack, Find, CreateThread, SayUser, SayMentor,
                        RecordSpend, GatewayFails, QueryFails, process
        <3> QED
            BY <1>0, <3>1
    <2> QED
        BY <2>1, <2>2, <2>3
<1>4. thread' \subseteq Turn
    <2>1. thread' = thread \/ thread' = thread \cup {t}
        BY DEF AfterGate, BuildFromCache, BuildFromLoaders, Loaded, Ask, Attack, Find, CreateThread,
               SayUser, SayMentor, RecordSpend, GatewayFails, QueryFails, rows
    <2> QED
        BY <1>0, <2>1
<1>5. message' \subseteq Message
    <2>1. \/ message' = message
          \/ /\ turn[t].pc \in {"sayUser", "sayMentor"}
             /\ \E role \in Role : message' = message \cup {Row(t, role)}
        BY DEF AfterGate, BuildFromCache, BuildFromLoaders, Loaded, Ask, Attack, Find, CreateThread,
               SayUser, SayMentor, RecordSpend, GatewayFails, QueryFails, rows, Role
    <2>2. turn[t].pc \in {"sayUser", "sayMentor"} => \A role \in Role : Row(t, role) \in Message
        BY RowType DEF KnowsItsPlace
    <2> QED
        BY <1>0, <2>1, <2>2
<1>6. ledger' \subseteq Turn
    <2>1. ledger' = ledger \/ ledger' = ledger \cup {t}
        BY DEF AfterGate, BuildFromCache, BuildFromLoaders, Loaded, Ask, Attack, Find, CreateThread,
               SayUser, SayMentor, RecordSpend, GatewayFails, QueryFails, process, Charged
    <2> QED
        BY <1>0, <2>1
<1>7. faults' \in 0..MaxFaults
    <2>1. faults' = faults \/ (faults < MaxFaults /\ faults' = faults + 1)
        BY DEF AfterGate, BuildFromCache, BuildFromLoaders, Loaded, Ask, Attack, Find, CreateThread,
               SayUser, SayMentor, RecordSpend, GatewayFails, QueryFails
    <2> QED
        BY <1>0, <2>1
<1> QED
    BY <1>1, <1>2, <1>3, <1>4, <1>5, <1>6, <1>7 DEF TypeOK

LEMMA ArriveKeeps ==
    ASSUME TypeOK, AdmissionFollowsPc, KnowsItsPlace, NEW t \in Turn, Arrive(t)
    PROVE  TypeOK' /\ AdmissionFollowsPc' /\ KnowsItsPlace'
<1>0. turn \in [Turn -> Request] /\ asker \in [Turn -> Asker \cup {None}] /\ life \in Nat
    BY DEF TypeOK
<1>1. PICK a \in Asker, pc \in {"done", "gate"}, reply \in {"misconfigured", "none"} :
          /\ a.life = life
          /\ asker' = [asker EXCEPT ![t] = a]
          /\ turn' = [turn EXCEPT ![t].pc = pc, ![t].reply = reply]
    BY <1>0 DEF Arrive, Asker
<1>2. turn[t].pc = "new" /\ UNCHANGED <<clock, life, gate, process, rows, faults>>
    BY DEF Arrive
<1>3. pc \in Place /\ reply \in Reply
    BY DEF Place, Reply
<1>4. turn' \in [Turn -> Request] /\ asker' \in [Turn -> Asker \cup {None}]
    BY <1>0, <1>1, <1>3, ZenonT(60) DEF Request
<1>5. TypeOK'
    BY <1>2, <1>4 DEF TypeOK, process, rows
<1>6. AdmissionFollowsPc'
    BY <1>0, <1>1, <1>2, <1>4 DEF AdmissionFollowsPc, Running, Request
<1>7. KnowsItsPlace'
    BY <1>0, <1>1, <1>2 DEF KnowsItsPlace, Request
<1> QED
    BY <1>5, <1>6, <1>7

LEMMA RestartKeeps ==
    ASSUME TypeOK, AdmissionFollowsPc, KnowsItsPlace, Restart
    PROVE  TypeOK' /\ AdmissionFollowsPc' /\ KnowsItsPlace'
<1> USE MentorAssumption
<1>0. turn \in [Turn -> Request] /\ faults \in 0..MaxFaults /\ life \in Nat
    BY DEF TypeOK
<1>p. "done" \in Place /\ "dropped" \in Reply
    BY DEF Place, Reply
<1>1. /\ faults < MaxFaults /\ faults' = faults + 1 /\ life' = life + 1
      /\ turn' = [t \in Turn |-> IF Running(t)
                                 THEN [turn[t] EXCEPT !.pc = "done", !.reply = "dropped"]
                                 ELSE turn[t]]
      /\ userHits' = [u \in User |-> {}] /\ pairHits' = [p \in Pair |-> {}]
      /\ cache' = <<>> /\ ledger' = {}
      /\ UNCHANGED <<clock, asker, gate, rows>>
    BY DEF Restart
<1>2. ASSUME NEW t \in Turn
      PROVE  /\ turn'[t] \in Request
             /\ \/ turn'[t].pc = "done" /\ Running(t)
                \/ turn'[t] = turn[t] /\ ~Running(t)
    BY <1>0, <1>p, <1>1, ZenonT(60) DEF Request
<1>3. turn' \in [Turn -> Request]
    BY <1>1, <1>2
<1>h. userHits' \in [User -> SUBSET Turn] /\ pairHits' \in [Pair -> SUBSET Turn]
    BY <1>1
<1>n. faults < MaxFaults /\ faults' = faults + 1 /\ life' = life + 1
    BY DEF Restart
<1>c. faults' \in 0..MaxFaults /\ life' \in Nat
    BY <1>0, <1>n
<1>q. cache' \in Seq(Entry)
    <2>1. cache' = <<>>
        BY DEF Restart
    <2> QED
        BY <2>1
<1>4. TypeOK'
    BY <1>1, <1>3, <1>h, <1>c, <1>q DEF TypeOK, rows
<1>5. AdmissionFollowsPc'
    <2> SUFFICES ASSUME NEW t \in Turn
                 PROVE  /\ turn'[t].pc # "new" => asker[t] \in Asker /\ asker[t].life <= life'
                        /\ ~ (turn'[t].pc \notin {"new", "done"})
                        /\ turn'[t].pc \in {"new", "gate"} => gate[t].at = None
                        /\ gate[t].at # None => gate[t].at <= clock
        BY <1>1 DEF AdmissionFollowsPc, Running
    <2>1. asker[t] \in Asker => asker[t].life \in Nat
        BY DEF Asker
    <2>2. /\ turn[t].pc # "new" => asker[t] \in Asker /\ asker[t].life <= life
          /\ turn[t].pc \in {"new", "gate"} => gate[t].at = None
          /\ gate[t].at # None => gate[t].at <= clock
        BY DEF AdmissionFollowsPc
    <2>3. CASE turn'[t].pc = "done" /\ turn[t].pc \notin {"new", "done"}
        BY <1>0, <1>n, <2>1, <2>2, <2>3
    <2>4. CASE turn'[t] = turn[t] /\ turn[t].pc \in {"new", "done"}
        BY <1>0, <1>n, <2>1, <2>2, <2>4
    <2> QED
        BY <1>2, <2>3, <2>4 DEF Running
<1>6. KnowsItsPlace'
    BY <1>2 DEF KnowsItsPlace
<1> QED
    BY <1>4, <1>5, <1>6

LEMMA TickKeeps ==
    ASSUME TypeOK, AdmissionFollowsPc, KnowsItsPlace, Tick
    PROVE  TypeOK' /\ AdmissionFollowsPc' /\ KnowsItsPlace'
<1> USE MentorAssumption
<1>1. clock' = clock + 1 /\ clock' \in 0..MaxClock /\ clock \in Nat
    BY DEF Tick, TypeOK
<1>2. UNCHANGED <<life, asker, gate, turn, process, rows, faults>>
    BY DEF Tick
<1>3. TypeOK'
    BY <1>1, <1>2 DEF TypeOK, process, rows
<1>4. \A t \in Turn : gate[t].at \in Nat \cup {None}
    BY DEF TypeOK, Passage
<1>5. AdmissionFollowsPc'
    BY <1>1, <1>2, <1>4 DEF AdmissionFollowsPc, Running
<1>6. KnowsItsPlace'
    BY <1>2 DEF KnowsItsPlace
<1> QED
    BY <1>3, <1>5, <1>6

\* What the gate sees: windows of admitted turns.
LEMMA LiveHits ==
    ASSUME TypeOK, NEW hits \in SUBSET Turn, \A t \in hits : gate[t].at # None
    PROVE  /\ Live(hits) \subseteq hits /\ IsFiniteSet(Live(hits)) /\ Cardinality(Live(hits)) \in Nat
           /\ \A t \in Live(hits) : gate[t].at \in Nat
           /\ Live(hits) # {} => RetryAfter(Live(hits)) \in Nat
<1> USE MentorAssumption
<1>1. Live(hits) \subseteq hits
    BY DEF Live
<1>2. IsFiniteSet(Live(hits)) /\ Cardinality(Live(hits)) \in Nat
    BY <1>1, FS_Subset, FS_CardinalityType
<1>3. \A t \in Live(hits) : gate[t].at \in Nat
    BY <1>1 DEF TypeOK, Passage
<1>4. Live(hits) # {} => RetryAfter(Live(hits)) \in Nat
    <2>1. Live(hits) \in SUBSET Turn /\ clock \in Nat
        BY <1>1 DEF TypeOK
    <2> QED
        BY <1>3, <2>1, RetryType
<1> QED
    BY <1>1, <1>2, <1>3, <1>4

\* The outcomes of the gate.
LEMMA GateOutcome ==
    ASSUME TypeOK, AdmissionFollowsPc, HitsAreAdmitted, NEW t \in Turn, Gate(t)
    PROVE  /\ turn[t].pc = "gate" /\ asker[t] \in Asker /\ asker[t].life = life
           /\ UNCHANGED <<clock, life, asker, cache, ledger, rows, faults>>
           /\ LET u == asker[t].user
                  p == PairOf(t)
              IN  /\ u \in User /\ p \in Pair
                  /\ Live(userHits[u]) \subseteq userHits[u] /\ IsFiniteSet(Live(userHits[u]))
                  /\ Live(pairHits[p]) \subseteq pairHits[p] /\ IsFiniteSet(Live(pairHits[p]))
                  /\ \/ /\ Cardinality(Live(userHits[u])) < UserLimit
                        /\ Cardinality(Live(pairHits[p])) < PairLimit
                        /\ gate' = [gate EXCEPT ![t] = Admission]
                        /\ userHits' = [userHits EXCEPT ![u] = Live(userHits[u]) \cup {t}]
                        /\ pairHits' = [pairHits EXCEPT ![p] = Live(pairHits[p]) \cup {t}]
                        /\ turn' = [turn EXCEPT ![t].pc = "load"]
                     \/ /\ \E g \in Passage : g.at = None /\ gate' = [gate EXCEPT ![t] = g]
                        /\ userHits' = [userHits EXCEPT ![u] = Live(userHits[u])]
                        /\ pairHits' = [pairHits EXCEPT ![p] = Live(pairHits[p])]
                        /\ turn' = [turn EXCEPT ![t].pc = "done", ![t].reply = "limited"]
<1> USE MentorAssumption
<1> DEFINE u == asker[t].user
           p == PairOf(t)
           ofUser == Live(userHits[u])
           ofPair == Live(pairHits[p])
<1>1. turn[t].pc = "gate" /\ UNCHANGED <<clock, life, asker, cache, ledger, rows, faults>>
    BY DEF Gate
<1>2. asker[t] \in Asker /\ asker[t].life = life
    BY <1>1 DEF AdmissionFollowsPc, Running
<1>3. u \in User /\ p \in Pair
    BY <1>2 DEF Asker, PairOf, Pair
<1>4. userHits[u] \in SUBSET Turn /\ pairHits[p] \in SUBSET Turn
    BY <1>3 DEF TypeOK
<1>5. /\ ofUser \subseteq userHits[u] /\ IsFiniteSet(ofUser) /\ Cardinality(ofUser) \in Nat
      /\ ofUser # {} => RetryAfter(ofUser) \in Nat
    BY <1>3, <1>4, LiveHits DEF HitsAreAdmitted
<1>6. /\ ofPair \subseteq pairHits[p] /\ IsFiniteSet(ofPair) /\ Cardinality(ofPair) \in Nat
      /\ ofPair # {} => RetryAfter(ofPair) \in Nat
    BY <1>3, <1>4, LiveHits DEF HitsAreAdmitted
<1>7. Cardinality(ofUser) >= UserLimit => ofUser # {}
    BY FS_EmptySet
<1>8. Cardinality(ofPair) >= PairLimit => ofPair # {}
    BY FS_EmptySet
<1>9. clock \in Nat
    BY DEF TypeOK
<1>10. Cardinality(ofUser) >= UserLimit => Refusal("user", ofUser) \in Passage /\ Refusal("user", ofUser).at = None
    BY <1>5, <1>7, <1>9 DEF Refusal, Passage
<1>11. Cardinality(ofPair) >= PairLimit => Refusal("pair", ofPair) \in Passage /\ Refusal("pair", ofPair).at = None
    BY <1>6, <1>8, <1>9 DEF Refusal, Passage
<1>12. \/ /\ ~(Cardinality(ofPair) >= PairLimit) /\ ~(Cardinality(ofUser) >= UserLimit)
          /\ gate' = [gate EXCEPT ![t] = Admission]
          /\ userHits' = [userHits EXCEPT ![u] = ofUser \cup {t}]
          /\ pairHits' = [pairHits EXCEPT ![p] = ofPair \cup {t}]
          /\ turn' = [turn EXCEPT ![t].pc = "load"]
       \/ /\ Cardinality(ofPair) >= PairLimit \/ Cardinality(ofUser) >= UserLimit
          /\ gate' = [gate EXCEPT ![t] = IF Cardinality(ofPair) >= PairLimit
                                         THEN Refusal("pair", ofPair) ELSE Refusal("user", ofUser)]
          /\ userHits' = [userHits EXCEPT ![u] = ofUser]
          /\ pairHits' = [pairHits EXCEPT ![p] = ofPair]
          /\ turn' = [turn EXCEPT ![t].pc = "done", ![t].reply = "limited"]
    BY DEF Gate, Ends
<1> HIDE DEF u, p, ofUser, ofPair
<1>13. \/ /\ Cardinality(ofUser) < UserLimit /\ Cardinality(ofPair) < PairLimit
          /\ gate' = [gate EXCEPT ![t] = Admission]
          /\ userHits' = [userHits EXCEPT ![u] = ofUser \cup {t}]
          /\ pairHits' = [pairHits EXCEPT ![p] = ofPair \cup {t}]
          /\ turn' = [turn EXCEPT ![t].pc = "load"]
       \/ /\ \E g \in Passage : g.at = None /\ gate' = [gate EXCEPT ![t] = g]
          /\ userHits' = [userHits EXCEPT ![u] = ofUser]
          /\ pairHits' = [pairHits EXCEPT ![p] = ofPair]
          /\ turn' = [turn EXCEPT ![t].pc = "done", ![t].reply = "limited"]
    BY <1>5, <1>6, <1>10, <1>11, <1>12
<1> QED
    BY <1>1, <1>2, <1>3, <1>5, <1>6, <1>13 DEF u, p, ofUser, ofPair

LEMMA GateKeeps ==
    ASSUME TypeOK, AdmissionFollowsPc, KnowsItsPlace, HitsAreAdmitted, NEW t \in Turn, Gate(t)
    PROVE  TypeOK' /\ AdmissionFollowsPc' /\ KnowsItsPlace' /\ HitsAreAdmitted'
<1> DEFINE u == asker[t].user
           p == PairOf(t)
<1>0. /\ turn \in [Turn -> Request] /\ gate \in [Turn -> Passage]
      /\ userHits \in [User -> SUBSET Turn] /\ pairHits \in [Pair -> SUBSET Turn] /\ clock \in Nat
    BY DEF TypeOK
<1>1. /\ turn[t].pc = "gate" /\ asker[t] \in Asker /\ asker[t].life = life
      /\ UNCHANGED <<clock, life, asker, cache, ledger, rows, faults>>
      /\ u \in User /\ p \in Pair
    BY GateOutcome
<1>2. PICK g \in Passage, pc \in {"load", "done"}, reply \in {"none", "limited"},
           ofUser \in SUBSET Turn, ofPair \in SUBSET Turn :
          /\ gate' = [gate EXCEPT ![t] = g]
          /\ turn' = [turn EXCEPT ![t].pc = pc, ![t].reply = reply] \/ turn' = [turn EXCEPT ![t].pc = pc]
          /\ userHits' = [userHits EXCEPT ![u] = ofUser]
          /\ pairHits' = [pairHits EXCEPT ![p] = ofPair]
          /\ g.at = None \/ g.at = clock
          /\ ofUser \subseteq userHits[u] \/ (ofUser \subseteq userHits[u] \cup {t} /\ g.at = clock)
          /\ ofPair \subseteq pairHits[p] \/ (ofPair \subseteq pairHits[p] \cup {t} /\ g.at = clock)
    <2>1. Admission \in Passage /\ Admission.at = clock
        BY <1>0 DEF Admission, Passage
    <2>2. userHits[u] \in SUBSET Turn /\ pairHits[p] \in SUBSET Turn
        BY <1>0, <1>1
    <2>3. \/ /\ gate' = [gate EXCEPT ![t] = Admission]
             /\ userHits' = [userHits EXCEPT ![u] = Live(userHits[u]) \cup {t}]
             /\ pairHits' = [pairHits EXCEPT ![p] = Live(pairHits[p]) \cup {t}]
             /\ turn' = [turn EXCEPT ![t].pc = "load"]
          \/ /\ \E g \in Passage : g.at = None /\ gate' = [gate EXCEPT ![t] = g]
             /\ userHits' = [userHits EXCEPT ![u] = Live(userHits[u])]
             /\ pairHits' = [pairHits EXCEPT ![p] = Live(pairHits[p])]
             /\ turn' = [turn EXCEPT ![t].pc = "done", ![t].reply = "limited"]
        BY GateOutcome
    <2>4. Live(userHits[u]) \subseteq userHits[u] /\ Live(pairHits[p]) \subseteq pairHits[p]
        BY GateOutcome
    <2>5. /\ Live(userHits[u]) \in SUBSET Turn /\ Live(userHits[u]) \cup {t} \in SUBSET Turn
          /\ Live(pairHits[p]) \in SUBSET Turn /\ Live(pairHits[p]) \cup {t} \in SUBSET Turn
        BY <2>2, <2>4
    <2> HIDE DEF u, p
    <2>6. CASE gate' = [gate EXCEPT ![t] = Admission] /\ turn' = [turn EXCEPT ![t].pc = "load"]
               /\ userHits' = [userHits EXCEPT ![u] = Live(userHits[u]) \cup {t}]
               /\ pairHits' = [pairHits EXCEPT ![p] = Live(pairHits[p]) \cup {t}]
        BY <2>1, <2>4, <2>5, <2>6
    <2>7. CASE /\ \E g \in Passage : g.at = None /\ gate' = [gate EXCEPT ![t] = g]
               /\ turn' = [turn EXCEPT ![t].pc = "done", ![t].reply = "limited"]
               /\ userHits' = [userHits EXCEPT ![u] = Live(userHits[u])]
               /\ pairHits' = [pairHits EXCEPT ![p] = Live(pairHits[p])]
        BY <2>4, <2>5, <2>7
    <2> QED
        BY <2>3, <2>6, <2>7
<1> HIDE DEF u, p
<1>3. pc \in Place /\ reply \in Reply
    BY DEF Place, Reply
<1>4. turn' \in [Turn -> Request] /\ gate' \in [Turn -> Passage]
    BY <1>0, <1>2, <1>3 DEF Request
<1>5. userHits' \in [User -> SUBSET Turn] /\ pairHits' \in [Pair -> SUBSET Turn]
    BY <1>0, <1>1, <1>2
<1>6. TypeOK'
    BY <1>1, <1>4, <1>5 DEF TypeOK, rows
<1>7. \A s \in Turn : s # t => turn'[s] = turn[s] /\ gate'[s] = gate[s]
    BY <1>0, <1>2
<1>8. turn'[t].pc = pc /\ turn'[t].left = turn[t].left /\ gate'[t] = g
    BY <1>0, <1>2 DEF Request
<1>9. AdmissionFollowsPc'
    BY <1>0, <1>1, <1>2, <1>7, <1>8 DEF AdmissionFollowsPc, Running
<1>10. KnowsItsPlace'
    BY <1>1, <1>2, <1>7, <1>8 DEF KnowsItsPlace
<1>11. gate[t].at = None /\ None \notin Nat
    BY <1>1, MentorAssumption DEF AdmissionFollowsPc
<1>12. \A v \in User : \A s \in userHits'[v] : gate'[s].at # None
    <2> SUFFICES ASSUME NEW v \in User, NEW s \in userHits'[v] PROVE gate'[s].at # None
        OBVIOUS
    <2>1. s \in Turn
        BY <1>5
    <2>2. s \in userHits[v] \/ (s = t /\ g.at = clock)
        BY <1>0, <1>1, <1>2
    <2> QED
        BY <1>0, <1>7, <1>8, <1>11, <2>1, <2>2 DEF HitsAreAdmitted
<1>13. \A q \in Pair : \A s \in pairHits'[q] : gate'[s].at # None
    <2> SUFFICES ASSUME NEW q \in Pair, NEW s \in pairHits'[q] PROVE gate'[s].at # None
        OBVIOUS
    <2>1. s \in Turn
        BY <1>5
    <2>2. s \in pairHits[q] \/ (s = t /\ g.at = clock)
        BY <1>0, <1>1, <1>2
    <2> QED
        BY <1>0, <1>7, <1>8, <1>11, <2>1, <2>2 DEF HitsAreAdmitted
<1> QED
    BY <1>6, <1>9, <1>10, <1>12, <1>13 DEF HitsAreAdmitted

----------------------------------------------------------------------------
(* The sliding window. *)

\* Steps that admit nobody leave the counted sets alone, or shrink them.
LEMMA SameAdmissions ==
    ASSUME TypeOK, AdmissionFollowsPc, WindowsAreFull, Bounded, clock' \in Nat, clock' >= clock,
           UNCHANGED <<life, userHits, pairHits>>,
           \A s \in Turn : gate'[s].at = gate[s].at,
           \A s \in Turn : gate[s].at # None => asker'[s] = asker[s]
    PROVE  WindowsAreFull' /\ Bounded'
<1> USE MentorAssumption
<1>0. \A s \in Turn : gate[s].at \in Nat \cup {None}
    BY DEF TypeOK, Passage
<1>1. ASSUME NEW u \in User
      PROVE  /\ Recent(OfUser(u))' \subseteq Recent(OfUser(u))
             /\ \A c : During(OfUser(u), c)' = During(OfUser(u), c)
    <2>1. OfUser(u)' = OfUser(u)
        BY DEF OfUser, Admitted
    <2>2. \A s \in OfUser(u) : gate[s].at \in Nat
        BY <1>0 DEF OfUser, Admitted
    <2>3. OfUser(u) \subseteq Turn
        BY DEF OfUser, Admitted
    <2>4. Recent(OfUser(u))' \subseteq Recent(OfUser(u))
        BY <2>1, <2>2, <2>3, SMTT(60) DEF Recent, TypeOK
    <2> QED
        BY <2>1, <2>3, <2>4 DEF During
<1>2. ASSUME NEW p \in Pair
      PROVE  /\ Recent(OfPair(p))' \subseteq Recent(OfPair(p))
             /\ \A c : During(OfPair(p), c)' = During(OfPair(p), c)
    <2>1. OfPair(p)' = OfPair(p)
        BY DEF OfPair, Admitted, PairOf
    <2>2. \A s \in OfPair(p) : gate[s].at \in Nat
        BY <1>0 DEF OfPair, Admitted
    <2>3. OfPair(p) \subseteq Turn
        BY DEF OfPair, Admitted
    <2>4. Recent(OfPair(p))' \subseteq Recent(OfPair(p))
        BY <2>1, <2>2, <2>3, SMTT(60) DEF Recent, TypeOK
    <2> QED
        BY <2>1, <2>3, <2>4 DEF During
<1>3. WindowsAreFull'
    BY <1>1, <1>2 DEF WindowsAreFull
<1>4. Bounded'
    BY <1>1, <1>2 DEF Bounded
<1> QED
    BY <1>3, <1>4

\* A set the limiter's window contains has room for one more.
LEMMA OneMore ==
    ASSUME NEW L \in SUBSET Turn, NEW W \in SUBSET L, NEW Limit \in Nat, NEW t,
           Cardinality(L) < Limit
    PROVE  Cardinality(W \cup {t}) <= Limit
<1>1. IsFiniteSet(L) /\ IsFiniteSet(W) /\ Cardinality(W) <= Cardinality(L)
    BY MentorAssumption, FS_Subset
<1>2. Cardinality(W) \in Nat /\ Cardinality(L) \in Nat
    BY <1>1, FS_CardinalityType
<1>3. Cardinality(W \cup {t}) = IF t \in W THEN Cardinality(W) ELSE Cardinality(W) + 1
    BY <1>1, FS_AddElement
<1> QED
    BY <1>1, <1>2, <1>3

LEMMA Admit ==
    ASSUME TypeOK, AdmissionFollowsPc, HitsAreAdmitted, WindowsAreFull, Bounded,
           NEW t \in Turn, Gate(t), gate' = [gate EXCEPT ![t] = Admission],
           Cardinality(Live(userHits[asker[t].user])) < UserLimit,
           Cardinality(Live(pairHits[PairOf(t)])) < PairLimit,
           userHits' = [userHits EXCEPT ![asker[t].user] = Live(userHits[asker[t].user]) \cup {t}],
           pairHits' = [pairHits EXCEPT ![PairOf(t)] = Live(pairHits[PairOf(t)]) \cup {t}]
    PROVE  WindowsAreFull' /\ Bounded'
<1> USE MentorAssumption
<1>0. /\ clock \in Nat /\ \A s \in Turn : gate[s].at \in Nat \cup {None}
      /\ gate \in [Turn -> Passage] /\ userHits \in [User -> SUBSET Turn]
      /\ pairHits \in [Pair -> SUBSET Turn]
    BY DEF TypeOK, Passage
<1>1. /\ turn[t].pc = "gate" /\ asker[t] \in Asker /\ asker[t].life = life
      /\ UNCHANGED <<clock, life, asker>>
      /\ asker[t].user \in User /\ PairOf(t) \in Pair
    BY GateOutcome
<1>2. gate[t].at = None /\ gate'[t].at = clock /\ \A s \in Turn : s # t => gate'[s] = gate[s]
    BY <1>0, <1>1 DEF AdmissionFollowsPc, Admission
<1>3. Admitted' = Admitted \cup {t} /\ t \notin Admitted
    BY <1>0, <1>1, <1>2 DEF Admitted
<1>4. \A s \in Admitted : gate[s].at \in Nat /\ gate[s].at <= clock
    BY <1>0 DEF Admitted, AdmissionFollowsPc
<1>5. ASSUME NEW u \in User
      PROVE  /\ Recent(OfUser(u))' \subseteq userHits'[u]
             /\ \A c \in Nat : Cardinality(During(OfUser(u), c)') <= UserLimit
    <2> DEFINE S == OfUser(u)
               L == Live(userHits[u])
    <2>1. S \in SUBSET Turn /\ S \subseteq Admitted
        BY DEF OfUser, Admitted
    <2>2. {s \in S : gate[s].at + Window > clock} \subseteq L
        BY DEF WindowsAreFull, Recent, Live
    <2>3. CASE u = asker[t].user
        <3>1. S' = S \cup {t}
            BY <1>1, <1>3, <2>3 DEF OfUser
        <3>2. userHits'[u] = L \cup {t}
            BY <1>0, <2>3
        <3>3. Recent(S)' \subseteq userHits'[u]
            BY <1>1, <1>2, <1>3, <2>1, <2>2, <3>1, <3>2 DEF Recent
        <3>4. ASSUME NEW c \in Nat PROVE Cardinality(During(S, c)') <= UserLimit
            <4> DEFINE W == {s \in S : gate[s].at >= c /\ gate[s].at < c + Window}
            <4>1. During(S, c)' = W \/ (During(S, c)' = W \cup {t} /\ clock >= c /\ clock < c + Window)
                BY <1>2, <1>3, <2>1, <3>1 DEF During
            <4>2. Cardinality(W) <= UserLimit
                BY DEF Bounded, During
            <4>3. clock >= c /\ clock < c + Window => Cardinality(W \cup {t}) <= UserLimit
                <5>1. clock >= c /\ clock < c + Window => W \subseteq L
                    BY <1>0, <1>4, <2>1, <2>2
                <5>2. Cardinality(L) < UserLimit /\ L \in SUBSET Turn /\ UserLimit \in Nat
                    BY <1>0, <2>3 DEF Live
                <5> HIDE DEF L, W
                <5> QED
                    BY <5>1, <5>2, OneMore
            <4> QED
                BY <4>1, <4>2, <4>3
        <3> QED
            BY <3>3, <3>4
    <2>4. CASE u # asker[t].user
        <3>1. S' = S
            BY <1>1, <1>3, <2>4 DEF OfUser
        <3>2. userHits'[u] = userHits[u]
            BY <1>0, <2>4
        <3>3. Recent(S)' \subseteq userHits'[u]
            BY <1>1, <1>2, <1>3, <2>1, <3>1, <3>2 DEF Recent, WindowsAreFull
        <3>4. \A c \in Nat : During(S, c)' = During(S, c)
            BY <1>2, <1>3, <2>1, <3>1 DEF During
        <3> QED
            BY <3>3, <3>4 DEF Bounded
    <2> QED
        BY <2>3, <2>4
<1>6. ASSUME NEW p \in Pair
      PROVE  /\ Recent(OfPair(p))' \subseteq pairHits'[p]
             /\ \A c \in Nat : Cardinality(During(OfPair(p), c)') <= PairLimit
    <2> DEFINE S == OfPair(p)
               L == Live(pairHits[p])
    <2>1. S \in SUBSET Turn /\ S \subseteq Admitted
        BY DEF OfPair, Admitted
    <2>2. {s \in S : gate[s].at + Window > clock} \subseteq L
        BY DEF WindowsAreFull, Recent, Live
    <2>3. CASE p = PairOf(t)
        <3>1. S' = S \cup {t}
            BY <1>1, <1>3, <2>3 DEF OfPair, PairOf
        <3>2. pairHits'[p] = L \cup {t}
            BY <1>0, <2>3
        <3>3. Recent(S)' \subseteq pairHits'[p]
            BY <1>1, <1>2, <1>3, <2>1, <2>2, <3>1, <3>2 DEF Recent
        <3>4. ASSUME NEW c \in Nat PROVE Cardinality(During(S, c)') <= PairLimit
            <4> DEFINE W == {s \in S : gate[s].at >= c /\ gate[s].at < c + Window}
            <4>1. During(S, c)' = W \/ (During(S, c)' = W \cup {t} /\ clock >= c /\ clock < c + Window)
                BY <1>2, <1>3, <2>1, <3>1 DEF During
            <4>2. Cardinality(W) <= PairLimit
                BY DEF Bounded, During
            <4>3. clock >= c /\ clock < c + Window => Cardinality(W \cup {t}) <= PairLimit
                <5>1. clock >= c /\ clock < c + Window => W \subseteq L
                    BY <1>0, <1>4, <2>1, <2>2
                <5>2. Cardinality(L) < PairLimit /\ L \in SUBSET Turn /\ PairLimit \in Nat
                    BY <1>0, <2>3 DEF Live
                <5> HIDE DEF L, W
                <5> QED
                    BY <5>1, <5>2, OneMore
            <4> QED
                BY <4>1, <4>2, <4>3
        <3> QED
            BY <3>3, <3>4
    <2>4. CASE p # PairOf(t)
        <3>1. S' = S
            BY <1>1, <1>3, <2>4 DEF OfPair, PairOf
        <3>2. pairHits'[p] = pairHits[p]
            BY <1>0, <2>4
        <3>3. Recent(S)' \subseteq pairHits'[p]
            BY <1>1, <1>2, <1>3, <2>1, <3>1, <3>2 DEF Recent, WindowsAreFull
        <3>4. \A c \in Nat : During(S, c)' = During(S, c)
            BY <1>2, <1>3, <2>1, <3>1 DEF During
        <3> QED
            BY <3>3, <3>4 DEF Bounded
    <2> QED
        BY <2>3, <2>4
<1>7. WindowsAreFull'
    BY <1>5, <1>6 DEF WindowsAreFull
<1>8. Bounded'
    BY <1>5, <1>6 DEF Bounded
<1> QED
    BY <1>7, <1>8

RateInv ==
    TypeOK /\ AdmissionFollowsPc /\ KnowsItsPlace /\ HitsAreAdmitted /\ WindowsAreFull /\ Bounded

LEMMA NobodyAdmitted ==
    ASSUME Admitted = {}
    PROVE  Bounded /\ WindowsAreFull
<1> USE MentorAssumption
<1>1. \A u \in User : OfUser(u) = {}
    BY DEF OfUser
<1>2. \A p \in Pair : OfPair(p) = {}
    BY DEF OfPair
<1>3. Cardinality({}) = 0
    BY FS_EmptySet
<1>4. \A c \in Nat : (\A u \in User : During(OfUser(u), c) = {}) /\ (\A p \in Pair : During(OfPair(p), c) = {})
    BY <1>1, <1>2 DEF During
<1>l. {UserLimit, PairLimit} \subseteq Nat
    BY MentorAssumption
<1>g. Cardinality({}) <= UserLimit /\ Cardinality({}) <= PairLimit
    BY <1>3, <1>l
<1>5. Bounded
    BY <1>g, <1>4 DEF Bounded
<1>6. WindowsAreFull
    BY <1>1, <1>2 DEF WindowsAreFull, Recent
<1> QED
    BY <1>5, <1>6

LEMMA InitRate == Init => RateInv
<1> SUFFICES ASSUME Init PROVE RateInv
    OBVIOUS
<1>1. TypeOK
    BY InitType
<1>2. AdmissionFollowsPc /\ KnowsItsPlace
    BY DEF Init, AdmissionFollowsPc, KnowsItsPlace, Running
<1>3. HitsAreAdmitted
    BY DEF Init, HitsAreAdmitted
<1>4. Admitted = {}
    BY DEF Init, Admitted
<1> QED
    BY <1>1, <1>2, <1>3, <1>4, NobodyAdmitted DEF RateInv

LEMMA NobodyAdmittedNext ==
    ASSUME Admitted' = {}
    PROVE  Bounded' /\ WindowsAreFull'
<1> USE MentorAssumption
<1>1. \A u \in User : OfUser(u)' = {}
    BY DEF OfUser
<1>2. \A p \in Pair : OfPair(p)' = {}
    BY DEF OfPair
<1>3. Cardinality({}) = 0
    BY FS_EmptySet
<1>4. \A c \in Nat : (\A u \in User : During(OfUser(u), c)' = {})
                     /\ (\A p \in Pair : During(OfPair(p), c)' = {})
    BY <1>1, <1>2 DEF During
<1>l. {UserLimit, PairLimit} \subseteq Nat
    BY MentorAssumption
<1>g. Cardinality({}) <= UserLimit /\ Cardinality({}) <= PairLimit
    BY <1>3, <1>l
<1>5. Bounded'
    BY <1>g, <1>4 DEF Bounded
<1>6. WindowsAreFull'
    BY <1>1, <1>2 DEF WindowsAreFull, Recent
<1> QED
    BY <1>5, <1>6

\* The limiter's invariant is inductive.
LEMMA NextRate ==
    ASSUME RateInv, [Next]_vars
    PROVE  RateInv'
<1> USE DEF RateInv
<1>c. clock \in Nat
    BY DEF TypeOK
<1>1. ASSUME NEW t \in Turn, Arrive(t) PROVE RateInv'
    <2>1. TypeOK' /\ AdmissionFollowsPc' /\ KnowsItsPlace'
        BY <1>1, ArriveKeeps
    <2>2. /\ turn[t].pc = "new" /\ UNCHANGED <<clock, life, gate, process, rows, faults>>
          /\ \A s \in Turn : s # t => asker'[s] = asker[s]
        BY <1>1 DEF Arrive, TypeOK
    <2>3. gate[t].at = None
        BY <2>2 DEF AdmissionFollowsPc
    <2>4. WindowsAreFull' /\ Bounded'
        BY <1>c, <2>2, <2>3, SameAdmissions DEF process
    <2>5. HitsAreAdmitted'
        BY <2>2 DEF HitsAreAdmitted, process
    <2> QED
        BY <2>1, <2>4, <2>5
<1>2. ASSUME NEW t \in Turn, Gate(t) PROVE RateInv'
    <2>1. TypeOK' /\ AdmissionFollowsPc' /\ KnowsItsPlace' /\ HitsAreAdmitted'
        BY <1>2, GateKeeps
    <2> DEFINE u == asker[t].user
               p == PairOf(t)
    <2>2. CASE /\ Cardinality(Live(userHits[u])) < UserLimit
               /\ Cardinality(Live(pairHits[p])) < PairLimit
               /\ gate' = [gate EXCEPT ![t] = Admission]
               /\ userHits' = [userHits EXCEPT ![u] = Live(userHits[u]) \cup {t}]
               /\ pairHits' = [pairHits EXCEPT ![p] = Live(pairHits[p]) \cup {t}]
        BY <1>2, <2>1, <2>2, Admit
    <2>3. CASE /\ \E g \in Passage : g.at = None /\ gate' = [gate EXCEPT ![t] = g]
               /\ userHits' = [userHits EXCEPT ![u] = Live(userHits[u])]
               /\ pairHits' = [pairHits EXCEPT ![p] = Live(pairHits[p])]
        <3>1. turn[t].pc = "gate" /\ UNCHANGED <<clock, life, asker>>
            BY <1>2, GateOutcome
        <3>2. gate[t].at = None
            BY <3>1 DEF AdmissionFollowsPc
        <3>3. \A s \in Turn : gate'[s].at = gate[s].at
            BY <2>3, <3>2 DEF TypeOK
        <3>4. \A v \in User : OfUser(v)' = OfUser(v) /\ OfUser(v) \subseteq Turn
            BY <3>1, <3>3 DEF OfUser, Admitted
        <3>5. \A v \in Pair : OfPair(v)' = OfPair(v) /\ OfPair(v) \subseteq Turn
            BY <3>1, <3>3 DEF OfPair, Admitted, PairOf
        <3>6. Bounded'
            <4>1. \A c \in Nat : /\ \A v \in User : During(OfUser(v), c)' = During(OfUser(v), c)
                                 /\ \A v \in Pair : During(OfPair(v), c)' = During(OfPair(v), c)
                BY <3>3, <3>4, <3>5 DEF During
            <4> QED
                BY <4>1 DEF Bounded
        <3>7. WindowsAreFull'
            <4>1. ASSUME NEW v \in User PROVE Recent(OfUser(v))' \subseteq userHits'[v]
                <5>1. Recent(OfUser(v))' = Recent(OfUser(v))
                    BY <3>1, <3>3, <3>4 DEF Recent
                <5>2. Recent(OfUser(v)) \subseteq userHits[v]
                    BY DEF WindowsAreFull
                <5>3. userHits'[v] = userHits[v] \/ userHits'[v] = Live(userHits[v])
                    BY <2>3 DEF TypeOK
                <5>4. Recent(OfUser(v)) \subseteq Live(userHits[v])
                    BY <5>2 DEF Recent, Live
                <5> QED
                    BY <5>1, <5>2, <5>3, <5>4
            <4>2. ASSUME NEW v \in Pair PROVE Recent(OfPair(v))' \subseteq pairHits'[v]
                <5>1. Recent(OfPair(v))' = Recent(OfPair(v))
                    BY <3>1, <3>3, <3>5 DEF Recent
                <5>2. Recent(OfPair(v)) \subseteq pairHits[v]
                    BY DEF WindowsAreFull
                <5>3. pairHits'[v] = pairHits[v] \/ pairHits'[v] = Live(pairHits[v])
                    BY <2>3 DEF TypeOK
                <5>4. Recent(OfPair(v)) \subseteq Live(pairHits[v])
                    BY <5>2 DEF Recent, Live
                <5> QED
                    BY <5>1, <5>2, <5>3, <5>4
            <4> QED
                BY <4>1, <4>2 DEF WindowsAreFull
        <3> QED
            BY <2>1, <3>6, <3>7
    <2> HIDE DEF RateInv
    <2> QED
        BY <1>2, <2>2, <2>3, GateOutcome DEF RateInv
<1>3. ASSUME NEW t \in Turn, AfterGate(t) PROVE RateInv'
    <2>1. TypeOK'
        BY <1>3, AfterGateType
    <2>2. Quiet /\ KnowsItsPlace'
        BY <1>3, AfterGateTurn
    <2>3. UNCHANGED <<clock, life, asker, gate, userHits, pairHits>>
        BY <2>2 DEF Quiet
    <2>4. AdmissionFollowsPc'
        BY <2>2, <2>3 DEF AdmissionFollowsPc, Quiet, Running
    <2>5. HitsAreAdmitted'
        BY <2>3 DEF HitsAreAdmitted
    <2>6. WindowsAreFull' /\ Bounded'
        BY <1>c, <2>3, SameAdmissions
    <2> QED
        BY <2>1, <2>2, <2>4, <2>5, <2>6
<1>4. CASE Tick
    <2>1. TypeOK' /\ AdmissionFollowsPc' /\ KnowsItsPlace'
        BY <1>4, TickKeeps
    <2>2. UNCHANGED <<life, asker, gate, userHits, pairHits>> /\ clock' \in Nat /\ clock' >= clock
        BY <1>c, <1>4 DEF Tick, process
    <2>3. WindowsAreFull' /\ Bounded'
        BY <2>2, SameAdmissions
    <2>4. HitsAreAdmitted'
        BY <2>2 DEF HitsAreAdmitted
    <2> QED
        BY <2>1, <2>3, <2>4
<1>5. CASE Restart
    <2>1. TypeOK' /\ AdmissionFollowsPc' /\ KnowsItsPlace'
        BY <1>5, RestartKeeps
    <2>2. /\ life' = life + 1 /\ UNCHANGED <<asker, gate>>
          /\ userHits' = [u \in User |-> {}] /\ pairHits' = [p \in Pair |-> {}]
        BY <1>5 DEF Restart
    <2>3. \A s \in Turn : gate[s].at # None => asker[s].life <= life /\ asker[s].life \in Nat
        BY DEF AdmissionFollowsPc, Asker
    <2>4. Admitted' = {}
        BY <2>2, <2>3 DEF Admitted, TypeOK
    <2>5. WindowsAreFull' /\ Bounded'
        BY <2>4, NobodyAdmittedNext
    <2>6. HitsAreAdmitted'
        BY <2>2 DEF HitsAreAdmitted
    <2> QED
        BY <2>1, <2>5, <2>6
<1>6. CASE UNCHANGED vars
    <2>1. UNCHANGED <<clock, life, asker, gate, turn, userHits, pairHits, cache, thread, message,
                      ledger, faults>>
        BY <1>6 DEF vars
    <2>2. TypeOK' /\ AdmissionFollowsPc' /\ KnowsItsPlace' /\ HitsAreAdmitted'
        BY <2>1 DEF TypeOK, AdmissionFollowsPc, KnowsItsPlace, HitsAreAdmitted, Running
    <2>3. WindowsAreFull' /\ Bounded'
        BY <1>c, <2>1, SameAdmissions
    <2> QED
        BY <2>2, <2>3
<1>7. Next => \/ \E t \in Turn : Arrive(t) \/ Gate(t) \/ AfterGate(t)
              \/ Tick
              \/ Restart
    BY DEF Next, Step, AfterGate
<1> HIDE DEF RateInv
<1> QED
    BY <1>1, <1>2, <1>3, <1>4, <1>5, <1>6, <1>7

\* Every state of the mentor is well typed.
THEOREM TypeCorrect == Spec => []TypeOK
<1>1. RateInv => TypeOK
    BY DEF RateInv
<1> QED
    BY InitRate, NextRate, <1>1, PTL DEF Spec

\* The rate limit holds wherever a window is laid: runMentorRequest behind
\* InMemoryMentorRateLimiter.check.
THEOREM RateIsBounded == Spec => []RateBound
<1>1. RateInv => RateBound
    BY MentorAssumption DEF RateInv, Bounded, RateBound
<1> QED
    BY InitRate, NextRate, <1>1, PTL DEF Spec

----------------------------------------------------------------------------
(* The transcript. *)

Said(t, role, s) == \E m \in message : m.turn = t /\ m.role = role /\ m.thread = s
Told(t) == \E s \in ThreadsOf(t) : \A role \in Role : Said(t, role, s)

\* What a turn's place says of its text, its rows and its charge.
Follows(t) ==
    /\ turn[t].pc \in {"find", "create", "sayUser", "sayMentor", "spend"} =>
           turn[t].text \cap Targets[asker[t].policy] = {}
    /\ turn[t].pc \in {"sayUser", "sayMentor", "spend"} => turn[t].thread \in ThreadsOf(t)
    /\ turn[t].pc \in {"sayMentor", "spend"} => Said(t, "user", turn[t].thread)
    /\ turn[t].pc = "spend" => Said(t, "assistant", turn[t].thread)
    /\ turn[t].reply = "ok" => turn[t].pc = "done" /\ (asker[t].life = life => t \in ledger)
    /\ t \in ledger => Told(t)

Clean(m) == m.role = "assistant" => m.text \cap Targets[asker[m.turn].policy] = {}

\* A turn that has not arrived has left no row.
RowsAreOwned ==
    /\ \A s \in thread : turn[s].pc # "new"
    /\ \A m \in message : turn[m.turn].pc # "new"

RowsFollowPc == (\A t \in Turn : Follows(t)) /\ (\A m \in message : Clean(m)) /\ RowsAreOwned

\* One turn that has arrived takes a step, and rows are only added, in its name.
OneTurn(t) ==
    /\ UNCHANGED <<life, asker>>
    /\ turn[t].pc # "new"
    /\ \A s \in Turn : s # t => turn'[s] = turn[s]
    /\ turn'[t].pc # "new"
    /\ thread \subseteq thread' /\ thread' \subseteq thread \cup {t}
    /\ message \subseteq message'
    /\ \A m \in message' : m \in message \/ m.turn = t
    /\ ledger \subseteq ledger' /\ ledger' \subseteq ledger \cup {t}

LEMMA RowsStay ==
    ASSUME NEW t \in Turn, OneTurn(t), NEW s \in Turn
    PROVE  /\ ThreadsOf(s) \subseteq ThreadsOf(s)'
           /\ \A role \in Role, r \in Turn : Said(s, role, r) => Said(s, role, r)'
           /\ Told(s) => Told(s)'
<1>1. ThreadsOf(s) \subseteq ThreadsOf(s)'
    BY DEF OneTurn, ThreadsOf, PairOf
<1>2. \A role, r : Said(s, role, r) => Said(s, role, r)'
    BY DEF OneTurn, Said
<1> QED
    BY <1>1, <1>2 DEF Told

LEMMA OneTurnKeeps ==
    ASSUME TypeOK, RowsFollowPc, NEW t \in Turn, OneTurn(t),
           Follows(t)', \A m \in message' : m \in message \/ Clean(m)'
    PROVE  RowsFollowPc'
<1>1. ASSUME NEW s \in Turn, s # t PROVE Follows(s)'
    <2>1. turn'[s] = turn[s] /\ UNCHANGED <<life, asker>> /\ (s \in ledger' <=> s \in ledger)
        BY <1>1 DEF OneTurn
    <2>2. Follows(s)
        BY DEF RowsFollowPc
    <2>3. \A r \in ThreadsOf(s) : r \in Turn /\ r \in ThreadsOf(s)'
        BY RowsStay DEF ThreadsOf, TypeOK
    <2>4. "user" \in Role /\ "assistant" \in Role
        BY DEF Role
    <2>5. /\ \A role \in Role, r \in Turn : Said(s, role, r) => Said(s, role, r)'
          /\ Told(s) => Told(s)'
        BY RowsStay
    <2> DEFINE r == turn[s].thread
    <2>6. turn'[s].pc = turn[s].pc /\ turn'[s].thread = r /\ turn'[s].text = turn[s].text
          /\ turn'[s].reply = turn[s].reply
        BY <2>1
    <2>7. turn[s].pc \in {"sayUser", "sayMentor", "spend"} =>
              r \in ThreadsOf(s) /\ r \in Turn /\ r \in ThreadsOf(s)'
        BY <2>2, <2>3 DEF Follows
    <2>8. turn[s].pc \in {"sayMentor", "spend"} => Said(s, "user", r)'
        <3>1. turn[s].pc \in {"sayMentor", "spend"} => Said(s, "user", r) /\ r \in Turn
            BY <2>2, <2>7 DEF Follows
        <3> QED
            BY <2>1, <3>1 DEF Said, OneTurn
    <2>9. turn[s].pc = "spend" => Said(s, "assistant", r)'
        <3>1. turn[s].pc = "spend" => Said(s, "assistant", r) /\ r \in Turn
            BY <2>2, <2>7 DEF Follows
        <3> QED
            BY <2>1, <3>1 DEF Said, OneTurn
    <2> QED
        BY <2>1, <2>2, <2>5, <2>6, <2>7, <2>8, <2>9 DEF Follows
<1>2. ASSUME NEW m \in message' PROVE Clean(m)'
    <2>1. m \in message => Clean(m)
        BY DEF RowsFollowPc
    <2>2. Clean(m) => Clean(m)'
        BY DEF Clean, OneTurn
    <2> QED
        BY <2>1, <2>2
<1>3. RowsAreOwned'
    BY DEF OneTurn, RowsAreOwned, RowsFollowPc, TypeOK, Message
<1> QED
    BY <1>1, <1>2, <1>3 DEF RowsFollowPc

\* Before the rows: a step that adds none.
LEMMA NoRow ==
    ASSUME TypeOK, RowsFollowPc, NEW t \in Turn, NEW q,
           turn' = [turn EXCEPT ![t] = q], turn[t].pc \notin {"new", "done"},
           q.pc \in {"load", "ask", "attack", "find", "create", "done"}, q.reply # "ok",
           q.pc \in {"find", "create"} => q.text \cap Targets[asker[t].policy] = {},
           UNCHANGED <<life, asker, thread, message, ledger>>
    PROVE  RowsFollowPc'
<1>1. turn'[t] = q /\ \A s \in Turn : s # t => turn'[s] = turn[s]
    BY DEF TypeOK
<1>2. OneTurn(t)
    BY <1>1 DEF OneTurn
<1>3. Follows(t)'
    BY <1>1, RowsStay, <1>2 DEF Follows, RowsFollowPc
<1> QED
    BY <1>2, <1>3, OneTurnKeeps

LEMMA TranscriptArrive ==
    ASSUME TypeOK, RowsFollowPc, NEW t \in Turn, Arrive(t)
    PROVE  RowsFollowPc'
<1>1. /\ turn[t].pc = "new" /\ UNCHANGED <<life, thread, message, ledger>>
      /\ \A s \in Turn : s # t => turn'[s] = turn[s] /\ asker'[s] = asker[s]
      /\ turn'[t].pc \in {"gate", "done"} /\ turn'[t].reply # "ok"
    BY DEF Arrive, TypeOK, rows, process
<1>2. /\ \A m \in message : m.turn # t /\ m.turn \in Turn
      /\ \A s \in thread : s # t /\ s \in Turn
    BY <1>1 DEF RowsFollowPc, RowsAreOwned, TypeOK, Message
<1>3. t \notin ledger
    <2>1. t \in ledger => Told(t)
        BY DEF RowsFollowPc, Follows
    <2>2. ~Told(t)
        BY <1>2 DEF Told, Said, Role
    <2> QED
        BY <2>1, <2>2
<1>4. ASSUME NEW s \in Turn, s # t PROVE Follows(s)'
    <2>1. ThreadsOf(s)' = ThreadsOf(s)
        BY <1>1, <1>2, <1>4 DEF ThreadsOf, PairOf
    <2>2. \A role, r : Said(s, role, r)' <=> Said(s, role, r)
        BY <1>1 DEF Said
    <2>3. Told(s)' <=> Told(s)
        BY <2>1, <2>2 DEF Told
    <2>4. Follows(s)
        BY DEF RowsFollowPc
    <2>5. turn'[s] = turn[s] /\ asker'[s] = asker[s] /\ UNCHANGED <<life, message, ledger>>
        BY <1>1, <1>4
    <2> QED
        BY <2>1, <2>3, <2>4, <2>5 DEF Follows, Said
<1>5. Follows(t)'
    BY <1>1, <1>3 DEF Follows
<1>6. \A m \in message' : Clean(m)'
    BY <1>1, <1>2 DEF Clean, RowsFollowPc
<1>7. RowsAreOwned'
    BY <1>1, <1>2 DEF RowsAreOwned, RowsFollowPc
<1> QED
    BY <1>4, <1>5, <1>6, <1>7 DEF RowsFollowPc

LEMMA TranscriptBefore ==
    ASSUME TypeOK, RowsFollowPc, NEW t \in Turn,
           \/ Gate(t) \/ BuildFromCache(t) \/ BuildFromLoaders(t) \/ Loaded(t) \/ Ask(t) \/ Attack(t)
           \/ GatewayFails(t) \/ (Find(t) /\ ThreadsOf(t) = {})
    PROVE  RowsFollowPc'
<1>t. /\ turn \in [Turn -> Request]
      /\ turn[t].reply = "ok" => turn[t].pc = "done"
      /\ turn[t].pc = "find" => turn[t].text \cap Targets[asker[t].policy] = {}
    BY DEF TypeOK, RowsFollowPc, Follows
<1>1. CASE Gate(t)
    <2>1. PICK q : /\ turn' = [turn EXCEPT ![t] = q] /\ q.pc \in {"load", "done"} /\ q.reply # "ok"
        <3>1. \/ turn' = [turn EXCEPT ![t] = [turn[t] EXCEPT !.pc = "load"]]
              \/ turn' = [turn EXCEPT ![t] = [turn[t] EXCEPT !.pc = "done", !.reply = "limited"]]
            BY <1>1, <1>t DEF Gate, Ends
        <3>2. turn[t].reply # "ok"
            BY <1>1, <1>t DEF Gate
        <3> DEFINE a == [turn[t] EXCEPT !.pc = "load"]
                   b == [turn[t] EXCEPT !.pc = "done", !.reply = "limited"]
        <3>3. a.pc = "load" /\ a.reply = turn[t].reply /\ b.pc = "done" /\ b.reply = "limited"
            BY <1>t DEF Request
        <3> HIDE DEF a, b
        <3>4. turn' = [turn EXCEPT ![t] = a] \/ turn' = [turn EXCEPT ![t] = b]
            BY <3>1 DEF a, b
        <3> QED
            BY <3>2, <3>3, <3>4
    <2>2. turn[t].pc = "gate" /\ UNCHANGED <<life, asker, thread, message, ledger>>
        BY <1>1 DEF Gate, rows
    <2> QED
        BY <2>1, <2>2, NoRow
<1>2. CASE BuildFromCache(t)
    <2>1. PICK c : turn' = [turn EXCEPT ![t] = [turn[t] EXCEPT !.pc = "ask", !.context = c]]
        BY <1>2, <1>t DEF BuildFromCache
    <2>2. turn[t].pc = "load" /\ UNCHANGED <<life, asker, thread, message, ledger>>
        BY <1>2 DEF BuildFromCache, world, process, rows
    <2> DEFINE q == [turn[t] EXCEPT !.pc = "ask", !.context = c]
    <2>3. q.pc = "ask" /\ q.reply # "ok"
        BY <1>t, <2>2 DEF Request
    <2> HIDE DEF q
    <2> QED
        BY <2>1, <2>2, <2>3, NoRow DEF q
<1>3. CASE BuildFromLoaders(t)
    <2> DEFINE q == [turn[t] EXCEPT !.context = ContextOf(t)]
    <2>1. turn' = [turn EXCEPT ![t] = q]
        BY <1>3, <1>t DEF BuildFromLoaders
    <2>2. turn[t].pc = "load" /\ UNCHANGED <<life, asker, thread, message, ledger>>
        BY <1>3 DEF BuildFromLoaders, world, rows
    <2>3. q.pc = "load" /\ q.reply # "ok"
        BY <1>t, <2>2 DEF Request
    <2> HIDE DEF q
    <2>4. PICK r : r = q
        OBVIOUS
    <2> QED
        BY <2>1, <2>2, <2>3, <2>4, NoRow
<1>4. CASE Loaded(t)
    <2> DEFINE q == [turn[t] EXCEPT !.pc = "ask"]
    <2>1. turn' = [turn EXCEPT ![t] = q]
        BY <1>4, <1>t DEF Loaded
    <2>2. turn[t].pc = "load" /\ UNCHANGED <<life, asker, thread, message, ledger>>
        BY <1>4 DEF Loaded, world, rows
    <2>3. q.pc = "ask" /\ q.reply # "ok"
        BY <1>t, <2>2 DEF Request
    <2> HIDE DEF q
    <2>4. PICK r : r = q
        OBVIOUS
    <2> QED
        BY <2>1, <2>2, <2>3, <2>4, NoRow
<1>5. CASE Ask(t)
    <2>1. PICK text : turn' = [turn EXCEPT ![t] = [turn[t] EXCEPT !.pc = "attack", !.text = text]]
        BY <1>5, <1>t DEF Ask
    <2>2. turn[t].pc = "ask" /\ UNCHANGED <<life, asker, thread, message, ledger>>
        BY <1>5 DEF Ask, world, process, rows
    <2> DEFINE q == [turn[t] EXCEPT !.pc = "attack", !.text = text]
    <2>3. q.pc = "attack" /\ q.reply # "ok"
        BY <1>t, <2>2 DEF Request
    <2>5. turn' = [turn EXCEPT ![t] = q]
        BY <2>1
    <2> HIDE DEF q
    <2>4. PICK r : r = q
        OBVIOUS
    <2> QED
        BY <2>2, <2>3, <2>4, <2>5, NoRow
<1>7. CASE GatewayFails(t)
    <2> DEFINE q == [turn[t] EXCEPT !.pc = "done", !.reply = "error"]
    <2>1. turn' = [turn EXCEPT ![t] = q]
        BY <1>7, <1>t DEF GatewayFails, Ends
    <2>2. turn[t].pc \in {"ask", "attack"} /\ UNCHANGED <<life, asker, thread, message, ledger>>
        BY <1>7 DEF GatewayFails, world, process, rows
    <2>3. q.pc = "done" /\ q.reply # "ok"
        BY <1>t DEF Request
    <2> HIDE DEF q
    <2>4. PICK r : r = q
        OBVIOUS
    <2> QED
        BY <2>1, <2>2, <2>3, <2>4, NoRow
<1>8. CASE Find(t) /\ ThreadsOf(t) = {}
    <2> DEFINE q == [turn[t] EXCEPT !.pc = "create"]
    <2>1. turn' = [turn EXCEPT ![t] = q]
        BY <1>8, <1>t DEF Find
    <2>2. turn[t].pc = "find" /\ UNCHANGED <<life, asker, thread, message, ledger>>
        BY <1>8 DEF Find, world, process, rows
    <2>3. q.pc = "create" /\ q.reply # "ok" /\ q.text \cap Targets[asker[t].policy] = {}
        BY <1>t, <2>2 DEF Request
    <2> HIDE DEF q
    <2>4. PICK r : r = q
        OBVIOUS
    <2> QED
        BY <2>1, <2>2, <2>3, <2>4, NoRow
<1>6. CASE Attack(t)
    <2>1. PICK leaks \in BOOLEAN :
              LET leaked == turn[t].leaked \/ leaks
                  last == turn[t].left = 1
              IN  turn' = [turn EXCEPT ![t] = [turn[t] EXCEPT
                               !.left = turn[t].left - 1, !.leaked = leaked,
                               !.pc = IF last THEN "find" ELSE "attack",
                               !.text = IF last THEN Deliverable(t, leaked) ELSE turn[t].text]]
        BY <1>6, <1>t, ZenonT(60) DEF Attack
    <2>2. turn[t].pc = "attack" /\ UNCHANGED <<life, asker, thread, message, ledger>>
        BY <1>6 DEF Attack, world, process, rows
    <2> DEFINE leaked == turn[t].leaked \/ leaks
               last == turn[t].left = 1
               text == IF last THEN Deliverable(t, leaked) ELSE turn[t].text
               pc == IF last THEN "find" ELSE "attack"
               q == [turn[t] EXCEPT !.left = turn[t].left - 1, !.leaked = leaked, !.pc = pc, !.text = text]
    <2>3. q.pc = pc /\ q.text = text /\ q.reply = turn[t].reply
        BY <1>t DEF Request
    <2>4. turn' = [turn EXCEPT ![t] = q]
        BY <2>1
    <2>5. last => text \cap Targets[asker[t].policy] = {}
        BY DEF Deliverable
    <2>6. q.pc \in {"find", "attack"} /\ q.reply # "ok"
          /\ (q.pc \in {"find", "create"} => q.text \cap Targets[asker[t].policy] = {})
        BY <1>t, <2>2, <2>3, <2>5
    <2> HIDE DEF q, pc, text, leaked
    <2>7. PICK r : r = q
        OBVIOUS
    <2> QED
        BY <2>2, <2>4, <2>6, <2>7, NoRow
<1> QED
    BY <1>1, <1>2, <1>3, <1>4, <1>5, <1>6, <1>7, <1>8

LEMMA TranscriptRows ==
    ASSUME TypeOK, KnowsItsPlace, RowsFollowPc, NEW t \in Turn,
           \/ (Find(t) /\ ThreadsOf(t) # {}) \/ CreateThread(t) \/ SayUser(t) \/ SayMentor(t)
           \/ RecordSpend(t) \/ QueryFails(t)
    PROVE  RowsFollowPc'
<1>t. /\ turn \in [Turn -> Request] /\ thread \subseteq Turn
      /\ Follows(t)
    BY DEF TypeOK, RowsFollowPc
<1>q. turn[t].reply = "ok" => turn[t].pc = "done"
    BY <1>t DEF Follows
<1>1. CASE Find(t) /\ ThreadsOf(t) # {}
    <2>1. PICK s \in ThreadsOf(t) : turn' = [turn EXCEPT ![t].pc = "sayUser", ![t].thread = s]
        BY <1>1 DEF Find
    <2>2. turn[t].pc = "find" /\ UNCHANGED <<life, asker, thread, message, ledger>>
        BY <1>1 DEF Find, world, process, rows
    <2>3. /\ turn'[t].pc = "sayUser" /\ turn'[t].thread = s /\ turn'[t].text = turn[t].text
          /\ turn'[t].reply = turn[t].reply /\ \A r \in Turn : r # t => turn'[r] = turn[r]
        BY <1>t, <2>1 DEF Request
    <2>4. OneTurn(t)
        BY <2>2, <2>3 DEF OneTurn
    <2>5. s \in ThreadsOf(t)' /\ (Told(t) => Told(t)')
        BY <2>4, RowsStay
    <2>6. Follows(t)'
        BY <1>t, <1>q, <2>2, <2>3, <2>5 DEF Follows
    <2> QED
        BY <2>2, <2>4, <2>6, OneTurnKeeps
<1>2. CASE CreateThread(t)
    <2>1. turn' = [turn EXCEPT ![t].pc = "sayUser", ![t].thread = t]
        BY <1>2 DEF CreateThread
    <2>2. /\ turn[t].pc = "create" /\ UNCHANGED <<life, asker, message, ledger>>
          /\ thread' = thread \cup {t}
        BY <1>2 DEF CreateThread, world, process
    <2>3. /\ turn'[t].pc = "sayUser" /\ turn'[t].thread = t /\ turn'[t].text = turn[t].text
          /\ turn'[t].reply = turn[t].reply /\ \A r \in Turn : r # t => turn'[r] = turn[r]
        BY <1>t, <2>1 DEF Request
    <2>4. OneTurn(t)
        BY <2>2, <2>3 DEF OneTurn
    <2>5. t \in ThreadsOf(t)' /\ (Told(t) => Told(t)')
        BY <2>2, <2>4, RowsStay DEF ThreadsOf
    <2>6. Follows(t)'
        BY <1>t, <1>q, <2>2, <2>3, <2>5 DEF Follows
    <2> QED
        BY <2>2, <2>4, <2>6, OneTurnKeeps
<1>3. CASE SayUser(t)
    <2>1. turn' = [turn EXCEPT ![t].pc = "sayMentor"]
        BY <1>3 DEF SayUser
    <2>2. /\ turn[t].pc = "sayUser" /\ UNCHANGED <<life, asker, thread, ledger>>
          /\ message' = message \cup {Row(t, "user")}
        BY <1>3 DEF SayUser, world, process
    <2>3. /\ turn'[t].pc = "sayMentor" /\ turn'[t].thread = turn[t].thread /\ turn'[t].text = turn[t].text
          /\ turn'[t].reply = turn[t].reply /\ \A r \in Turn : r # t => turn'[r] = turn[r]
        BY <1>t, <2>1 DEF Request
    <2>r. /\ Row(t, "user").turn = t /\ Row(t, "user").role = "user"
          /\ Row(t, "user").thread = turn[t].thread
        BY DEF Row
    <2>4. OneTurn(t)
        BY <2>2, <2>3, <2>r DEF OneTurn
    <2>5. turn'[t].thread \in ThreadsOf(t)' /\ (Told(t) => Told(t)')
        BY <1>t, <2>2, <2>3, <2>4, RowsStay DEF Follows
    <2>7. Said(t, "user", turn[t].thread)'
        BY <2>2, <2>3, <2>r DEF Said
    <2>6. Follows(t)'
        BY <1>t, <1>q, <2>2, <2>3, <2>5, <2>7 DEF Follows
    <2>8. \A m \in message' : m \in message \/ Clean(m)'
        BY <2>2, <2>r DEF Clean
    <2> QED
        BY <2>4, <2>6, <2>8, OneTurnKeeps
<1>4. CASE SayMentor(t)
    <2>1. turn' = [turn EXCEPT ![t].pc = "spend"]
        BY <1>4 DEF SayMentor
    <2>2. /\ turn[t].pc = "sayMentor" /\ UNCHANGED <<life, asker, thread, ledger>>
          /\ message' = message \cup {Row(t, "assistant")}
        BY <1>4 DEF SayMentor, world, process
    <2>3. /\ turn'[t].pc = "spend" /\ turn'[t].thread = turn[t].thread /\ turn'[t].text = turn[t].text
          /\ turn'[t].reply = turn[t].reply /\ \A r \in Turn : r # t => turn'[r] = turn[r]
        BY <1>t, <2>1 DEF Request
    <2>r. /\ Row(t, "assistant").turn = t /\ Row(t, "assistant").role = "assistant"
          /\ Row(t, "assistant").thread = turn[t].thread /\ Row(t, "assistant").text = turn[t].text
        BY DEF Row
    <2>4. OneTurn(t)
        BY <2>2, <2>3, <2>r DEF OneTurn
    <2>5. turn'[t].thread \in ThreadsOf(t)' /\ (Told(t) => Told(t)')
        BY <1>t, <2>2, <2>3, <2>4, RowsStay DEF Follows
    <2>7. Said(t, "user", turn[t].thread)' /\ Said(t, "assistant", turn[t].thread)'
        BY <1>t, <2>2, <2>3, <2>r DEF Said, Follows
    <2>9. turn[t].text \cap Targets[asker[t].policy] = {}
        BY <1>t, <2>2 DEF Follows
    <2>6. Follows(t)'
        BY <1>t, <1>q, <2>2, <2>3, <2>5, <2>7 DEF Follows
    <2>8. \A m \in message' : m \in message \/ Clean(m)'
        BY <2>2, <2>r, <2>9 DEF Clean
    <2> QED
        BY <2>4, <2>6, <2>8, OneTurnKeeps
<1>5. CASE RecordSpend(t)
    <2>1. turn' = [turn EXCEPT ![t].pc = "done", ![t].reply = "ok"]
        BY <1>5 DEF RecordSpend, Ends
    <2>2. /\ turn[t].pc = "spend" /\ UNCHANGED <<life, asker, thread, message>>
          /\ ledger' = ledger \cup {t}
        BY <1>5 DEF RecordSpend, Charged, world, rows
    <2>3. /\ turn'[t].pc = "done" /\ turn'[t].reply = "ok"
          /\ \A r \in Turn : r # t => turn'[r] = turn[r]
        BY <1>t, <2>1 DEF Request
    <2>4. OneTurn(t)
        BY <2>2, <2>3 DEF OneTurn
    <2>5. Told(t)
        BY <1>t, <2>2 DEF Told, Follows, Role
    <2>6. Follows(t)'
        BY <2>2, <2>3, <2>4, <2>5, RowsStay DEF Follows
    <2> QED
        BY <2>2, <2>4, <2>6, OneTurnKeeps
<1>6. CASE QueryFails(t)
    <2>1. turn' = [turn EXCEPT ![t].pc = "done", ![t].reply = "error"]
        BY <1>6 DEF QueryFails, Ends
    <2>2. /\ turn[t].pc \in {"find", "create", "sayUser", "sayMentor"}
          /\ UNCHANGED <<life, asker, ledger>>
          /\ \/ UNCHANGED rows
             \/ thread' = thread \cup {t} /\ UNCHANGED message
             \/ message' = message \cup {Row(t, "user")} /\ UNCHANGED thread
             \/ /\ turn[t].pc = "sayMentor"
                /\ message' = message \cup {Row(t, "assistant")}
                /\ UNCHANGED thread
        BY <1>6 DEF QueryFails, world, process
    <2>3. /\ turn'[t].pc = "done" /\ turn'[t].reply = "error"
          /\ \A r \in Turn : r # t => turn'[r] = turn[r]
        BY <1>t, <2>1 DEF Request
    <2>r. \A role \in Role : /\ Row(t, role).turn = t /\ Row(t, role).role = role
                             /\ role = "assistant" => Row(t, role).text = turn[t].text
        BY DEF Row, Role
    <2>u. "user" \in Role /\ "assistant" \in Role /\ "user" # "assistant"
        BY DEF Role
    <2>4. OneTurn(t)
        <3>1. \A m \in message' : m \in message \/ m.turn = t
            BY <2>2, <2>r, <2>u DEF rows
        <3>2. thread \subseteq thread' /\ thread' \subseteq thread \cup {t} /\ message \subseteq message'
            BY <2>2 DEF rows
        <3> QED
            BY <2>2, <2>3, <3>1, <3>2 DEF OneTurn
    <2>5. Told(t) => Told(t)'
        BY <2>4, RowsStay
    <2>6. Follows(t)'
        BY <1>t, <2>2, <2>3, <2>5 DEF Follows
    <2>8. \A m \in message' : m \in message \/ Clean(m)'
        <3>1. turn[t].pc = "sayMentor" => turn[t].text \cap Targets[asker[t].policy] = {}
            BY <1>t DEF Follows
        <3> QED
            BY <2>2, <2>r, <2>u, <3>1 DEF Clean, rows
    <2> QED
        BY <2>4, <2>6, <2>8, OneTurnKeeps
<1> QED
    BY <1>1, <1>2, <1>3, <1>4, <1>5, <1>6

LEMMA TranscriptRestart ==
    ASSUME TypeOK, AdmissionFollowsPc, RowsFollowPc, Restart
    PROVE  RowsFollowPc'
<1>1. /\ life' = life + 1 /\ UNCHANGED <<asker, thread, message>> /\ ledger' = {} /\ life \in Nat
      /\ \A t \in Turn : \/ turn'[t] = turn[t] /\ turn[t].pc \in {"new", "done"}
                         \/ turn'[t].pc = "done" /\ turn'[t].reply = "dropped" /\ turn[t].pc # "new"
    <2>1. turn \in [Turn -> Request]
        BY DEF TypeOK
    <2>2. \A r \in Request : [r EXCEPT !.pc = "done", !.reply = "dropped"].pc = "done"
                             /\ [r EXCEPT !.pc = "done", !.reply = "dropped"].reply = "dropped"
        BY DEF Request
    <2> QED
        BY <2>1, <2>2 DEF Restart, Running, rows, TypeOK
<1>2. ASSUME NEW t \in Turn PROVE Follows(t)'
    <2>1. Follows(t)
        BY DEF RowsFollowPc
    <2>2. turn[t].pc = "done" => asker[t].life # life + 1
        BY <1>1 DEF AdmissionFollowsPc, Asker
    <2> QED
        BY <1>1, <2>1, <2>2 DEF Follows
<1>3. \A m \in message' : Clean(m)'
    BY <1>1 DEF RowsFollowPc, Clean
<1>4. RowsAreOwned'
    BY <1>1 DEF RowsFollowPc, RowsAreOwned, TypeOK, Message
<1> QED
    BY <1>2, <1>3, <1>4 DEF RowsFollowPc

LEMMA NextTranscript ==
    ASSUME RateInv, RowsFollowPc, [Next]_vars
    PROVE  RowsFollowPc'
<1>0. TypeOK /\ AdmissionFollowsPc /\ KnowsItsPlace
    BY DEF RateInv
<1>1. ASSUME NEW t \in Turn, Arrive(t) \/ Step(t) \/ GatewayFails(t) \/ QueryFails(t)
      PROVE  RowsFollowPc'
    BY <1>0, <1>1, TranscriptArrive, TranscriptBefore, TranscriptRows DEF Step
<1>2. CASE Tick \/ UNCHANGED vars
    <2>1. UNCHANGED <<life, asker, turn, thread, message, ledger>>
        BY <1>2 DEF Tick, vars, process, rows
    <2>2. \A t \in Turn : Follows(t)' <=> Follows(t)
        BY <2>1 DEF Follows, Told, Said, ThreadsOf, PairOf
    <2>3. (\A m \in message' : Clean(m)') /\ RowsAreOwned'
        BY <2>1 DEF RowsFollowPc, Clean, RowsAreOwned
    <2> QED
        BY <2>2, <2>3 DEF RowsFollowPc
<1>3. CASE Restart
    BY <1>0, <1>3, TranscriptRestart
<1> QED
    BY <1>1, <1>2, <1>3 DEF Next

LEMMA InitTranscript == Init => RowsFollowPc
BY DEF Init, RowsFollowPc, Follows, RowsAreOwned

\* What the mentor stores may be shown under the policy of the turn it was given
\* to, and a turn is charged exactly with both its messages in a thread of its
\* enrolment: runMentorRequest under interleaving, failing writes and restarts.
THEOREM TranscriptHolds == Spec => []TranscriptIsSound
<1>1. RateInv /\ RowsFollowPc => TranscriptIsSound
    <2>1. RowsFollowPc => NothingLeaks
        BY DEF RowsFollowPc, Clean, NothingLeaks
    <2>2. ASSUME RateInv, RowsFollowPc PROVE AnsweredIsCharged
        <3>1. \A t \in Turn : turn[t].reply = "ok" /\ asker[t].life = life => t \in ledger
            BY <2>2 DEF RowsFollowPc, Follows
        <3>2. \A t \in Turn : t \in ledger => Told(t)
            BY <2>2 DEF RowsFollowPc, Follows
        <3> QED
            BY <2>2, <3>1, <3>2 DEF AnsweredIsCharged, Told, Said, RateInv, TypeOK
    <2> QED
        BY <2>1, <2>2 DEF TranscriptIsSound
<1> QED
    BY InitRate, NextRate, InitTranscript, NextTranscript, <1>1, PTL DEF Spec

----------------------------------------------------------------------------
(* The context cache. *)

\* Entries carry the context they are keyed by, and no key occurs twice.
Tidy(c) ==
    /\ \A i \in DOMAIN c : c[i].value = c[i].key
    /\ \A i, j \in DOMAIN c : c[i].key = c[j].key => i = j

\* A turn holds no context before it loads one, and then its own.
ContextFollowsPc == \A t \in Turn :
    /\ turn[t].pc \in {"new", "gate"} => turn[t].context = None
    /\ turn[t].context # None => turn[t].context = ContextOf(t)

CacheInv == Tidy(cache) /\ Len(cache) <= CacheSize /\ ContextFollowsPc

\* d is c without its i-th entry, n being the length of c.
LeavesOut(c, d, i, n) ==
    /\ \A j \in 1..(n - 1) : j < i => d[j] = c[j]
    /\ \A j \in 1..(n - 1) : j >= i => d[j] = c[j + 1]

TidyUpTo(c, n) ==
    /\ \A j \in 1..n : c[j].value = c[j].key
    /\ \A j, k \in 1..n : c[j].key = c[k].key => j = k

LacksKey(d, key, n) == \A j \in 1..n : d[j].key # key

LEMMA Renumber ==
    ASSUME NEW n \in Nat, NEW c, NEW d, NEW i \in 1..n, LeavesOut(c, d, i, n), TidyUpTo(c, n)
    PROVE  TidyUpTo(d, n - 1) /\ LacksKey(d, c[i].key, n - 1)
<1> USE DEF LeavesOut, TidyUpTo, LacksKey
<1>1. \A j \in 1..(n - 1) : \E k \in 1..n :
          d[j] = c[k] /\ k # i /\ (j < i => k = j) /\ (j >= i => k = j + 1)
    OBVIOUS
<1>2. \A j \in 1..(n - 1) : d[j].value = d[j].key
    BY <1>1
<1>3. \A j \in 1..(n - 1) : d[j].key # c[i].key
    BY <1>1
<1>4. \A j, k \in 1..(n - 1) : d[j].key = d[k].key => j = k
    BY <1>1
<1> QED
    BY <1>2, <1>3, <1>4

LEMMA CutOut ==
    ASSUME NEW c \in Seq(Entry), Tidy(c), NEW i \in 1..Len(c),
           NEW d, d = SubSeq(c, 1, i - 1) \o SubSeq(c, i + 1, Len(c))
    PROVE  /\ d \in Seq(Entry) /\ Len(d) = Len(c) - 1 /\ Tidy(d)
           /\ \A j \in DOMAIN d : d[j].key # c[i].key
<1>n. PICK n \in Nat : n = Len(c) /\ DOMAIN c = 1..n /\ i \in 1..n
    BY LenProperties
<1>1. PICK a : a = SubSeq(c, 1, i - 1)
    OBVIOUS
<1>2. PICK b : b = SubSeq(c, i + 1, Len(c))
    OBVIOUS
<1>3. /\ a \in Seq(Entry) /\ Len(a) = i - 1
      /\ \A j \in 1..(i - 1) : a[j] = c[j]
    <2>1. 1 \in 1..(Len(c) + 1) /\ i - 1 \in 0..Len(c)
        BY <1>n
    <2>2. /\ a \in Seq(Entry) /\ Len(a) = IF 1 <= i - 1 THEN i - 1 - 1 + 1 ELSE 0
          /\ \A j \in 1..(i - 1 - 1 + 1) : a[j] = c[1 + j - 1]
        BY <1>1, <2>1, SubSeqProperties
    <2> QED
        BY <1>n, <2>2
<1>4. /\ b \in Seq(Entry) /\ Len(b) = n - i
      /\ \A j \in 1..(n - i) : b[j] = c[i + j]
    <2>1. i + 1 \in 1..(Len(c) + 1) /\ Len(c) \in (i + 1 - 1)..Len(c)
        BY <1>n
    <2>2. /\ b \in Seq(Entry) /\ Len(b) = IF i + 1 <= Len(c) THEN Len(c) - (i + 1) + 1 ELSE 0
          /\ \A j \in 1..(Len(c) - (i + 1) + 1) : b[j] = c[i + 1 + j - 1]
        BY <1>2, <2>1, SubSeqProperties
    <2>3. Len(c) - (i + 1) + 1 = n - i /\ (i + 1 > Len(c) => n - i = 0)
        BY <1>n
    <2>4. Len(b) = n - i
        BY <1>n, <2>2, <2>3
    <2>5. ASSUME NEW j \in 1..(n - i) PROVE b[j] = c[i + j]
        <3>1. j \in 1..(Len(c) - (i + 1) + 1)
            BY <2>3
        <3>2. i + 1 + j - 1 = i + j
            BY <1>n
        <3> QED
            BY <2>2, <3>1, <3>2
    <2> QED
        BY <2>2, <2>4, <2>5
<1>5. /\ d \in Seq(Entry) /\ Len(d) = Len(a) + Len(b)
      /\ \A j \in 1..(Len(a) + Len(b)) : d[j] = IF j <= Len(a) THEN a[j] ELSE b[j - Len(a)]
    <2>1. d = a \o b
        BY <1>1, <1>2
    <2>2. /\ a \o b \in Seq(Entry) /\ Len(a \o b) = Len(a) + Len(b)
          /\ \A j \in 1..(Len(a) + Len(b)) : (a \o b)[j] = IF j <= Len(a) THEN a[j] ELSE b[j - Len(a)]
        BY <1>3, <1>4, ConcatProperties
    <2> QED
        BY <2>1, <2>2
<1>6. Len(d) = n - 1 /\ DOMAIN d = 1..(n - 1) /\ n - 1 \in Nat
    <2>0. /\ n - 1 \in Nat
          /\ \A x, y : x = i - 1 /\ y = n - i => x + y = n - 1
        BY <1>n
    <2>1. Len(d) = n - 1 /\ n - 1 \in Nat
        <3>1. Len(a) + Len(b) = n - 1
            BY <1>3, <1>4, <2>0
        <3> QED
            BY <1>5, <2>0, <3>1
    <2> QED
        BY <1>5, <2>1, LenProperties
<1>7. ASSUME NEW j \in 1..(n - 1), j < i PROVE d[j] = c[j]
    <2>1. j \in 1..(i - 1) /\ j \in 1..(Len(a) + Len(b)) /\ j <= Len(a)
        BY <1>n, <1>3, <1>4, <1>7
    <2> QED
        BY <1>3, <1>5, <2>1
<1>8. ASSUME NEW j \in 1..(n - 1), j >= i PROVE d[j] = c[j + 1]
    <2>1. j - Len(a) \in 1..(n - i) /\ i + (j - Len(a)) = j + 1
        BY <1>n, <1>3, <1>8
    <2>2. j \in 1..(Len(a) + Len(b)) /\ ~(j <= Len(a))
        BY <1>n, <1>3, <1>4, <1>8
    <2>3. d[j] = b[j - Len(a)]
        BY <1>5, <2>2
    <2>4. b[j - Len(a)] = c[i + (j - Len(a))]
        BY <1>4, <2>1
    <2> QED
        BY <2>1, <2>3, <2>4
<1>9. LeavesOut(c, d, i, n) /\ TidyUpTo(c, n) /\ i \in 1..n
    <2>1. LeavesOut(c, d, i, n)
        BY <1>7, <1>8 DEF LeavesOut
    <2> QED
        BY <1>n, <2>1 DEF Tidy, TidyUpTo
<1>10. TidyUpTo(d, n - 1) /\ LacksKey(d, c[i].key, n - 1)
    BY <1>9, Renumber
<1>11. Tidy(d) /\ \A j \in DOMAIN d : d[j].key # c[i].key
    BY <1>6, <1>10 DEF Tidy, TidyUpTo, LacksKey
<1> QED
    BY <1>n, <1>5, <1>6, <1>11

LEMMA WithoutKeyTidy ==
    ASSUME cache \in Seq(Entry), Tidy(cache), NEW key
    PROVE  /\ WithoutKey(key) \in Seq(Entry) /\ Tidy(WithoutKey(key))
           /\ \A j \in DOMAIN WithoutKey(key) : WithoutKey(key)[j].key # key
           /\ Len(WithoutKey(key)) = IF At(key) = {} THEN Len(cache) ELSE Len(cache) - 1
<1>1. CASE At(key) = {}
    BY <1>1 DEF WithoutKey, At
<1>2. CASE At(key) # {}
    <2>1. PICK i : i = CHOOSE k \in At(key) : TRUE
        OBVIOUS
    <2>2. i \in 1..Len(cache) /\ cache[i].key = key
        BY <1>2, <2>1 DEF At
    <2>3. PICK d : d = WithoutKey(key)
        OBVIOUS
    <2>4. d = SubSeq(cache, 1, i - 1) \o SubSeq(cache, i + 1, Len(cache))
        BY <1>2, <2>1, <2>3 DEF WithoutKey
    <2>5. PICK c : c = cache
        OBVIOUS
    <2>7. /\ c \in Seq(Entry) /\ Tidy(c) /\ i \in 1..Len(c)
          /\ d = SubSeq(c, 1, i - 1) \o SubSeq(c, i + 1, Len(c))
        BY <2>2, <2>4, <2>5
    <2>6. /\ d \in Seq(Entry) /\ Len(d) = Len(c) - 1 /\ Tidy(d)
          /\ \A j \in DOMAIN d : d[j].key # c[i].key
        BY <2>7, CutOut, ZenonT(60)
    <2> QED
        BY <1>2, <2>2, <2>3, <2>5, <2>6
<1> QED
    BY <1>1, <1>2

LEMMA CachedTidy ==
    ASSUME cache \in Seq(Entry), Tidy(cache), Len(cache) <= CacheSize,
           NEW entry \in Entry, entry.value = entry.key
    PROVE  Tidy(Cached(entry)) /\ Len(Cached(entry)) <= CacheSize
<1> DEFINE base == IF At(entry.key) # {} THEN WithoutKey(entry.key)
                   ELSE IF Len(cache) >= CacheSize THEN Tail(cache) ELSE cache
<1>c. CacheSize \in Nat \ {0} /\ Len(cache) \in Nat
    BY MentorAssumption
<1>1. /\ base \in Seq(Entry) /\ Tidy(base) /\ Len(base) < CacheSize
      /\ \A j \in DOMAIN base : base[j].key # entry.key
    <2>1. CASE At(entry.key) # {}
        BY <1>c, <2>1, WithoutKeyTidy
    <2>2. CASE At(entry.key) = {} /\ Len(cache) < CacheSize
        BY <1>c, <2>2 DEF At
    <2>3. CASE At(entry.key) = {} /\ Len(cache) >= CacheSize
        <3>1. base = Tail(cache) /\ cache # <<>>
            BY <1>c, <2>3
        <3>2. /\ Tail(cache) \in Seq(Entry) /\ Len(Tail(cache)) = Len(cache) - 1
              /\ \A i \in 1..Len(Tail(cache)) : Tail(cache)[i] = cache[i + 1]
            BY <3>1, HeadTailProperties
        <3>3. \A i \in 1..Len(Tail(cache)) : i + 1 \in DOMAIN cache
            BY <1>c, <3>2
        <3>4. DOMAIN Tail(cache) = 1..Len(Tail(cache))
            BY <3>2
        <3>5. Tidy(Tail(cache))
            BY <3>2, <3>3, <3>4 DEF Tidy
        <3>6. \A j \in DOMAIN Tail(cache) : Tail(cache)[j].key # entry.key
            BY <2>3, <3>2, <3>3, <3>4 DEF At
        <3> HIDE DEF base
        <3> QED
            BY <1>c, <3>1, <3>2, <3>5, <3>6
    <2> QED
        BY <1>c, <2>1, <2>2, <2>3
<1>2. PICK b : b = base
    OBVIOUS
<1>3. PICK d : d = Append(b, entry)
    OBVIOUS
<1>4. Cached(entry) = d
    BY <1>2, <1>3 DEF Cached
<1> HIDE DEF base
<1>5. /\ d \in Seq(Entry) /\ Len(d) = Len(b) + 1 /\ Len(b) \in Nat
      /\ \A i \in 1..Len(b) : d[i] = b[i]
      /\ d[Len(b) + 1] = entry
      /\ DOMAIN d = 1..(Len(b) + 1) /\ DOMAIN b = 1..Len(b)
    BY <1>1, <1>2, <1>3, AppendProperties
<1>6. Tidy(d)
    BY <1>1, <1>2, <1>5, SMTT(60) DEF Tidy
<1> QED
    BY <1>c, <1>1, <1>2, <1>4, <1>5, <1>6

\* Turns keep their context, or get their own once past the gate.
LEMMA ContextsKeep ==
    ASSUME ContextFollowsPc, UNCHANGED asker,
           \A s \in Turn : \/ turn'[s].context = turn[s].context
                              /\ (turn'[s].pc \in {"new", "gate"} => turn[s].pc \in {"new", "gate"})
                           \/ turn'[s].context = ContextOf(s) /\ turn'[s].pc \notin {"new", "gate"}
    PROVE  ContextFollowsPc'
<1>1. \A s \in Turn : ContextOf(s)' = ContextOf(s)
    BY DEF ContextOf
<1> QED
    BY <1>1 DEF ContextFollowsPc

LEMMA CacheKeeps ==
    ASSUME TypeOK, AdmissionFollowsPc, CacheInv, NEW t \in Turn,
           BuildFromCache(t) \/ BuildFromLoaders(t) \/ Loaded(t)
    PROVE  CacheInv'
<1>0. /\ turn \in [Turn -> Request] /\ cache \in Seq(Entry) /\ clock \in Nat
      /\ Tidy(cache) /\ Len(cache) <= CacheSize /\ ContextFollowsPc
    BY MentorAssumption DEF TypeOK, CacheInv
<1>l. Len(cache) \in Nat /\ CacheSize \in Nat /\ Ttl \in Nat
    BY <1>0, MentorAssumption
<1>1. CASE BuildFromCache(t)
    <2>1. PICK i \in Hit(t) : turn' = [turn EXCEPT ![t].pc = "ask", ![t].context = cache[i].value]
        BY <1>1 DEF BuildFromCache
    <2>2. cache[i].value = ContextOf(t)
        BY <1>0, <2>1 DEF Hit, At, Key, Tidy
    <2>3. UNCHANGED <<asker, cache>>
        BY <1>1 DEF BuildFromCache, world, process
    <2>4. /\ turn'[t].context = ContextOf(t) /\ turn'[t].pc = "ask"
          /\ \A s \in Turn : s # t => turn'[s] = turn[s]
        BY <1>0, <2>1, <2>2 DEF Request
    <2>5. ContextFollowsPc'
        BY <1>0, <2>3, <2>4, ContextsKeep
    <2> QED
        BY <1>0, <2>3, <2>5 DEF CacheInv
<1>2. CASE BuildFromLoaders(t)
    <2>1. /\ turn' = [turn EXCEPT ![t].context = ContextOf(t)] /\ turn[t].pc = "load"
          /\ cache' = WithoutKey(Key(t)) /\ UNCHANGED asker
        BY <1>2 DEF BuildFromLoaders, world
    <2>2. /\ turn'[t].context = ContextOf(t) /\ turn'[t].pc = "load"
          /\ \A s \in Turn : s # t => turn'[s] = turn[s]
        BY <1>0, <2>1 DEF Request
    <2>3. ContextFollowsPc'
        BY <1>0, <2>1, <2>2, ContextsKeep
    <2>4. Tidy(cache') /\ Len(cache') <= CacheSize
        <3>1. PICK key : key = Key(t)
            OBVIOUS
        <3>2. Tidy(WithoutKey(key)) /\ Len(WithoutKey(key)) <= CacheSize
            BY <1>0, <1>l, WithoutKeyTidy
        <3> QED
            BY <2>1, <3>1, <3>2
    <2> QED
        BY <2>3, <2>4 DEF CacheInv, Tidy
<1>3. CASE Loaded(t)
    <2> DEFINE e == [key |-> Key(t), value |-> turn[t].context, expires |-> clock + Ttl]
    <2>1. /\ turn' = [turn EXCEPT ![t].pc = "ask"] /\ turn[t].pc = "load" /\ turn[t].context # None
          /\ cache' = Cached(e) /\ UNCHANGED asker
        BY <1>3 DEF Loaded, world
    <2>2. /\ turn'[t].context = turn[t].context /\ turn'[t].pc = "ask"
          /\ \A s \in Turn : s # t => turn'[s] = turn[s]
        BY <1>0, <2>1 DEF Request
    <2>3. ContextFollowsPc'
        BY <1>0, <2>1, <2>2, ContextsKeep
    <2>4. turn[t].context = Key(t) /\ Key(t) \in Context /\ clock + Ttl \in Nat
        BY <1>0, <1>l, <2>1 DEF ContextFollowsPc, Key, AdmissionFollowsPc, ContextOf, Asker, Context
    <2>5. PICK entry : entry = e
        OBVIOUS
    <2>6. entry \in Entry /\ entry.value = entry.key
        BY <2>4, <2>5 DEF Entry
    <2>7. cache' = Cached(entry)
        BY <2>1, <2>5
    <2>8. Tidy(cache') /\ Len(cache') <= CacheSize
        BY <1>0, <2>6, <2>7, CachedTidy
    <2> QED
        BY <2>3, <2>8 DEF CacheInv, Tidy
<1> QED
    BY <1>1, <1>2, <1>3

LEMMA NextCache ==
    ASSUME RateInv, CacheInv, [Next]_vars
    PROVE  CacheInv'
<1>0. /\ TypeOK /\ AdmissionFollowsPc /\ KnowsItsPlace /\ turn \in [Turn -> Request]
      /\ Tidy(cache) /\ Len(cache) <= CacheSize /\ ContextFollowsPc
    BY DEF RateInv, CacheInv, TypeOK
<1>1. ASSUME NEW t \in Turn, Arrive(t) PROVE CacheInv'
    <2>1. /\ turn[t].pc = "new" /\ UNCHANGED cache
          /\ \A s \in Turn : s # t => turn'[s] = turn[s] /\ asker'[s] = asker[s]
          /\ turn'[t].context = turn[t].context
        BY <1>0, <1>1 DEF Arrive, TypeOK, process, Request
    <2>2. \A s \in Turn : s # t => ContextOf(s)' = ContextOf(s)
        BY <2>1 DEF ContextOf
    <2>3. ContextFollowsPc'
        BY <1>0, <2>1, <2>2 DEF ContextFollowsPc
    <2> QED
        BY <1>0, <2>1, <2>3 DEF CacheInv
<1>2. ASSUME NEW t \in Turn,
             \/ Gate(t) \/ Ask(t) \/ Attack(t) \/ Find(t) \/ CreateThread(t) \/ SayUser(t) \/ SayMentor(t)
             \/ RecordSpend(t) \/ GatewayFails(t) \/ QueryFails(t)
      PROVE  CacheInv'
    <2>1. UNCHANGED <<asker, cache>>
        BY <1>2 DEF Gate, Ask, Attack, Find, CreateThread, SayUser, SayMentor, RecordSpend, GatewayFails,
                    QueryFails, world, process
    <2>2. /\ turn'[t].context = turn[t].context /\ turn'[t].pc \notin {"new", "gate"}
          /\ \A s \in Turn : s # t => turn'[s] = turn[s]
        <3>1. CASE Gate(t) \/ Ask(t) \/ Find(t)
            BY <1>0, <3>1 DEF Gate, Ask, Find, Ends, Request
        <3>2. CASE Attack(t)
            BY <1>0, <3>2 DEF Attack, Request
        <3>3. CASE CreateThread(t) \/ SayUser(t) \/ SayMentor(t)
            BY <1>0, <3>3 DEF CreateThread, SayUser, SayMentor, Request
        <3>4. CASE RecordSpend(t) \/ GatewayFails(t) \/ QueryFails(t)
            BY <1>0, <3>4 DEF RecordSpend, GatewayFails, QueryFails, Ends, Request
        <3> QED
            BY <1>2, <3>1, <3>2, <3>3, <3>4
    <2>3. ContextFollowsPc'
        BY <1>0, <2>1, <2>2, ContextsKeep
    <2> QED
        BY <1>0, <2>1, <2>3 DEF CacheInv
<1>3. ASSUME NEW t \in Turn, BuildFromCache(t) \/ BuildFromLoaders(t) \/ Loaded(t) PROVE CacheInv'
    BY <1>0, <1>3, CacheKeeps
<1>4. CASE Tick \/ UNCHANGED vars
    <2>1. UNCHANGED <<asker, turn, cache>>
        BY <1>4 DEF Tick, vars, process
    <2>2. ContextFollowsPc'
        BY <1>0, <2>1, ContextsKeep
    <2> QED
        BY <1>0, <2>1, <2>2 DEF CacheInv
<1>5. CASE Restart
    <2>1. /\ cache' = <<>> /\ UNCHANGED asker
          /\ \A s \in Turn : turn'[s].context = turn[s].context
                             /\ (turn'[s].pc = turn[s].pc \/ turn'[s].pc = "done")
        BY <1>0, <1>5 DEF Restart, Request
    <2>2. ContextFollowsPc'
        BY <1>0, <2>1, ContextsKeep
    <2> QED
        BY <2>1, <2>2, MentorAssumption DEF CacheInv, Tidy
<1> QED
    BY <1>1, <1>2, <1>3, <1>4, <1>5 DEF Next, Step

\* A turn is prompted from a context of the policy it read, and the cache keeps
\* its bound and its keys: MentorContextBuilder and its cache, any size and lifetime.
THEOREM ContextStaysCurrent == Spec => []ContextIsCurrent
<1>1. Init => CacheInv
    BY MentorAssumption DEF Init, CacheInv, Tidy, ContextFollowsPc
<1>2. CacheInv => ContextIsCurrent
    BY DEF CacheInv, Tidy, ContextFollowsPc, ContextIsCurrent
<1> QED
    BY InitRate, NextRate, NextCache, <1>1, <1>2, PTL DEF Spec

----------------------------------------------------------------------------
(* The wait a refusal asks for. *)

\* The admissions a refused turn would still find in the window, coming back
\* when it was told to.
Before(turns, t) ==
    {s \in turns : gate[s].at <= gate[t].refused
                   /\ gate[s].at + Window > gate[t].refused + gate[t].retry}

\* As long as the clock stands, the window that refused stays full.
Refused(t, turns, hits, limit) ==
    /\ Cardinality(Before(turns, t)) < limit
    /\ gate[t].refused = clock => Cardinality(Live(hits)) >= limit

Limited(t) == turn[t].reply = "limited" /\ asker[t].life = life

RefusalsAreFair == \A t \in Turn : Limited(t) =>
    /\ turn[t].pc = "done"
    /\ gate[t].refused <= clock
    /\ gate[t].scope = "pair" => Refused(t, OfPair(PairOf(t)), pairHits[PairOf(t)], PairLimit)
    /\ gate[t].scope = "user" => Refused(t, OfUser(asker[t].user), userHits[asker[t].user], UserLimit)

HitsAreFew ==
    /\ \A u \in User : Cardinality(userHits[u]) <= UserLimit
    /\ \A p \in Pair : Cardinality(pairHits[p]) <= PairLimit

RetryInv == RefusalsAreFair /\ HitsAreFew

LEMMA WaitsLongEnough ==
    ASSUME NEW n \in Nat, n > 0
    PROVE  Second * AtLeastOne(CeilSeconds(n)) \in Nat /\ Second * AtLeastOne(CeilSeconds(n)) >= n
<1>1. PICK s \in Nat : s = Second /\ s > 0
    BY MentorAssumption
<1>2. PICK m \in Nat : m = n + s - 1
    BY <1>1
<1>3. PICK q \in Int : q = m \div s
    BY <1>1, <1>2
<1>4. s * q <= m /\ m < s * q + s
    BY <1>1, <1>3
<1>5. s * q \in Int
    BY <1>1, <1>3
<1>6. s * q >= n
    BY <1>1, <1>2, <1>4, <1>5
<1>7. q >= 1
    <2>1. q <= 0 => s * q <= 0
        BY <1>1, <1>3
    <2> QED
        BY <1>3, <1>5, <1>6, <2>1
<1>8. CeilSeconds(n) = q
    BY <1>1, <1>2, <1>3 DEF CeilSeconds
<1>9. AtLeastOne(q) = q
    BY <1>3, <1>7 DEF AtLeastOne
<1> QED
    BY <1>1, <1>5, <1>6, <1>8, <1>9

LEMMA WaitFrees ==
    ASSUME clock \in Nat, NEW hits \in SUBSET Turn, \A s \in hits : gate[s].at \in Nat,
           NEW limit \in Nat, limit > 0, Cardinality(Live(hits)) >= limit,
           Cardinality(hits) <= limit,
           NEW B, B \subseteq Live(hits),
           \A s \in B : gate[s].at + Window > clock + RetryAfter(Live(hits))
    PROVE  Cardinality(B) < limit
<1> DEFINE L == Live(hits)
           o == Oldest(L)
<1>1. L \in SUBSET Turn /\ L \subseteq hits /\ \A s \in L : gate[s].at \in Nat /\ gate[s].at + Window > clock
    BY DEF Live
<1>2. IsFiniteSet(hits) /\ IsFiniteSet(L) /\ Cardinality(L) \in Nat /\ Cardinality(L) <= limit
      /\ Cardinality(hits) \in Nat
    BY <1>1, MentorAssumption, FS_Subset, FS_CardinalityType
<1>3. L # {}
    BY FS_EmptySet
<1>4. o \in L
    BY <1>1, <1>3, OldestType
<1>5. Window \in Nat
    BY MentorAssumption
<1>6. PICK n \in Nat : n = (gate[o].at + Window) - clock /\ n > 0
    BY <1>1, <1>4, <1>5
<1>7. RetryAfter(L) = Second * AtLeastOne(CeilSeconds(n))
    BY <1>6 DEF RetryAfter
<1>8. RetryAfter(L) \in Nat /\ RetryAfter(L) >= n
    BY <1>6, <1>7, WaitsLongEnough
<1>9. o \notin B
    BY <1>1, <1>4, <1>5, <1>6, <1>8
<1> HIDE DEF L, o
<1>10. B \subseteq L \ {o}
    BY <1>9 DEF L
<1>11. IsFiniteSet(L \ {o}) /\ Cardinality(L \ {o}) = Cardinality(L) - 1
    BY <1>2, <1>4, FS_RemoveElement
<1>12. Cardinality(B) <= Cardinality(L \ {o}) /\ Cardinality(B) \in Nat
    BY <1>10, <1>11, FS_Subset, FS_CardinalityType
<1> QED
    BY <1>2, <1>11, <1>12

\* Steps that neither admit nor refuse leave the refusals as they are.
LEMMA RefusalsKeep ==
    ASSUME TypeOK, AdmissionFollowsPc, RetryInv, clock' \in Nat, clock' >= clock,
           UNCHANGED <<life, gate, userHits, pairHits>>,
           \A s \in Turn : gate[s].at # None => asker'[s] = asker[s],
           \A s \in Turn : Limited(s)' => Limited(s) /\ turn'[s].pc = "done" /\ asker'[s] = asker[s]
    PROVE  RetryInv'
<1>0. clock \in Nat /\ \A s \in Turn : gate[s].refused \in Nat
    BY DEF TypeOK, Passage
<1>1. \A u : OfUser(u)' = OfUser(u)
    BY DEF OfUser, Admitted
<1>2. \A p : OfPair(p)' = OfPair(p)
    BY DEF OfPair, Admitted, PairOf
<1>3. ASSUME NEW t \in Turn, Limited(t)'
      PROVE  /\ turn'[t].pc = "done" /\ gate'[t].refused <= clock'
             /\ gate'[t].scope = "pair" =>
                    Refused(t, OfPair(PairOf(t)), pairHits[PairOf(t)], PairLimit)'
             /\ gate'[t].scope = "user" =>
                    Refused(t, OfUser(asker[t].user), userHits[asker[t].user], UserLimit)'
    <2>1. /\ turn'[t].pc = "done" /\ asker'[t] = asker[t] /\ gate[t].refused <= clock
          /\ gate[t].scope = "pair" => Refused(t, OfPair(PairOf(t)), pairHits[PairOf(t)], PairLimit)
          /\ gate[t].scope = "user" =>
                 Refused(t, OfUser(asker[t].user), userHits[asker[t].user], UserLimit)
        BY <1>3 DEF RetryInv, RefusalsAreFair
    <2>2. gate[t].refused <= clock' /\ (gate[t].refused = clock' => clock' = clock)
        BY <1>0, <2>1
    <2>3. PICK p, u : p = PairOf(t) /\ u = asker[t].user
        OBVIOUS
    <2>4. PairOf(t)' = p /\ asker'[t].user = u
        BY <2>1, <2>3 DEF PairOf
    <2>5. Before(OfPair(p), t)' = Before(OfPair(p), t) /\ Before(OfUser(u), t)' = Before(OfUser(u), t)
        BY <1>1, <1>2 DEF Before
    <2>6. clock' = clock => Live(pairHits[p])' = Live(pairHits[p]) /\ Live(userHits[u])' = Live(userHits[u])
        BY DEF Live
    <2>7. gate[t].scope = "pair" => Refused(t, OfPair(PairOf(t)), pairHits[PairOf(t)], PairLimit)'
        BY <2>1, <2>2, <2>3, <2>4, <2>5, <2>6 DEF Refused
    <2>8. gate[t].scope = "user" => Refused(t, OfUser(asker[t].user), userHits[asker[t].user], UserLimit)'
        BY <2>1, <2>2, <2>3, <2>4, <2>5, <2>6 DEF Refused
    <2> QED
        BY <2>1, <2>2, <2>7, <2>8
<1> QED
    BY <1>3 DEF RetryInv, RefusalsAreFair, HitsAreFew

\* What a turn at the gate is not: counted, in a window, or answered.
LEMMA AtTheGate ==
    ASSUME TypeOK, AdmissionFollowsPc, HitsAreAdmitted, RetryInv, NEW t \in Turn, turn[t].pc = "gate"
    PROVE  /\ gate[t].at = None /\ t \notin Admitted /\ ~Limited(t)
           /\ \A p : t \notin OfPair(p)
           /\ \A u : t \notin OfUser(u)
           /\ \A u \in User : t \notin userHits[u]
           /\ \A p \in Pair : t \notin pairHits[p]
<1>1. gate[t].at = None
    BY DEF AdmissionFollowsPc
<1>2. ~Limited(t)
    BY DEF RetryInv, RefusalsAreFair
<1> QED
    BY <1>1, <1>2 DEF HitsAreAdmitted, Admitted, OfPair, OfUser

LEMMA AdmitIsFair ==
    ASSUME TypeOK, AdmissionFollowsPc, HitsAreAdmitted, RetryInv, NEW t \in Turn, Gate(t),
           gate' = [gate EXCEPT ![t] = Admission],
           Cardinality(Live(userHits[asker[t].user])) < UserLimit,
           Cardinality(Live(pairHits[PairOf(t)])) < PairLimit,
           userHits' = [userHits EXCEPT ![asker[t].user] = Live(userHits[asker[t].user]) \cup {t}],
           pairHits' = [pairHits EXCEPT ![PairOf(t)] = Live(pairHits[PairOf(t)]) \cup {t}],
           turn' = [turn EXCEPT ![t].pc = "load"]
    PROVE  RetryInv'
<1>0. /\ clock \in Nat /\ turn \in [Turn -> Request] /\ gate \in [Turn -> Passage]
      /\ userHits \in [User -> SUBSET Turn] /\ pairHits \in [Pair -> SUBSET Turn]
      /\ \A s \in Turn : gate[s].refused \in Nat /\ gate[s].at \in Nat \cup {None}
      /\ UserLimit \in Nat /\ PairLimit \in Nat
    <2>1. /\ clock \in Nat /\ turn \in [Turn -> Request] /\ gate \in [Turn -> Passage]
          /\ userHits \in [User -> SUBSET Turn] /\ pairHits \in [Pair -> SUBSET Turn]
        BY DEF TypeOK
    <2>2. ASSUME NEW s \in Turn PROVE gate[s].refused \in Nat /\ gate[s].at \in Nat \cup {None}
        <3>1. gate[s] \in Passage
            BY <2>1
        <3> QED
            BY <3>1 DEF Passage
    <2>3. UserLimit \in Nat /\ PairLimit \in Nat
        BY MentorAssumption
    <2> QED
        BY <2>1, <2>2, <2>3
<1>1. /\ turn[t].pc = "gate" /\ asker[t] \in Asker /\ asker[t].life = life
      /\ UNCHANGED <<clock, life, asker>>
      /\ asker[t].user \in User /\ PairOf(t) \in Pair
    BY GateOutcome
<1>2. /\ gate[t].at = None /\ t \notin Admitted /\ ~Limited(t)
      /\ \A p : t \notin OfPair(p)
      /\ \A u : t \notin OfUser(u)
      /\ \A u \in User : t \notin userHits[u]
      /\ \A p \in Pair : t \notin pairHits[p]
    BY <1>1, AtTheGate
<1>3. gate'[t].at = clock /\ \A s \in Turn : s # t => gate'[s] = gate[s] /\ turn'[s] = turn[s]
    BY <1>0 DEF Admission
<1>4. Admitted' = Admitted \cup {t}
    BY <1>0, <1>1, <1>2, <1>3, MentorAssumption DEF Admitted
<1>5. turn'[t].reply = turn[t].reply
    BY <1>0 DEF Request
<1>6. ASSUME NEW s \in Turn, Limited(s)'
      PROVE  /\ turn'[s].pc = "done" /\ gate'[s].refused <= clock'
             /\ gate'[s].scope = "pair" =>
                    Refused(s, OfPair(PairOf(s)), pairHits[PairOf(s)], PairLimit)'
             /\ gate'[s].scope = "user" =>
                    Refused(s, OfUser(asker[s].user), userHits[asker[s].user], UserLimit)'
    <2>1. Limited(s) /\ s # t
        BY <1>1, <1>2, <1>3, <1>5, <1>6 DEF Limited
    <2>2. /\ turn[s].pc = "done" /\ gate[s].refused <= clock
          /\ gate[s].scope = "pair" => Refused(s, OfPair(PairOf(s)), pairHits[PairOf(s)], PairLimit)
          /\ gate[s].scope = "user" =>
                 Refused(s, OfUser(asker[s].user), userHits[asker[s].user], UserLimit)
        BY <2>1 DEF RetryInv, RefusalsAreFair
    <2>3. asker[s] \in Asker
        BY <2>2 DEF AdmissionFollowsPc
    <2>4. PICK p \in Pair, u \in User : p = PairOf(s) /\ u = asker[s].user
        BY <2>3 DEF Asker, PairOf, Pair
    <2>5. PairOf(s)' = p /\ asker'[s].user = u /\ gate'[s] = gate[s] /\ turn'[s] = turn[s]
        BY <1>1, <1>3, <2>1, <2>4 DEF PairOf
    <2>6. ASSUME gate[s].scope = "pair" PROVE Refused(s, OfPair(p), pairHits[p], PairLimit)'
        <3>1. Refused(s, OfPair(p), pairHits[p], PairLimit)
            BY <2>2, <2>4, <2>6
        <3>2. CASE p = PairOf(t)
            <4>1. gate[s].refused < clock
                <5>1. Cardinality(Live(pairHits[p])) \in Nat
                    <6>1. Live(pairHits[p]) \in SUBSET Turn
                        BY <1>0 DEF Live
                    <6> QED
                        BY <6>1, MentorAssumption, FS_Subset, FS_CardinalityType
                <5> QED
                    BY <1>0, <2>2, <3>1, <3>2, <5>1 DEF Refused
            <4>2. OfPair(p)' = OfPair(p) \cup {t}
                BY <1>1, <1>4, <3>2 DEF OfPair, PairOf
            <4>3. \A r \in OfPair(p) : r \in Turn /\ r # t
                BY <1>2 DEF OfPair, Admitted
            <4>4. Before(OfPair(p), s)' = Before(OfPair(p), s)
                BY <1>0, <1>3, <2>5, <4>1, <4>2, <4>3 DEF Before
            <4> QED
                BY <1>1, <2>5, <3>1, <4>1, <4>4, <1>0 DEF Refused
        <3>3. CASE p # PairOf(t)
            <4>2. OfPair(p)' = OfPair(p)
                BY <1>1, <1>4, <3>3 DEF OfPair, PairOf
            <4>3. \A r \in OfPair(p) : r \in Turn /\ r # t
                BY <1>2 DEF OfPair, Admitted
            <4>4. Before(OfPair(p), s)' = Before(OfPair(p), s)
                BY <1>3, <2>5, <4>2, <4>3 DEF Before
            <4>5. pairHits'[p] = pairHits[p] /\ \A r \in pairHits[p] : r \in Turn /\ r # t
                BY <1>0, <1>2, <3>3
            <4>6. Live(pairHits[p])' = Live(pairHits[p])
                BY <1>1, <1>3, <4>5 DEF Live
            <4> QED
                BY <1>1, <2>5, <3>1, <4>4, <4>6 DEF Refused
        <3> QED
            BY <3>2, <3>3
    <2>7. ASSUME gate[s].scope = "user" PROVE Refused(s, OfUser(u), userHits[u], UserLimit)'
        <3>1. Refused(s, OfUser(u), userHits[u], UserLimit)
            BY <2>2, <2>4, <2>7
        <3>2. CASE u = asker[t].user
            <4>1. gate[s].refused < clock
                <5>1. Cardinality(Live(userHits[u])) \in Nat
                    <6>1. Live(userHits[u]) \in SUBSET Turn
                        BY <1>0 DEF Live
                    <6> QED
                        BY <6>1, MentorAssumption, FS_Subset, FS_CardinalityType
                <5> QED
                    BY <1>0, <2>2, <3>1, <3>2, <5>1 DEF Refused
            <4>2. OfUser(u)' = OfUser(u) \cup {t}
                BY <1>1, <1>4, <3>2 DEF OfUser
            <4>3. \A r \in OfUser(u) : r \in Turn /\ r # t
                BY <1>2 DEF OfUser, Admitted
            <4>4. Before(OfUser(u), s)' = Before(OfUser(u), s)
                BY <1>0, <1>3, <2>5, <4>1, <4>2, <4>3 DEF Before
            <4> QED
                BY <1>1, <2>5, <3>1, <4>1, <4>4, <1>0 DEF Refused
        <3>3. CASE u # asker[t].user
            <4>2. OfUser(u)' = OfUser(u)
                BY <1>1, <1>4, <3>3 DEF OfUser
            <4>3. \A r \in OfUser(u) : r \in Turn /\ r # t
                BY <1>2 DEF OfUser, Admitted
            <4>4. Before(OfUser(u), s)' = Before(OfUser(u), s)
                BY <1>3, <2>5, <4>2, <4>3 DEF Before
            <4>5. userHits'[u] = userHits[u] /\ \A r \in userHits[u] : r \in Turn /\ r # t
                BY <1>0, <1>2, <3>3
            <4>6. Live(userHits[u])' = Live(userHits[u])
                BY <1>1, <1>3, <4>5 DEF Live
            <4> QED
                BY <1>1, <2>5, <3>1, <4>4, <4>6 DEF Refused
        <3> QED
            BY <3>2, <3>3
    <2>8. gate[s].scope = "pair" => Refused(s, OfPair(PairOf(s)), pairHits[PairOf(s)], PairLimit)'
        BY <2>5, <2>6 DEF Refused
    <2>9. gate[s].scope = "user" => Refused(s, OfUser(asker[s].user), userHits[asker[s].user], UserLimit)'
        BY <2>5, <2>7 DEF Refused
    <2> QED
        BY <1>1, <2>2, <2>5, <2>8, <2>9
<1>7. HitsAreFew'
    <2>1. ASSUME NEW u \in User PROVE Cardinality(userHits'[u]) <= UserLimit
        <3>1. CASE u = asker[t].user
            <4>1. userHits'[u] = Live(userHits[u]) \cup {t} /\ Live(userHits[u]) \in SUBSET Turn
                BY <1>0, <3>1 DEF Live
            <4>2. PICK L : L = Live(userHits[u])
                OBVIOUS
            <4> QED
                BY <1>0, <3>1, <4>1, <4>2, OneMore
        <3>2. CASE u # asker[t].user
            BY <1>0, <3>2 DEF RetryInv, HitsAreFew
        <3> QED
            BY <3>1, <3>2
    <2>2. ASSUME NEW p \in Pair PROVE Cardinality(pairHits'[p]) <= PairLimit
        <3>1. CASE p = PairOf(t)
            <4>1. pairHits'[p] = Live(pairHits[p]) \cup {t} /\ Live(pairHits[p]) \in SUBSET Turn
                BY <1>0, <3>1 DEF Live
            <4>2. PICK L : L = Live(pairHits[p])
                OBVIOUS
            <4> QED
                BY <1>0, <3>1, <4>1, <4>2, OneMore
        <3>2. CASE p # PairOf(t)
            BY <1>0, <3>2 DEF RetryInv, HitsAreFew
        <3> QED
            BY <3>1, <3>2
    <2> QED
        BY <2>1, <2>2 DEF HitsAreFew
<1> QED
    BY <1>6, <1>7 DEF RetryInv, RefusalsAreFair

LEMMA RefuseIsFair ==
    ASSUME TypeOK, AdmissionFollowsPc, HitsAreAdmitted, WindowsAreFull, RetryInv, NEW t \in Turn, Gate(t),
           gate' # [gate EXCEPT ![t] = Admission]
    PROVE  RetryInv'
<1> DEFINE ofUser == Live(userHits[asker[t].user])
           ofPair == Live(pairHits[PairOf(t)])
<1>0. /\ clock \in Nat /\ turn \in [Turn -> Request] /\ gate \in [Turn -> Passage]
      /\ userHits \in [User -> SUBSET Turn] /\ pairHits \in [Pair -> SUBSET Turn]
      /\ \A s \in Turn : gate[s].refused \in Nat /\ gate[s].at \in Nat \cup {None}
      /\ UserLimit \in Nat \ {0} /\ PairLimit \in Nat \ {0} /\ Window \in Nat
    BY MentorAssumption, SMTT(60) DEF TypeOK, Passage
<1>1. /\ turn[t].pc = "gate" /\ asker[t] \in Asker /\ asker[t].life = life
      /\ UNCHANGED <<clock, life, asker>>
      /\ asker[t].user \in User /\ PairOf(t) \in Pair
    BY GateOutcome
<1>2. /\ gate[t].at = None /\ t \notin Admitted /\ ~Limited(t)
      /\ \A p : t \notin OfPair(p)
      /\ \A u : t \notin OfUser(u)
      /\ \A u \in User : t \notin userHits[u]
      /\ \A p \in Pair : t \notin pairHits[p]
    BY <1>1, AtTheGate
<1>3. PICK pairFull \in BOOLEAN :
          /\ pairFull <=> Cardinality(ofPair) >= PairLimit
          /\ pairFull \/ Cardinality(ofUser) >= UserLimit
          /\ gate' = [gate EXCEPT ![t] = IF pairFull THEN Refusal("pair", ofPair) ELSE Refusal("user", ofUser)]
          /\ userHits' = [userHits EXCEPT ![asker[t].user] = ofUser]
          /\ pairHits' = [pairHits EXCEPT ![PairOf(t)] = ofPair]
          /\ turn' = [turn EXCEPT ![t].pc = "done", ![t].reply = "limited"]
    BY DEF Gate, Ends
<1>4. /\ gate'[t] = IF pairFull THEN Refusal("pair", ofPair) ELSE Refusal("user", ofUser)
      /\ turn'[t].pc = "done" /\ turn'[t].reply = "limited"
      /\ \A s \in Turn : s # t => gate'[s] = gate[s] /\ turn'[s] = turn[s]
    BY <1>0, <1>3 DEF Request
<1>5. \A s \in Turn : gate'[s].at = gate[s].at
    BY <1>2, <1>4 DEF Refusal
<1>6. /\ \A u : OfUser(u)' = OfUser(u) /\ OfUser(u) \subseteq Turn
      /\ \A p : OfPair(p)' = OfPair(p) /\ OfPair(p) \subseteq Turn
    BY <1>1, <1>5 DEF OfUser, OfPair, Admitted, PairOf
<1>7. /\ \A u \in User : userHits[u] \in SUBSET Turn /\ userHits'[u] \subseteq userHits[u]
                         /\ Live(userHits[u])' = Live(userHits[u])
      /\ \A p \in Pair : pairHits[p] \in SUBSET Turn /\ pairHits'[p] \subseteq pairHits[p]
                         /\ Live(pairHits[p])' = Live(pairHits[p])
    <2>1. ASSUME NEW u \in User
          PROVE  userHits[u] \in SUBSET Turn /\ userHits'[u] \subseteq userHits[u]
                 /\ Live(userHits[u])' = Live(userHits[u])
        <3>1. userHits[u] \in SUBSET Turn /\ (userHits'[u] = userHits[u] \/ userHits'[u] = Live(userHits[u]))
            BY <1>0, <1>3
        <3> QED
            BY <1>1, <1>5, <3>1 DEF Live
    <2>2. ASSUME NEW p \in Pair
          PROVE  pairHits[p] \in SUBSET Turn /\ pairHits'[p] \subseteq pairHits[p]
                 /\ Live(pairHits[p])' = Live(pairHits[p])
        <3>1. pairHits[p] \in SUBSET Turn /\ (pairHits'[p] = pairHits[p] \/ pairHits'[p] = Live(pairHits[p]))
            BY <1>0, <1>3
        <3> QED
            BY <1>1, <1>5, <3>1 DEF Live
    <2> QED
        BY <2>1, <2>2
<1>8. HitsAreFew'
    <2>1. ASSUME NEW u \in User PROVE Cardinality(userHits'[u]) <= UserLimit
        <3>1. PICK a, b : a = userHits'[u] /\ b = userHits[u]
            OBVIOUS
        <3>2. IsFiniteSet(b) /\ a \subseteq b /\ Cardinality(b) <= UserLimit
            BY <1>7, <3>1, MentorAssumption, FS_Subset DEF RetryInv, HitsAreFew
        <3>3. Cardinality(a) <= Cardinality(b) /\ Cardinality(a) \in Nat /\ Cardinality(b) \in Nat
            BY <3>2, FS_Subset, FS_CardinalityType
        <3> QED
            BY <1>0, <3>1, <3>2, <3>3
    <2>2. ASSUME NEW p \in Pair PROVE Cardinality(pairHits'[p]) <= PairLimit
        <3>1. PICK a, b : a = pairHits'[p] /\ b = pairHits[p]
            OBVIOUS
        <3>2. IsFiniteSet(b) /\ a \subseteq b /\ Cardinality(b) <= PairLimit
            BY <1>7, <3>1, MentorAssumption, FS_Subset DEF RetryInv, HitsAreFew
        <3>3. Cardinality(a) <= Cardinality(b) /\ Cardinality(a) \in Nat /\ Cardinality(b) \in Nat
            BY <3>2, FS_Subset, FS_CardinalityType
        <3> QED
            BY <1>0, <3>1, <3>2, <3>3
    <2> QED
        BY <2>1, <2>2 DEF HitsAreFew
<1>9. ASSUME NEW s \in Turn, s # t, Limited(s)'
      PROVE  /\ turn'[s].pc = "done" /\ gate'[s].refused <= clock'
             /\ gate'[s].scope = "pair" =>
                    Refused(s, OfPair(PairOf(s)), pairHits[PairOf(s)], PairLimit)'
             /\ gate'[s].scope = "user" =>
                    Refused(s, OfUser(asker[s].user), userHits[asker[s].user], UserLimit)'
    <2>1. Limited(s)
        BY <1>1, <1>4, <1>9 DEF Limited
    <2>2. /\ turn[s].pc = "done" /\ gate[s].refused <= clock
          /\ gate[s].scope = "pair" => Refused(s, OfPair(PairOf(s)), pairHits[PairOf(s)], PairLimit)
          /\ gate[s].scope = "user" =>
                 Refused(s, OfUser(asker[s].user), userHits[asker[s].user], UserLimit)
        BY <2>1 DEF RetryInv, RefusalsAreFair
    <2>3. asker[s] \in Asker
        BY <2>2 DEF AdmissionFollowsPc
    <2>4. PICK p \in Pair, u \in User : p = PairOf(s) /\ u = asker[s].user
        BY <2>3 DEF Asker, PairOf, Pair
    <2>5. PairOf(s)' = p /\ asker'[s].user = u /\ gate'[s] = gate[s] /\ turn'[s] = turn[s]
        BY <1>1, <1>4, <1>9, <2>4 DEF PairOf
    <2>6. Before(OfPair(p), s)' = Before(OfPair(p), s) /\ Before(OfUser(u), s)' = Before(OfUser(u), s)
        BY <1>5, <1>6, <2>5 DEF Before
    <2>7. gate[s].scope = "pair" => Refused(s, OfPair(PairOf(s)), pairHits[PairOf(s)], PairLimit)'
        BY <1>1, <1>7, <2>2, <2>4, <2>5, <2>6 DEF Refused
    <2>8. gate[s].scope = "user" => Refused(s, OfUser(asker[s].user), userHits[asker[s].user], UserLimit)'
        BY <1>1, <1>7, <2>2, <2>4, <2>5, <2>6 DEF Refused
    <2> QED
        BY <1>1, <2>2, <2>5, <2>7, <2>8
<1>10. PICK p \in Pair, u \in User : p = PairOf(t) /\ u = asker[t].user
    BY <1>1
<1>11. PairOf(t)' = p /\ asker'[t].user = u
    BY <1>1, <1>10 DEF PairOf
<1>12. /\ \A r \in pairHits[p] : gate[r].at \in Nat
       /\ \A r \in userHits[u] : gate[r].at \in Nat
    BY <1>0, <1>7 DEF HitsAreAdmitted
<1>c. \A hits \in SUBSET Turn : Cardinality(Live(hits)) \in Nat
    <2>1. ASSUME NEW hits \in SUBSET Turn, NEW L, L = Live(hits) PROVE Cardinality(L) \in Nat
        BY <2>1, MentorAssumption, FS_Subset, FS_CardinalityType DEF Live
    <2> QED
        BY <2>1
<1>13. ASSUME pairFull PROVE gate'[t].scope = "pair" /\ gate'[t].refused = clock
                             /\ Refused(t, OfPair(p), pairHits[p], PairLimit)'
    <2>1. gate'[t].scope = "pair" /\ gate'[t].refused = clock /\ gate'[t].retry = RetryAfter(Live(pairHits[p]))
        BY <1>4, <1>10, <1>13 DEF Refusal
    <2>2. PICK hits \in SUBSET Turn : hits = pairHits[p]
        BY <1>7
    <2>3. Cardinality(Live(hits)) >= PairLimit /\ Cardinality(hits) <= PairLimit
        BY <1>3, <1>10, <1>13, <2>2 DEF RetryInv, HitsAreFew
    <2>r. RetryAfter(Live(hits)) \in Nat
        <3>0. PICK n : n = Cardinality(Live(hits))
            OBVIOUS
        <3>e. n > 0
            <4>1. PairLimit \in Nat /\ PairLimit # 0 /\ n >= PairLimit
                BY <1>0, <2>3, <3>0
            <4>2. n \in Nat
                BY <1>c, <3>0
            <4> QED
                BY <4>1, <4>2
        <3>1. Live(hits) # {}
            <4>1. Cardinality({}) = 0
                BY FS_EmptySet
            <4> QED
                BY <3>0, <3>e, <4>1
        <3>2. \A r \in hits : gate[r].at # None
            BY <2>2 DEF HitsAreAdmitted
        <3> QED
            BY <3>1, <3>2, LiveHits
    <2>4. PICK B : B = Before(OfPair(p), t)'
        OBVIOUS
    <2>5. B = {r \in OfPair(p) : gate[r].at <= clock /\ gate[r].at + Window > clock + RetryAfter(Live(hits))}
        BY <1>5, <1>6, <2>1, <2>2, <2>4 DEF Before
    <2>6. B \subseteq Live(hits)
        <3>1. Recent(OfPair(p)) \subseteq hits
            BY <2>2 DEF WindowsAreFull
        <3>2. \A r \in OfPair(p) : gate[r].at \in Nat
            BY <1>0 DEF OfPair, Admitted
        <3> QED
            BY <1>0, <2>5, <2>r, <3>1, <3>2 DEF Recent, Live
    <2>7. Cardinality(B) < PairLimit
        BY <1>0, <1>12, <2>2, <2>3, <2>5, <2>6, WaitFrees
    <2> QED
        BY <1>1, <1>7, <2>1, <2>2, <2>3, <2>4, <2>7 DEF Refused
<1>14. ASSUME ~pairFull PROVE gate'[t].scope = "user" /\ gate'[t].refused = clock
                              /\ Refused(t, OfUser(u), userHits[u], UserLimit)'
    <2>1. gate'[t].scope = "user" /\ gate'[t].refused = clock /\ gate'[t].retry = RetryAfter(Live(userHits[u]))
        BY <1>4, <1>10, <1>14 DEF Refusal
    <2>2. PICK hits \in SUBSET Turn : hits = userHits[u]
        BY <1>7
    <2>3. Cardinality(Live(hits)) >= UserLimit /\ Cardinality(hits) <= UserLimit
        BY <1>3, <1>10, <1>14, <2>2 DEF RetryInv, HitsAreFew
    <2>r. RetryAfter(Live(hits)) \in Nat
        <3>0. PICK n : n = Cardinality(Live(hits))
            OBVIOUS
        <3>e. n > 0
            <4>1. UserLimit \in Nat /\ UserLimit # 0 /\ n >= UserLimit
                BY <1>0, <2>3, <3>0
            <4>2. n \in Nat
                BY <1>c, <3>0
            <4> QED
                BY <4>1, <4>2
        <3>1. Live(hits) # {}
            <4>1. Cardinality({}) = 0
                BY FS_EmptySet
            <4> QED
                BY <3>0, <3>e, <4>1
        <3>2. \A r \in hits : gate[r].at # None
            BY <2>2 DEF HitsAreAdmitted
        <3> QED
            BY <3>1, <3>2, LiveHits
    <2>4. PICK B : B = Before(OfUser(u), t)'
        OBVIOUS
    <2>5. B = {r \in OfUser(u) : gate[r].at <= clock /\ gate[r].at + Window > clock + RetryAfter(Live(hits))}
        BY <1>5, <1>6, <2>1, <2>2, <2>4 DEF Before
    <2>6. B \subseteq Live(hits)
        <3>1. Recent(OfUser(u)) \subseteq hits
            BY <2>2 DEF WindowsAreFull
        <3>2. \A r \in OfUser(u) : gate[r].at \in Nat
            BY <1>0 DEF OfUser, Admitted
        <3> QED
            BY <1>0, <2>5, <2>r, <3>1, <3>2 DEF Recent, Live
    <2>7. Cardinality(B) < UserLimit
        BY <1>0, <1>12, <2>2, <2>3, <2>5, <2>6, WaitFrees
    <2> QED
        BY <1>1, <1>7, <2>1, <2>2, <2>3, <2>4, <2>7 DEF Refused
<1>15. /\ turn'[t].pc = "done" /\ gate'[t].refused <= clock'
       /\ gate'[t].scope = "pair" => Refused(t, OfPair(PairOf(t)), pairHits[PairOf(t)], PairLimit)'
       /\ gate'[t].scope = "user" => Refused(t, OfUser(asker[t].user), userHits[asker[t].user], UserLimit)'
    BY <1>0, <1>1, <1>4, <1>11, <1>13, <1>14 DEF Refused
<1> QED
    BY <1>8, <1>9, <1>15 DEF RetryInv, RefusalsAreFair

\* A limited turn is done, in whatever life.
LimitedIsDone == \A t \in Turn : turn[t].reply = "limited" => turn[t].pc = "done"

LEMMA NextLimited ==
    ASSUME TypeOK, LimitedIsDone, [Next]_vars
    PROVE  LimitedIsDone'
<1>0. turn \in [Turn -> Request]
    BY DEF TypeOK
<1>1. ASSUME NEW t \in Turn, Arrive(t) \/ Gate(t) \/ AfterGate(t) PROVE LimitedIsDone'
    <2>1. CASE Arrive(t)
        BY <1>0, <2>1 DEF Arrive, Request, LimitedIsDone
    <2>2. CASE Gate(t)
        BY <1>0, <2>2 DEF Gate, Ends, Request, LimitedIsDone
    <2>3. CASE BuildFromCache(t) \/ BuildFromLoaders(t) \/ Loaded(t)
        BY <1>0, <2>3 DEF BuildFromCache, BuildFromLoaders, Loaded, Request, LimitedIsDone
    <2>4. CASE Ask(t) \/ Find(t)
        BY <1>0, <2>4 DEF Ask, Find, Request, LimitedIsDone
    <2>5. CASE Attack(t)
        BY <1>0, <2>5 DEF Attack, Request, LimitedIsDone
    <2>6. CASE CreateThread(t) \/ SayUser(t) \/ SayMentor(t)
        BY <1>0, <2>6 DEF CreateThread, SayUser, SayMentor, Request, LimitedIsDone
    <2>7. CASE RecordSpend(t) \/ GatewayFails(t) \/ QueryFails(t)
        BY <1>0, <2>7 DEF RecordSpend, GatewayFails, QueryFails, Ends, Request, LimitedIsDone
    <2> QED
        BY <1>1, <2>1, <2>2, <2>3, <2>4, <2>5, <2>6, <2>7 DEF AfterGate
<1>2. CASE Tick \/ UNCHANGED vars
    BY <1>2 DEF Tick, vars, LimitedIsDone
<1>3. CASE Restart
    BY <1>0, <1>3 DEF Restart, Request, LimitedIsDone
<1> QED
    BY <1>1, <1>2, <1>3 DEF Next, Step, AfterGate

LEMMA NextRetry ==
    ASSUME RateInv, RetryInv, LimitedIsDone, [Next]_vars
    PROVE  RetryInv'
<1>0. /\ TypeOK /\ AdmissionFollowsPc /\ KnowsItsPlace /\ HitsAreAdmitted /\ WindowsAreFull
      /\ turn \in [Turn -> Request] /\ clock \in Nat
    BY DEF RateInv, TypeOK
<1>d. \A s \in Turn : Limited(s) => turn[s].pc = "done"
    BY DEF RetryInv, RefusalsAreFair
<1>1. ASSUME NEW t \in Turn, Arrive(t) PROVE RetryInv'
    <2>1. /\ turn[t].pc = "new" /\ turn'[t].reply # "limited"
          /\ UNCHANGED <<clock, life, gate, userHits, pairHits>>
          /\ \A s \in Turn : s # t => turn'[s] = turn[s] /\ asker'[s] = asker[s]
        BY <1>0, <1>1 DEF Arrive, TypeOK, process, Request
    <2>2. gate[t].at = None
        BY <1>0, <2>1 DEF AdmissionFollowsPc
    <2>3. \A s \in Turn : Limited(s)' => Limited(s) /\ turn'[s].pc = "done" /\ asker'[s] = asker[s]
        BY <1>d, <2>1 DEF Limited
    <2> QED
        BY <1>0, <2>1, <2>2, <2>3, RefusalsKeep
<1>2. ASSUME NEW t \in Turn, Gate(t) PROVE RetryInv'
    <2>1. CASE gate' = [gate EXCEPT ![t] = Admission]
        <3>1. gate[t].at = None /\ Admission.at # None /\ gate \in [Turn -> Passage]
            BY <1>0, <1>2, GateOutcome, MentorAssumption DEF AdmissionFollowsPc, Admission, TypeOK
        <3>2. ~ \E g \in Passage : g.at = None /\ gate' = [gate EXCEPT ![t] = g]
            BY <2>1, <3>1
        <3>3. LET u == asker[t].user
                  p == PairOf(t)
              IN  /\ Cardinality(Live(userHits[u])) < UserLimit
                  /\ Cardinality(Live(pairHits[p])) < PairLimit
                  /\ userHits' = [userHits EXCEPT ![u] = Live(userHits[u]) \cup {t}]
                  /\ pairHits' = [pairHits EXCEPT ![p] = Live(pairHits[p]) \cup {t}]
                  /\ turn' = [turn EXCEPT ![t].pc = "load"]
            BY <1>0, <1>2, <3>2, GateOutcome
        <3> QED
            BY <1>0, <1>2, <2>1, <3>3, AdmitIsFair
    <2>2. CASE gate' # [gate EXCEPT ![t] = Admission]
        BY <1>0, <1>2, <2>2, RefuseIsFair
    <2> QED
        BY <2>1, <2>2
<1>3. ASSUME NEW t \in Turn, AfterGate(t) PROVE RetryInv'
    <2>1. UNCHANGED <<clock, life, asker, gate, userHits, pairHits>>
        BY <1>3, AfterGateFrame
    <2>2. /\ \A s \in Turn : s # t => turn'[s] = turn[s]
          /\ turn'[t].reply # "limited" \/ (turn'[t].reply = turn[t].reply /\ turn[t].pc # "done")
        <3>1. CASE BuildFromCache(t) \/ BuildFromLoaders(t) \/ Loaded(t)
            BY <1>0, <3>1 DEF BuildFromCache, BuildFromLoaders, Loaded, Request
        <3>2. CASE Ask(t) \/ Find(t)
            BY <1>0, <3>2 DEF Ask, Find, Request
        <3>3. CASE Attack(t)
            BY <1>0, <3>3 DEF Attack, Request
        <3>4. CASE CreateThread(t) \/ SayUser(t) \/ SayMentor(t)
            BY <1>0, <3>4 DEF CreateThread, SayUser, SayMentor, Request
        <3>5. CASE RecordSpend(t) \/ GatewayFails(t) \/ QueryFails(t)
            BY <1>0, <3>5 DEF RecordSpend, GatewayFails, QueryFails, Ends, Request
        <3> QED
            BY <1>3, <3>1, <3>2, <3>3, <3>4, <3>5 DEF AfterGate
    <2>3. \A s \in Turn : Limited(s)' => Limited(s) /\ turn'[s].pc = "done" /\ asker'[s] = asker[s]
        BY <1>d, <2>1, <2>2 DEF Limited
    <2> QED
        BY <1>0, <2>1, <2>3, RefusalsKeep
<1>4. CASE Tick \/ UNCHANGED vars
    <2>1. UNCHANGED <<life, asker, turn, gate, userHits, pairHits>> /\ clock' \in Nat /\ clock' >= clock
        BY <1>0, <1>4 DEF Tick, vars, process
    <2>2. \A s \in Turn : Limited(s)' => Limited(s) /\ turn'[s].pc = "done" /\ asker'[s] = asker[s]
        BY <1>d, <2>1 DEF Limited
    <2> QED
        BY <1>0, <2>1, <2>2, RefusalsKeep
<1>5. CASE Restart
    <2>1. /\ life' = life + 1 /\ life \in Nat /\ UNCHANGED asker
          /\ userHits' = [u \in User |-> {}] /\ pairHits' = [p \in Pair |-> {}]
          /\ \A s \in Turn : turn'[s] = turn[s] \/ turn'[s].reply = "dropped"
        BY <1>0, <1>5 DEF Restart, TypeOK, Request
    <2>2. \A s \in Turn : ~Limited(s)'
        <3>1. ASSUME NEW s \in Turn, Limited(s)' PROVE FALSE
            <4>1. turn[s].reply = "limited" /\ asker[s].life = life + 1
                BY <2>1, <3>1 DEF Limited
            <4>2. turn[s].pc = "new" \/ (asker[s] \in Asker /\ asker[s].life <= life)
                BY <1>0 DEF AdmissionFollowsPc
            <4>3. turn[s].pc # "new"
                BY <4>1 DEF LimitedIsDone
            <4> QED
                BY <2>1, <4>1, <4>2, <4>3 DEF Asker
        <3> QED
            BY <3>1
    <2>3. HitsAreFew'
        BY <2>1, FS_EmptySet, MentorAssumption DEF HitsAreFew
    <2> QED
        BY <2>2, <2>3 DEF RetryInv, RefusalsAreFair
<1> QED
    BY <1>1, <1>2, <1>3, <1>4, <1>5 DEF Next, Step, AfterGate

\* The limiter holds its limits and refuses for no shorter than it must: whoever
\* waits as long as it was told finds room, unless others took it since
\* (InMemoryMentorRateLimiter.check and its retryAfter, any limits and window).
THEOREM RefusalsAreHonest == Spec => []RateIsHonest
<1>1. Init => RetryInv /\ LimitedIsDone
    <2>1. Cardinality({}) = 0 /\ UserLimit \in Nat /\ PairLimit \in Nat
        BY FS_EmptySet, MentorAssumption
    <2>2. ASSUME Init PROVE RetryInv /\ LimitedIsDone
        BY <2>1, <2>2 DEF Init, RetryInv, RefusalsAreFair, HitsAreFew, Limited, LimitedIsDone
    <2> QED
        BY <2>2
<1>2. RateInv /\ RetryInv => RateIsHonest
    <2>1. RateInv => RateBound
        BY MentorAssumption DEF RateInv, Bounded, RateBound
    <2>2. RetryInv => RetryIsEnough
        BY DEF RetryInv, RefusalsAreFair, RetryIsEnough, Limited, Refused, Before
    <2> QED
        BY <2>1, <2>2 DEF RateIsHonest
<1>3. RateInv => TypeOK
    BY DEF RateInv
<1> QED
    BY InitRate, NextRate, NextRetry, NextLimited, <1>1, <1>2, <1>3, PTL DEF Spec
=============================================================================
