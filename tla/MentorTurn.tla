----------------------------- MODULE MentorTurn -----------------------------
(***************************************************************************)
(* One mentor turn: POST /api/mentor/messages and runMentorRequest.  A     *)
(* turn reads the stage policy, passes the rate limiter, builds or reuses  *)
(* the stage's context, asks the model, runs the leak battery against the  *)
(* same model, redacts, finds or creates the thread, stores two messages   *)
(* and records what it spent.  Every await is a step, so turns interleave. *)
(* The limiter, the context cache and the spend ledger live in the         *)
(* process and are gone when it restarts.                                  *)
(***************************************************************************)
EXTENDS Naturals, Sequences, FiniteSets

CONSTANTS
    Turn,              \* requests to the route that passed access
    User, Package,     \* a user and a package version determine the enrolment
    Policy,            \* stage policies a package version may carry
    Forbidden,         \* policies with "always" on a solution scope
    Secret,            \* redaction targets
    Targets,           \* [Policy -> SUBSET Secret]: mentor_redaction_targets
    UserLimit, PairLimit,   \* MENTOR_RATE_PER_USER_LIMIT, ..._PER_USER_PACKAGE_LIMIT
    Window,            \* MENTOR_RATE_WINDOW_MS, in ticks
    Second,            \* ticks of a second
    CacheSize, Ttl,    \* MENTOR_CONTEXT_CACHE_MAX_ENTRIES, ..._TTL_MS
    Attacks,           \* length of DEFAULT_ATTACKS
    MaxClock,          \* bound on the clock
    MaxFaults,         \* bound on failing calls and restarts, together
    None

ASSUME MentorAssumption ==
    /\ IsFiniteSet(Turn)
    /\ Forbidden \subseteq Policy
    /\ Targets \in [Policy -> SUBSET Secret]
    /\ {UserLimit, PairLimit, Window, Second, CacheSize, Ttl, Attacks} \subseteq Nat \ {0}
    /\ {MaxClock, MaxFaults} \subseteq Nat
    /\ None \notin Turn \cup Nat

VARIABLES
    clock,      \* Date.now() of the process
    life,       \* which start of the process this is
    asker,      \* what a request brings and reads first; None before it arrives
    gate,       \* what the limiter answered it: when it was let in, or how long to wait
    turn,       \* locals of each request, and its reply
    userHits, pairHits,   \* the limiter's windows: turns admitted and not yet pruned
    cache,      \* context cache: entries in the order they were inserted
    thread,     \* MentorThread rows, each named by the turn that created it
    message,    \* MentorMessage rows
    ledger,     \* turns whose spend is recorded
    faults

vars == <<clock, life, asker, gate, turn, userHits, pairHits, cache, thread, message, ledger, faults>>

Pair == User \X Package
Role == {"user", "assistant"}
Context == [policy: Policy, package: Package]
Entry == [key: Context, value: Context, expires: Nat]
Message == [turn: Turn, role: Role, thread: Turn, text: SUBSET Secret]

Asker == [user: User, package: Package, policy: Policy, life: Nat]
Passage == [at: Nat \cup {None}, scope: {"none", "pair", "user"}, retry: Nat, refused: Nat]
Place == {"new", "gate", "load", "ask", "attack", "find", "create", "sayUser", "sayMentor", "spend",
          "done"}
Reply == {"none", "ok", "misconfigured", "limited", "error", "dropped"}
Request == [pc: Place, context: Context \cup {None}, left: 0..Attacks, leaked: BOOLEAN,
            text: SUBSET Secret, thread: Turn \cup {None}, reply: Reply]

TypeOK ==
    /\ clock \in 0..MaxClock
    /\ life \in Nat
    /\ asker \in [Turn -> Asker \cup {None}]
    /\ gate \in [Turn -> Passage]
    /\ turn \in [Turn -> Request]
    /\ userHits \in [User -> SUBSET Turn]
    /\ pairHits \in [Pair -> SUBSET Turn]
    /\ cache \in Seq(Entry)
    /\ thread \subseteq Turn
    /\ message \subseteq Message
    /\ ledger \subseteq Turn
    /\ faults \in 0..MaxFaults

Init ==
    /\ clock = 0
    /\ life = 0
    /\ asker = [t \in Turn |-> None]
    /\ gate = [t \in Turn |-> [at |-> None, scope |-> "none", retry |-> 0, refused |-> 0]]
    /\ turn = [t \in Turn |-> [pc |-> "new", context |-> None, left |-> Attacks, leaked |-> FALSE,
                               text |-> {}, thread |-> None, reply |-> "none"]]
    /\ userHits = [u \in User |-> {}]
    /\ pairHits = [p \in Pair |-> {}]
    /\ cache = <<>>
    /\ thread = {}
    /\ message = {}
    /\ ledger = {}
    /\ faults = 0

rows == <<thread, message>>
process == <<userHits, pairHits, cache, ledger>>
world == <<clock, life, asker, gate>>

PairOf(t) == <<asker[t].user, asker[t].package>>
Ends(t, reply) == turn' = [turn EXCEPT ![t].pc = "done", ![t].reply = reply]

\* A request arrives and reads the stage policy (prisma.stage.findUnique): any
\* policy, for the row may be written again between two requests.  A policy
\* that shows a solution "always" is refused.
Arrive(t) ==
    /\ turn[t].pc = "new"
    /\ \E u \in User, p \in Package, policy \in Policy :
           LET forbidden == policy \in Forbidden
           IN  /\ asker' = [asker EXCEPT ![t] = [user |-> u, package |-> p, policy |-> policy,
                                                 life |-> life]]
               /\ turn' = [turn EXCEPT ![t].pc = IF forbidden THEN "done" ELSE "gate",
                                       ![t].reply = IF forbidden THEN "misconfigured" ELSE "none"]
    /\ UNCHANGED <<clock, life, gate, process, rows, faults>>

----------------------------------------------------------------------------
(* The rate limiter. *)

\* prune: a hit is forgotten once it is a whole window old.
Live(hits) == {t \in hits : gate[t].at + Window > clock}

Oldest(hits) == CHOOSE s \in hits : \A r \in hits : gate[s].at <= gate[r].at
CeilSeconds(n) == (n + Second - 1) \div Second
AtLeastOne(n) == IF n < 1 THEN 1 ELSE n
\* Mutant: the wait is rounded down.
RetryRoundedDown(hits) ==
    Second * AtLeastOne(((gate[Oldest(hits)].at + Window) - clock) \div Second)
\* retryAfter, in ticks: whole seconds until the oldest hit leaves the window.
RetryAfter(hits) ==
    Second * AtLeastOne(CeilSeconds((gate[Oldest(hits)].at + Window) - clock))

Admission == [at |-> clock, scope |-> "none", retry |-> 0, refused |-> 0]
Refusal(scope, hits) ==
    [at |-> None, scope |-> scope, retry |-> RetryAfter(hits), refused |-> clock]

\* check: the narrower window first; an admitted turn enters both.
Gate(t) ==
    /\ turn[t].pc = "gate"
    /\ LET u == asker[t].user
           p == PairOf(t)
           ofUser == Live(userHits[u])
           ofPair == Live(pairHits[p])
           pairFull == Cardinality(ofPair) >= PairLimit
           userFull == Cardinality(ofUser) >= UserLimit
       IN  \/ /\ ~pairFull /\ ~userFull
              /\ gate' = [gate EXCEPT ![t] = Admission]
              /\ userHits' = [userHits EXCEPT ![u] = ofUser \cup {t}]
              /\ pairHits' = [pairHits EXCEPT ![p] = ofPair \cup {t}]
              /\ turn' = [turn EXCEPT ![t].pc = "load"]
           \/ /\ pairFull \/ userFull
              /\ gate' = [gate EXCEPT ![t] = IF pairFull THEN Refusal("pair", ofPair)
                                                         ELSE Refusal("user", ofUser)]
              /\ userHits' = [userHits EXCEPT ![u] = ofUser]
              /\ pairHits' = [pairHits EXCEPT ![p] = ofPair]
              /\ Ends(t, "limited")
    /\ UNCHANGED <<clock, life, asker, cache, ledger, rows, faults>>

----------------------------------------------------------------------------
(* The context cache and the builder. *)

ContextOf(t) == [policy |-> asker[t].policy, package |-> asker[t].package]

\* Mutant: the key leaves out the digest of the policy.
KeyWithoutPolicy(t) ==
    [policy |-> CHOOSE p \in Policy : p \notin Forbidden, package |-> asker[t].package]
\* mentorContextCacheKey.
Key(t) == ContextOf(t)

At(key) == {i \in DOMAIN cache : cache[i].key = key}
WithoutKey(key) ==
    IF At(key) = {} THEN cache
    ELSE LET i == CHOOSE i \in At(key) : TRUE
         IN  SubSeq(cache, 1, i - 1) \o SubSeq(cache, i + 1, Len(cache))

\* set: an entry of the same key is replaced at the end, else the oldest
\* insertion makes room.
Cached(entry) ==
    Append(IF At(entry.key) # {} THEN WithoutKey(entry.key)
           ELSE IF Len(cache) >= CacheSize THEN Tail(cache) ELSE cache, entry)

\* get: an expired entry is dropped and missed.
Hit(t) == {i \in At(Key(t)) : cache[i].expires > clock}

BuildFromCache(t) ==
    /\ turn[t].pc = "load"
    /\ turn[t].context = None
    /\ \E i \in Hit(t) :
           turn' = [turn EXCEPT ![t].pc = "ask", ![t].context = cache[i].value]
    /\ UNCHANGED <<world, process, rows, faults>>

\* A miss: the loaders run; other turns may load the same context meanwhile.
BuildFromLoaders(t) ==
    /\ turn[t].pc = "load"
    /\ turn[t].context = None
    /\ Hit(t) = {}
    /\ cache' = WithoutKey(Key(t))
    /\ turn' = [turn EXCEPT ![t].context = ContextOf(t)]
    /\ UNCHANGED <<world, userHits, pairHits, ledger, rows, faults>>

Loaded(t) ==
    /\ turn[t].pc = "load"
    /\ turn[t].context # None
    /\ cache' = Cached([key |-> Key(t), value |-> turn[t].context, expires |-> clock + Ttl])
    /\ turn' = [turn EXCEPT ![t].pc = "ask"]
    /\ UNCHANGED <<world, userHits, pairHits, ledger, rows, faults>>

----------------------------------------------------------------------------
(* The model, the leak battery and the redactor. *)

Ask(t) ==
    /\ turn[t].pc = "ask"
    /\ \E text \in SUBSET Secret :
           turn' = [turn EXCEPT ![t].pc = "attack", ![t].text = text]
    /\ UNCHANGED <<world, process, rows, faults>>

\* Mutant: an answer that survived the battery is stored as it is.
DeliverableUnredacted(t, leaked) == IF leaked THEN {} ELSE turn[t].text
\* Authored refusal copy after a leak, the redacted answer otherwise.
Deliverable(t, leaked) == IF leaked THEN {} ELSE turn[t].text \ Targets[asker[t].policy]

\* runLeakTests, one attack (evidence is a redaction target in its answer);
\* after the last one the text to store is settled.
Attack(t) ==
    /\ turn[t].pc = "attack"
    /\ \E leaks \in IF Targets[asker[t].policy] = {} THEN {FALSE} ELSE BOOLEAN :
           LET leaked == turn[t].leaked \/ leaks
               last == turn[t].left = 1
           IN  turn' = [turn EXCEPT ![t].left = @ - 1, ![t].leaked = leaked,
                                    ![t].pc = IF last THEN "find" ELSE "attack",
                                    ![t].text = IF last THEN Deliverable(t, leaked) ELSE @]
    /\ UNCHANGED <<world, process, rows, faults>>

\* gateway.complete throws: 500, the hit stays in the window.
GatewayFails(t) ==
    /\ turn[t].pc \in {"ask", "attack"}
    /\ faults < MaxFaults
    /\ faults' = faults + 1
    /\ Ends(t, "error")
    /\ UNCHANGED <<world, process, rows>>

----------------------------------------------------------------------------
(* The rows. *)

ThreadsOf(t) == {s \in thread : PairOf(s) = PairOf(t)}

\* findFirst without an order: any thread of the enrolment and stage.
Find(t) ==
    /\ turn[t].pc = "find"
    /\ \/ \E s \in ThreadsOf(t) :
              turn' = [turn EXCEPT ![t].pc = "sayUser", ![t].thread = s]
       \/ /\ ThreadsOf(t) = {}
          /\ turn' = [turn EXCEPT ![t].pc = "create"]
    /\ UNCHANGED <<world, process, rows, faults>>

CreateThread(t) ==
    /\ turn[t].pc = "create"
    /\ thread' = thread \cup {t}
    /\ turn' = [turn EXCEPT ![t].pc = "sayUser", ![t].thread = t]
    /\ UNCHANGED <<world, process, message, faults>>

Row(t, role) ==
    [turn |-> t, role |-> role, thread |-> turn[t].thread,
     text |-> IF role = "user" THEN {} ELSE turn[t].text]

SayUser(t) ==
    /\ turn[t].pc = "sayUser"
    /\ message' = message \cup {Row(t, "user")}
    /\ turn' = [turn EXCEPT ![t].pc = "sayMentor"]
    /\ UNCHANGED <<world, process, thread, faults>>

SayMentor(t) ==
    /\ turn[t].pc = "sayMentor"
    /\ message' = message \cup {Row(t, "assistant")}
    /\ turn' = [turn EXCEPT ![t].pc = "spend"]
    /\ UNCHANGED <<world, process, thread, faults>>

\* A query fails or times out; withQueryTimeout rejects and does not cancel,
\* so a write may be there all the same.
QueryFails(t) ==
    /\ faults < MaxFaults
    /\ faults' = faults + 1
    /\ Ends(t, "error")
    /\ \/ /\ turn[t].pc \in {"find", "create", "sayUser", "sayMentor"}
          /\ UNCHANGED rows
       \/ turn[t].pc = "create" /\ thread' = thread \cup {t} /\ UNCHANGED message
       \/ turn[t].pc = "sayUser" /\ message' = message \cup {Row(t, "user")} /\ UNCHANGED thread
       \/ /\ turn[t].pc = "sayMentor"
          /\ message' = message \cup {Row(t, "assistant")}
          /\ UNCHANGED thread
    /\ UNCHANGED <<world, process>>

Charged(t) == ledger \cup {t}

\* recordSpend; then the reply.
RecordSpend(t) ==
    /\ turn[t].pc = "spend"
    /\ ledger' = Charged(t)
    /\ Ends(t, "ok")
    /\ UNCHANGED <<world, userHits, pairHits, cache, rows, faults>>

----------------------------------------------------------------------------
(* Time and restarts. *)

Tick ==
    /\ clock < MaxClock
    /\ clock' = clock + 1
    /\ UNCHANGED <<life, asker, gate, turn, process, rows, faults>>

Running(t) == turn[t].pc \notin {"new", "done"}

Restart ==
    /\ faults < MaxFaults
    /\ faults' = faults + 1
    /\ life' = life + 1
    /\ turn' = [t \in Turn |-> IF Running(t)
                               THEN [turn[t] EXCEPT !.pc = "done", !.reply = "dropped"]
                               ELSE turn[t]]
    /\ userHits' = [u \in User |-> {}]
    /\ pairHits' = [p \in Pair |-> {}]
    /\ cache' = <<>>
    /\ ledger' = {}
    /\ UNCHANGED <<clock, asker, gate, rows>>

Step(t) ==
    \/ Gate(t)
    \/ BuildFromCache(t)
    \/ BuildFromLoaders(t)
    \/ Loaded(t)
    \/ Ask(t)
    \/ Attack(t)
    \/ Find(t)
    \/ CreateThread(t)
    \/ SayUser(t)
    \/ SayMentor(t)
    \/ RecordSpend(t)

Next ==
    \/ \E t \in Turn : Arrive(t) \/ Step(t) \/ GatewayFails(t) \/ QueryFails(t)
    \/ Tick
    \/ Restart

Spec == Init /\ [][Next]_vars

----------------------------------------------------------------------------
(* Properties. *)

Admitted == {t \in Turn : gate[t].at # None /\ asker[t].life = life}
During(turns, from) == {t \in turns : gate[t].at >= from /\ gate[t].at < from + Window}
OfUser(u) == {t \in Admitted : asker[t].user = u}
OfPair(p) == {t \in Admitted : PairOf(t) = p}

\* The sliding window never lets more than the limit through, wherever a
\* window is laid over the life of the process, for a user and for a pair.
RateBound ==
    \A c \in 0..MaxClock :
        /\ \A u \in User : Cardinality(During(OfUser(u), c)) <= UserLimit
        /\ \A p \in Pair : Cardinality(During(OfPair(p), c)) <= PairLimit

\* A refused learner who waits as long as the refusal said finds that the
\* window that refused has room again, unless others used it since.
RetryIsEnough ==
    \A t \in Turn : turn[t].reply = "limited" /\ asker[t].life = life =>
        LET back == gate[t].refused + gate[t].retry
            before(turns) == {s \in turns : gate[s].at <= gate[t].refused /\ gate[s].at + Window > back}
        IN  /\ gate[t].scope = "pair" => Cardinality(before(OfPair(PairOf(t)))) < PairLimit
            /\ gate[t].scope = "user" => Cardinality(before(OfUser(asker[t].user))) < UserLimit

\* The limiter holds its limits, and refuses for no longer than it must say.
RateIsHonest == RateBound /\ RetryIsEnough

\* A turn is prompted from a context of the policy it read itself, however
\* old the cache entry it took, and the cache keeps its bound.
ContextIsCurrent ==
    /\ \A t \in Turn : turn[t].context # None => turn[t].context = ContextOf(t)
    /\ Len(cache) <= CacheSize
    /\ \A i, j \in DOMAIN cache : cache[i].key = cache[j].key => i = j

\* No stored answer names a redaction target of the policy it was given under,
\* whatever the battery found.
NothingLeaks ==
    \A m \in message : m.role = "assistant" => m.text \cap Targets[asker[m.turn].policy] = {}

\* A turn answered in this life of the process is charged, and a turn is
\* charged only with both its messages in one thread of its enrolment.
AnsweredIsCharged ==
    /\ \A t \in Turn : turn[t].reply = "ok" /\ asker[t].life = life => t \in ledger
    /\ \A t \in ledger : \E s \in ThreadsOf(t) : \A role \in Role :
           \E m \in message : m.turn = t /\ m.role = role /\ m.thread = s

\* What is stored of a turn may be shown, and is what the turn is charged for.
TranscriptIsSound == NothingLeaks /\ AnsweredIsCharged
=============================================================================
