----------------------------- MODULE DeviceFlow -----------------------------
(***************************************************************************)
(* CLI sign-in.  The CLI starts a device code flow and polls it; the user  *)
(* approves or denies it in a browser; the poll that finds it approved     *)
(* mints a session and then marks the flow consumed.  Every handler reads  *)
(* the flow once and writes it back in a later statement, so each request  *)
(* carries the row it saw.                                                 *)
(***************************************************************************)
EXTENDS Naturals

CONSTANTS
    Flow,        \* device code flows, each started by one CLI login
    Poll,        \* requests to the device-token route
    Decision,    \* requests to the device/approve route
    User,        \* signed-in browser users
    Fixture,     \* the seeded user a development build may force-approve for
    Dev,         \* whether NODE_ENV is development
    MaxPolls,    \* poll attempts of a CLI: expiresIn / interval
    MaxReplays,  \* bound on polls repeated by something between CLI and server
    MaxFaults,   \* bound on failing database calls
    None         \* SQL NULL

FlowState == {"pending", "approved", "denied", "expired"}

ASSUME DeviceAssumption ==
    /\ Fixture \in User
    /\ Dev \in BOOLEAN
    /\ {MaxPolls, MaxReplays, MaxFaults} \subseteq Nat
    /\ None \notin User \cup Flow \cup Poll

VARIABLES
    flow,      \* DeviceCodeFlow row; state "none" before it is created
    late,      \* flows past their expiresAt
    session,   \* Session row minted by a poll: its user
    poll,      \* device-token request: program counter, the row it saw, reply
    decision,  \* approve request: program counter, what it asks, reply
    cli,       \* CLI login: program counter, its poll in flight, attempts left
    replays, faults

vars == <<flow, late, session, poll, decision, cli, replays, faults>>

FlowRow == [state: FlowState \cup {"none"}, user: User \cup {None}, consumed: BOOLEAN]
\* copy and after are history: whether something else than the CLI sent it, and
\* the polls of its flow that had been answered by then.
PollRequest == [pc: {"new", "read", "decide", "expire", "mint", "consume", "done"},
                flow: Flow \cup {None}, seen: FlowRow,
                reply: {"none", "token", "pending", "refused", "error"},
                copy: BOOLEAN, after: SUBSET Poll]
DecisionRequest == [pc: {"new", "write", "expire", "done"}, flow: Flow \cup {None},
                    user: User \cup {None}, asks: {"approved", "denied"},
                    reply: {"none", "ok", "handled", "expired", "error"}]
Login == [pc: {"off", "waiting", "polling", "in", "out", "stopped"},
          poll: Poll \cup {None}, left: Nat]

TypeOK ==
    /\ flow \in [Flow -> FlowRow]
    /\ late \subseteq Flow
    /\ session \in [Poll -> User \cup {None}]
    /\ poll \in [Poll -> PollRequest]
    /\ decision \in [Decision -> DecisionRequest]
    /\ cli \in [Flow -> Login]
    /\ replays \in Nat
    /\ faults \in Nat

NoRow == [state |-> "none", user |-> None, consumed |-> FALSE]

Init ==
    /\ flow = [f \in Flow |-> NoRow]
    /\ late = {}
    /\ session = [p \in Poll |-> None]
    /\ poll = [p \in Poll |-> [pc |-> "new", flow |-> None, seen |-> NoRow, reply |-> "none",
                               copy |-> FALSE, after |-> {}]]
    /\ decision = [d \in Decision |-> [pc |-> "new", flow |-> None, user |-> None,
                                       asks |-> "denied", reply |-> "none"]]
    /\ cli = [f \in Flow |-> [pc |-> "off", poll |-> None, left |-> MaxPolls]]
    /\ replays = 0
    /\ faults = 0

DbFault == faults < MaxFaults /\ faults' = faults + 1

----------------------------------------------------------------------------
(* The CLI, and time. *)

\* POST /api/auth/device-code.
StartFlow(f) ==
    /\ cli[f].pc = "off"
    /\ flow' = [flow EXCEPT ![f].state = "pending"]
    /\ cli' = [cli EXCEPT ![f].pc = "waiting"]
    /\ UNCHANGED <<late, session, poll, decision, replays, faults>>

Answered(f) == {q \in Poll : poll[q].flow = f /\ poll[q].pc = "done"}

\* Requests are named in some fixed order.
Unsent == {q \in Poll : poll[q].pc = "new"}

\* The route keeps no request back while another of the flow is under way.
Request(f, p, copy) ==
    /\ p \in Unsent
    /\ p = CHOOSE q \in Unsent : TRUE
    /\ poll' = [poll EXCEPT ![p].pc = "read", ![p].flow = f,
                            ![p].copy = copy, ![p].after = Answered(f)]

AttemptAllowed(f) == cli[f].left > 0
\* Mutant: attempts are not counted.
AttemptsUncounted(f) == cli[f].left
AttemptsLeft(f) == cli[f].left - 1

SendPoll(f, p) ==
    /\ cli[f].pc = "waiting"
    /\ AttemptAllowed(f)
    /\ Request(f, p, FALSE)
    /\ cli' = [cli EXCEPT ![f].pc = "polling", ![f].poll = p, ![f].left = AttemptsLeft(f)]
    /\ UNCHANGED <<flow, late, session, decision, replays, faults>>

\* The loop runs out of attempts: "Login timed out".
GiveUp(f) ==
    /\ cli[f].pc = "waiting"
    /\ ~AttemptAllowed(f)
    /\ cli' = [cli EXCEPT ![f].pc = "stopped"]
    /\ UNCHANGED <<flow, late, session, poll, decision, replays, faults>>

\* A poll arrives a second time, while the first is under way or after it;
\* nobody listens to its answer.
ReplayPoll(f, p) ==
    /\ replays < MaxReplays
    /\ \E q \in Poll : poll[q].flow = f
    /\ Request(f, p, TRUE)
    /\ replays' = replays + 1
    /\ UNCHANGED <<flow, late, session, decision, cli, faults>>

KeepsPolling(reply) == reply = "pending"

\* The CLI gets the answer of its poll: anything but a token or
\* authorization_pending ends the login.
Receive(f) ==
    /\ cli[f].pc = "polling"
    /\ LET reply == poll[cli[f].poll].reply
       IN  /\ reply # "none"
           /\ cli' = [cli EXCEPT ![f].pc = CASE reply = "token" -> "in"
                                             [] KeepsPolling(reply) -> "waiting"
                                             [] OTHER -> "stopped"]
    /\ UNCHANGED <<flow, late, session, poll, decision, replays, faults>>

\* POST /api/auth/revoke deletes the session with the CLI's token.
Revoked(f) == [session EXCEPT ![cli[f].poll] = None]

\* "logout": revoke, then forget the token.
Logout(f) ==
    /\ cli[f].pc = "in"
    /\ session' = Revoked(f)
    /\ cli' = [cli EXCEPT ![f].pc = "out"]
    /\ UNCHANGED <<flow, late, poll, decision, replays, faults>>

PassExpiry(f) ==
    /\ flow[f].state # "none"
    /\ f \notin late
    /\ late' = late \cup {f}
    /\ UNCHANGED <<flow, session, poll, decision, cli, replays, faults>>

----------------------------------------------------------------------------
(* POST /api/auth/device-token. *)

\* The answer; with it the request forgets the row.
PollReply(p, r) ==
    poll' = [poll EXCEPT ![p].pc = "done", ![p].reply = r, ![p].seen = NoRow]

PollRead(p) ==
    /\ poll[p].pc = "read"
    /\ poll' = [poll EXCEPT ![p].pc = "decide", ![p].seen = flow[poll[p].flow]]
    /\ UNCHANGED <<flow, late, session, decision, cli, replays, faults>>

\* developer_force_approve, in a development build only.
ForceApprove(p) ==
    /\ Dev
    /\ poll[p].pc = "decide"
    /\ poll[p].seen.state = "pending"
    /\ poll[p].flow \notin late
    /\ flow' = [flow EXCEPT ![poll[p].flow].state = "approved", ![poll[p].flow].user = Fixture]
    /\ poll' = [poll EXCEPT ![p].seen.state = "approved", ![p].seen.user = Fixture]
    /\ UNCHANGED <<late, session, decision, cli, replays, faults>>

\* Mutant: any flow somebody acted on mints.
MayMintActedOn(seen) == seen.user # None /\ ~seen.consumed
\* What the row must say for a session to be minted.
MayMint(seen) == seen.state = "approved" /\ seen.user # None /\ ~seen.consumed

\* The checks on the row that was read, and on the clock as it is now.
PollDecide(p) ==
    /\ poll[p].pc = "decide"
    /\ LET seen == poll[p].seen
           expired == poll[p].flow \in late /\ seen.state # "approved"
       IN  \/ expired /\ seen.state # "expired" /\ poll' = [poll EXCEPT ![p].pc = "expire"]
           \/ expired /\ seen.state = "expired" /\ PollReply(p, "refused")
           \/ ~expired /\ seen.state = "pending" /\ PollReply(p, "pending")
           \/ ~expired /\ MayMint(seen) /\ poll' = [poll EXCEPT ![p].pc = "mint"]
           \/ /\ ~expired
              /\ seen.state # "pending"
              /\ ~MayMint(seen)
              /\ PollReply(p, "refused")
    /\ UNCHANGED <<flow, late, session, decision, cli, replays, faults>>

PollExpire(p) ==
    /\ poll[p].pc = "expire"
    /\ flow' = [flow EXCEPT ![poll[p].flow].state = "expired"]
    /\ PollReply(p, "refused")
    /\ UNCHANGED <<late, session, decision, cli, replays, faults>>

PollMint(p) ==
    /\ poll[p].pc = "mint"
    /\ session' = [session EXCEPT ![p] = poll[p].seen.user]
    /\ poll' = [poll EXCEPT ![p].pc = "consume"]
    /\ UNCHANGED <<flow, late, decision, cli, replays, faults>>

\* Mutant: the row is marked by the state it was read in.
ConsumedAsRead(p) == poll[p].seen
Consumed(p) == [flow[poll[p].flow] EXCEPT !.consumed = TRUE]

PollConsume(p) ==
    /\ poll[p].pc = "consume"
    /\ flow' = [flow EXCEPT ![poll[p].flow] = Consumed(p)]
    /\ PollReply(p, "token")
    /\ UNCHANGED <<late, session, decision, cli, replays, faults>>

\* A database call of the request fails; one that timed out may have happened.
PollFault(p) ==
    /\ DbFault
    /\ poll[p].pc \in {"read", "expire", "mint", "consume"}
    /\ PollReply(p, "error")
    /\ \/ UNCHANGED <<flow, session>>
       \/ /\ poll[p].pc = "mint"
          /\ session' = [session EXCEPT ![p] = poll[p].seen.user]
          /\ UNCHANGED flow
       \/ /\ poll[p].pc = "consume"
          /\ flow' = [flow EXCEPT ![poll[p].flow] = Consumed(p)]
          /\ UNCHANGED session
       \/ /\ poll[p].pc = "expire"
          /\ flow' = [flow EXCEPT ![poll[p].flow].state = "expired"]
          /\ UNCHANGED session
    /\ UNCHANGED <<late, decision, cli, replays>>

PollStep(p) ==
    PollRead(p) \/ PollDecide(p) \/ PollExpire(p) \/ PollMint(p) \/ PollConsume(p)

----------------------------------------------------------------------------
(* POST /api/auth/device/approve. *)

Handled(row) == row.state \in {"approved", "denied", "expired"} \/ row.consumed

\* Requests are named in some fixed order here too.
Unasked == {d \in Decision : decision[d].pc = "new"}
NextAsk == CHOOSE d \in Unasked : TRUE

\* Find the flow by its user code, and check it.
DecisionRead(d) ==
    /\ d \in Unasked
    /\ d = NextAsk
    /\ \E f \in Flow, u \in User, asks \in {"approved", "denied"} :
        /\ flow[f].state # "none"
        /\ LET GoOn(pc, reply) ==
                 decision' = [decision EXCEPT ![d] = [pc |-> pc, flow |-> f, user |-> u,
                                 asks |-> asks, reply |-> reply]]
           IN  \/ Handled(flow[f]) /\ GoOn("done", "handled")
               \/ ~Handled(flow[f]) /\ f \in late /\ GoOn("expire", "none")
               \/ ~Handled(flow[f]) /\ f \notin late /\ GoOn("write", "none")
    /\ UNCHANGED <<flow, late, session, poll, cli, replays, faults>>

Answer(d, reply) == decision' = [decision EXCEPT ![d].pc = "done", ![d].reply = reply]

Decided(d) ==
    [flow[decision[d].flow] EXCEPT !.state = decision[d].asks, !.user = decision[d].user]

DecisionWrite(d) ==
    /\ decision[d].pc = "write"
    /\ flow' = [flow EXCEPT ![decision[d].flow] = Decided(d)]
    /\ Answer(d, "ok")
    /\ UNCHANGED <<late, session, poll, cli, replays, faults>>

DecisionExpire(d) ==
    /\ decision[d].pc = "expire"
    /\ flow' = [flow EXCEPT ![decision[d].flow].state = "expired"]
    /\ Answer(d, "expired")
    /\ UNCHANGED <<late, session, poll, cli, replays, faults>>

\* The update fails; one that timed out may have happened.
DecisionFault(d) ==
    /\ DbFault
    /\ \/ /\ decision[d].pc = "write"
          /\ flow' \in {flow, [flow EXCEPT ![decision[d].flow] = Decided(d)]}
       \/ /\ decision[d].pc = "expire"
          /\ flow' \in {flow, [flow EXCEPT ![decision[d].flow].state = "expired"]}
    /\ Answer(d, "error")
    /\ UNCHANGED <<late, session, poll, cli, replays>>

----------------------------------------------------------------------------
Next ==
    \/ \E f \in Flow : StartFlow(f) \/ GiveUp(f) \/ Receive(f) \/ Logout(f) \/ PassExpiry(f)
    \/ \E f \in Flow, p \in Poll : SendPoll(f, p) \/ ReplayPoll(f, p)
    \/ \E p \in Poll : PollStep(p) \/ ForceApprove(p) \/ PollFault(p)
    \/ \E d \in Decision : \/ DecisionRead(d) \/ DecisionWrite(d) \/ DecisionExpire(d)
                           \/ DecisionFault(d)

Spec == Init /\ [][Next]_vars

\* A CLI that is waiting polls or gives up, and of the requests under way one or
\* other goes on: each takes a few steps, so that all finish.
FairSpec ==
    /\ Spec
    /\ \A f \in Flow : WF_vars(GiveUp(f) \/ Receive(f) \/ \E p \in Poll : SendPoll(f, p))
    /\ WF_vars(\E p \in Poll : PollStep(p))

----------------------------------------------------------------------------
(* Properties. *)

\* A session was minted for a user who asked to approve that very flow (or by
\* the development override), however polls, decisions and expiry interleave.
MintsAreApproved ==
    \A p \in Poll : session[p] # None =>
        \/ \E d \in Decision : /\ decision[d].flow = poll[p].flow
                               /\ decision[d].user = session[p]
                               /\ decision[d].asks = "approved"
                               /\ decision[d].pc = "done"
        \/ Dev /\ session[p] = Fixture

\* Neither poll was sent when the other had been answered.
Overlapped(p, q) == q \notin poll[p].after /\ p \notin poll[q].after

\* One device code mints one session.  For a second one a poll must be repeated,
\* and run beside the one it repeats or follow one that minted and then failed:
\* the CLI by itself never brings it about, nor does a repeat of an answered poll.
SingleMint ==
    \A p, q \in Poll :
        p # q /\ session[p] # None /\ session[q] # None /\ poll[p].flow = poll[q].flow =>
            /\ poll[p].copy \/ poll[q].copy
            /\ Overlapped(p, q) \/ "error" \in {poll[p].reply, poll[q].reply}

\* A CLI that is signed in holds a live session of its own flow, and the flow
\* is consumed, whatever repeats, late decisions and expiry do to the row.
LoginIsBacked ==
    \A f \in Flow : cli[f].pc = "in" =>
        poll[cli[f].poll].flow = f /\ session[cli[f].poll] # None /\ flow[f].consumed

\* Signing in is sound, for the user and for the CLI.
SessionsAreApproved == MintsAreApproved /\ LoginIsBacked

\* Every CLI login that was started ends, in a session or in an error.
LoginEnds == \A f \in Flow : cli[f].pc = "waiting" ~> cli[f].pc \in {"in", "out", "stopped"}
=============================================================================
