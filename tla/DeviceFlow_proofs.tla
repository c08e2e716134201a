-------------------------- MODULE DeviceFlow_proofs --------------------------
(***************************************************************************)
(* Proofs about DeviceFlow.  Approvals are followed from the browser's     *)
(* request to the flow's row, the row a poll saw and the session it minted *)
(* (ApprovalsAreBacked); what a poll and a CLI know follows their program  *)
(* counters.  That a code mints once is followed from a poll that answered *)
(* with a token to those sent after it, which find the row consumed.       *)
(***************************************************************************)
EXTENDS DeviceFlow, TLAPS

\* Somebody asked to approve flow f for user u, or the development build did.
Backed(f, u) ==
    \/ \E d \in Decision : /\ decision[d].flow = f /\ decision[d].user = u
                           /\ decision[d].asks = "approved" /\ decision[d].pc = "done"
    \/ Dev /\ u = Fixture

ApprovalsAreBacked ==
    /\ \A f \in Flow : flow[f].state = "approved" => Backed(f, flow[f].user)
    /\ \A p \in Poll : poll[p].seen.state = "approved" => Backed(poll[p].flow, poll[p].seen.user)
    /\ \A p \in Poll : session[p] # None => Backed(poll[p].flow, session[p])

PollKnows(p) ==
    /\ poll[p].pc = "new" => poll[p].flow = None /\ session[p] = None /\ poll[p].seen.state = "none"
    /\ poll[p].pc # "new" => poll[p].flow \in Flow
    /\ poll[p].pc \in {"mint", "consume"} => MayMint(poll[p].seen)
    /\ poll[p].pc = "consume" => session[p] # None
    /\ session[p] # None =>
           poll[p].pc = "consume" \/ (poll[p].pc = "done" /\ poll[p].reply \in {"token", "error"})
    /\ poll[p].reply # "none" => poll[p].pc = "done"
    /\ poll[p].reply = "token" =>
           flow[poll[p].flow].consumed /\ (session[p] # None \/ cli[poll[p].flow].pc = "out")

CliKnows(f) ==
    /\ cli[f].pc \in {"polling", "in"} => cli[f].poll \in Poll /\ poll[cli[f].poll].flow = f
    /\ cli[f].pc = "in" => poll[cli[f].poll].reply = "token"

DeviceInv ==
    TypeOK /\ ApprovalsAreBacked /\ (\A p \in Poll : PollKnows(p)) /\ (\A f \in Flow : CliKnows(f))

----------------------------------------------------------------------------
(* Types. *)

LEMMA RowWith ==
    ASSUME NEW r \in FlowRow
    PROVE  /\ \A s \in FlowState : [r EXCEPT !.state = s] \in FlowRow
           /\ \A s \in FlowState, u \in User \cup {None} : [r EXCEPT !.state = s, !.user = u] \in FlowRow
           /\ [r EXCEPT !.consumed = TRUE] \in FlowRow
BY DEF FlowRow

LEMMA PollWith ==
    ASSUME NEW r \in PollRequest,
           NEW pc \in {"new", "read", "decide", "expire", "mint", "consume", "done"},
           NEW reply \in {"none", "token", "pending", "refused", "error"},
           NEW seen \in FlowRow
    PROVE  /\ [r EXCEPT !.pc = pc] \in PollRequest
           /\ [r EXCEPT !.pc = pc, !.reply = reply, !.seen = seen] \in PollRequest
           /\ [r EXCEPT !.pc = pc, !.seen = seen] \in PollRequest
           /\ [r EXCEPT !.seen = seen] \in PollRequest
BY DEF PollRequest

LEMMA DecisionWith ==
    ASSUME NEW r \in DecisionRequest, NEW reply \in {"none", "ok", "handled", "expired", "error"}
    PROVE  [r EXCEPT !.pc = "done", !.reply = reply] \in DecisionRequest
BY DEF DecisionRequest

LEMMA LoginWith ==
    ASSUME NEW r \in Login, NEW pc \in {"off", "waiting", "polling", "in", "out", "stopped"},
           NEW p \in Poll, NEW n \in Nat
    PROVE  /\ [r EXCEPT !.pc = pc] \in Login
           /\ [r EXCEPT !.pc = pc, !.poll = p, !.left = n] \in Login
BY DEF Login

LEMMA InitDevice == Init => DeviceInv
<1> SUFFICES ASSUME Init PROVE DeviceInv
    OBVIOUS
<1>1. NoRow \in FlowRow
    BY DEF NoRow, FlowRow
<1>2. TypeOK
    BY <1>1, DeviceAssumption DEF Init, TypeOK, PollRequest, DecisionRequest, Login
<1>3. ApprovalsAreBacked
    BY DEF Init, ApprovalsAreBacked, NoRow
<1>4. \A p \in Poll : PollKnows(p)
    BY DEF Init, PollKnows, NoRow
<1>5. \A f \in Flow : CliKnows(f)
    BY DEF Init, CliKnows
<1> QED
    BY <1>2, <1>3, <1>4, <1>5 DEF DeviceInv

----------------------------------------------------------------------------
(* Requests to the device-token route. *)

\* What a poll may be left as, with its session s and its flow's row.
Fits(r, s, row) ==
    /\ r.pc \in {"mint", "consume"} => MayMint(r.seen)
    /\ r.pc = "consume" => s # None
    /\ s # None => r.pc = "consume" \/ (r.pc = "done" /\ r.reply \in {"token", "error"})
    /\ r.reply # "none" => r.pc = "done"
    /\ r.reply = "token" => row.consumed /\ s # None

\* One step of request p: it becomes r, its session s, and its flow's row row.
Move(p, r, row, s) ==
    /\ poll[p].pc \notin {"new", "done"}
    /\ poll' = [poll EXCEPT ![p] = r] /\ r.flow = poll[p].flow /\ r.pc # "new"
    /\ flow' = [flow EXCEPT ![poll[p].flow] = row]
    /\ flow[poll[p].flow].consumed => row.consumed
    /\ row.state = "approved" => Backed(poll[p].flow, row.user)
    /\ session' = [session EXCEPT ![p] = s]
    /\ s # None => Backed(poll[p].flow, s)
    /\ r.seen.state = "approved" => Backed(poll[p].flow, r.seen.user)
    /\ Fits(r, s, row)
    /\ UNCHANGED <<late, decision, cli>> /\ replays' \in Nat /\ faults' \in Nat

LEMMA PollMoves ==
    ASSUME DeviceInv, NEW p \in Poll,
           \E r \in PollRequest, row \in FlowRow, s \in User \cup {None} : Move(p, r, row, s)
    PROVE  DeviceInv'
<1>f. PICK f : f = poll[p].flow
    OBVIOUS
<1>m. PICK r \in PollRequest, row \in FlowRow, s \in User \cup {None} : Move(p, r, row, s)
    OBVIOUS
<1>a. /\ f = poll[p].flow /\ poll[p].pc \notin {"new", "done"}
      /\ poll' = [poll EXCEPT ![p] = r] /\ r.flow = f /\ r.pc # "new"
      /\ flow' = [flow EXCEPT ![f] = row]
      /\ flow[f].consumed => row.consumed
      /\ row.state = "approved" => Backed(f, row.user)
      /\ session' = [session EXCEPT ![p] = s]
      /\ s # None => Backed(f, s)
      /\ r.seen.state = "approved" => Backed(f, r.seen.user)
      /\ Fits(r, s, row)
      /\ UNCHANGED <<late, decision, cli>> /\ replays' \in Nat /\ faults' \in Nat
    BY <1>f, <1>m DEF Move
<1>0. /\ TypeOK /\ ApprovalsAreBacked /\ f \in Flow
      /\ \A q \in Poll : PollKnows(q)
      /\ \A g \in Flow : CliKnows(g)
    BY <1>a DEF DeviceInv, PollKnows
<1>1. /\ flow \in [Flow -> FlowRow] /\ poll \in [Poll -> PollRequest]
      /\ session \in [Poll -> User \cup {None}]
    BY <1>0 DEF TypeOK
<1>2. TypeOK'
    BY <1>0, <1>1, <1>a DEF TypeOK
<1>3. /\ flow'[f] = row /\ poll'[p] = r /\ session'[p] = s
      /\ \A g \in Flow : g # f => flow'[g] = flow[g]
      /\ \A q \in Poll : q # p => poll'[q] = poll[q] /\ session'[q] = session[q]
    BY <1>0, <1>1, <1>a
<1>4. \A g, u : Backed(g, u)' <=> Backed(g, u)
    BY <1>a DEF Backed
<1>5. ApprovalsAreBacked'
    <2>1. \A g \in Flow : flow'[g].state = "approved" => Backed(g, flow'[g].user)
        BY <1>0, <1>3, <1>a DEF ApprovalsAreBacked
    <2>2. \A q \in Poll : poll'[q].seen.state = "approved" => Backed(poll'[q].flow, poll'[q].seen.user)
        BY <1>0, <1>3, <1>a DEF ApprovalsAreBacked
    <2>3. \A q \in Poll : session'[q] # None => Backed(poll'[q].flow, session'[q])
        BY <1>0, <1>3, <1>a DEF ApprovalsAreBacked
    <2> QED
        BY <1>4, <2>1, <2>2, <2>3 DEF ApprovalsAreBacked
<1>6. ASSUME NEW q \in Poll PROVE PollKnows(q)'
    <2>1. CASE q = p
        BY <1>0, <1>3, <1>a, <2>1 DEF PollKnows, Fits, MayMint
    <2>2. CASE q # p
        <3>1. PollKnows(q) /\ poll'[q] = poll[q] /\ session'[q] = session[q]
            BY <1>0, <1>3, <2>2
        <3>2. poll[q].flow \in Flow => (flow[poll[q].flow].consumed => flow'[poll[q].flow].consumed)
            BY <1>3, <1>a
        <3>3. poll[q].reply = "token" => poll[q].flow \in Flow
            BY <3>1 DEF PollKnows
        <3> QED
            BY <1>a, <3>1, <3>2, <3>3 DEF PollKnows, MayMint
    <2> QED
        BY <2>1, <2>2
<1>7. ASSUME NEW g \in Flow PROVE CliKnows(g)'
    <2>1. CliKnows(g) /\ PollKnows(p)
        BY <1>0
    <2>2. poll[p].reply # "token"
        BY <1>a, <2>1 DEF PollKnows
    <2> QED
        BY <1>3, <1>a, <2>1, <2>2 DEF CliKnows
<1> QED
    BY <1>2, <1>5, <1>6, <1>7 DEF DeviceInv

\* What DeviceInv says of a request under way.
LEMMA UnderWay ==
    ASSUME DeviceInv, NEW p \in Poll, poll[p].pc \notin {"new", "done"}
    PROVE  /\ poll[p] \in PollRequest /\ poll[p].flow \in Flow /\ flow[poll[p].flow] \in FlowRow
           /\ session[p] \in User \cup {None} /\ poll[p].seen \in FlowRow
           /\ poll[p].reply = "none" /\ PollKnows(p)
           /\ flow[poll[p].flow].state = "approved" => Backed(poll[p].flow, flow[poll[p].flow].user)
           /\ poll[p].seen.state = "approved" => Backed(poll[p].flow, poll[p].seen.user)
           /\ session[p] # None => Backed(poll[p].flow, session[p])
           /\ flow = [flow EXCEPT ![poll[p].flow] = flow[poll[p].flow]]
           /\ session = [session EXCEPT ![p] = session[p]]
           /\ replays \in Nat /\ faults \in Nat
<1>1. PollKnows(p) /\ poll \in [Poll -> PollRequest] /\ flow \in [Flow -> FlowRow]
      /\ session \in [Poll -> User \cup {None}] /\ replays \in Nat /\ faults \in Nat
    BY DEF DeviceInv, TypeOK
<1>2. poll[p].flow \in Flow /\ poll[p].reply = "none"
    BY <1>1 DEF PollKnows
<1>3. poll[p].seen \in FlowRow
    BY <1>1 DEF PollRequest
<1> QED
    BY <1>1, <1>2, <1>3 DEF DeviceInv, ApprovalsAreBacked

LEMMA ReadKeeps ==
    ASSUME DeviceInv, NEW p \in Poll, PollRead(p)
    PROVE  DeviceInv'
<1>1. poll[p].pc = "read" /\ poll' = [poll EXCEPT ![p].pc = "decide", ![p].seen = flow[poll[p].flow]]
      /\ UNCHANGED <<flow, late, session, decision, cli, replays, faults>>
    BY DEF PollRead
<1>2. PICK f, row, s : f = poll[p].flow /\ row = flow[f] /\ s = session[p]
    OBVIOUS
<1>3. PICK r : r = [poll[p] EXCEPT !.pc = "decide", !.seen = flow[poll[p].flow]]
    OBVIOUS
<1>4. r \in PollRequest
    BY <1>1, <1>3, UnderWay, PollWith, ZenonT(60)
<1>5. r.pc = "decide" /\ r.seen = row /\ r.flow = f /\ r.reply = "none"
    BY <1>1, <1>2, <1>3, UnderWay DEF PollRequest
<1>6. poll' = [poll EXCEPT ![p] = r]
    BY <1>1, <1>3 DEF DeviceInv, TypeOK
<1>7. s = None
    BY <1>1, <1>2, UnderWay DEF PollKnows
<1>8. Fits(r, s, row)
    BY <1>5, <1>7 DEF Fits
<1> QED
    <2>1. row \in FlowRow /\ s \in User \cup {None} /\ Move(p, r, row, s)
        <3>1. row \in FlowRow /\ s \in User \cup {None} /\ replays' \in Nat /\ faults' \in Nat
            BY <1>1, <1>2, UnderWay
        <3>2. row.state = "approved" => Backed(f, row.user)
            BY <1>1, <1>2, UnderWay
        <3>3. flow' = [flow EXCEPT ![f] = row] /\ session' = [session EXCEPT ![p] = s]
            BY <1>1, <1>2, UnderWay
        <3> QED
            BY <1>1, <1>2, <1>5, <1>6, <1>7, <1>8, <3>1, <3>2, <3>3 DEF Move
    <2> QED
        BY <1>4, <2>1, PollMoves

LEMMA ForceKeeps ==
    ASSUME DeviceInv, NEW p \in Poll, ForceApprove(p)
    PROVE  DeviceInv'
<1>1. /\ Dev /\ poll[p].pc = "decide"
      /\ flow' = [flow EXCEPT ![poll[p].flow].state = "approved", ![poll[p].flow].user = Fixture]
      /\ poll' = [poll EXCEPT ![p].seen.state = "approved", ![p].seen.user = Fixture]
      /\ UNCHANGED <<late, session, decision, cli, replays, faults>>
    BY DEF ForceApprove
<1>2. PICK f, s : f = poll[p].flow /\ s = session[p]
    OBVIOUS
<1>3. PICK seen, row, r :
          /\ seen = [poll[p].seen EXCEPT !.state = "approved", !.user = Fixture]
          /\ row = [flow[f] EXCEPT !.state = "approved", !.user = Fixture]
          /\ r = [poll[p] EXCEPT !.seen = seen]
    OBVIOUS
<1>4. seen \in FlowRow /\ row \in FlowRow /\ "approved" \in FlowState
    BY <1>1, <1>2, <1>3, UnderWay, RowWith, DeviceAssumption DEF FlowState
<1>5. r \in PollRequest
    BY <1>1, <1>3, <1>4, UnderWay DEF PollRequest
<1>6. r.pc = "decide" /\ r.seen = seen /\ r.flow = f /\ r.reply = "none"
    BY <1>1, <1>2, <1>3, UnderWay DEF PollRequest
<1>7. seen.user = Fixture /\ row.user = Fixture /\ row.consumed = flow[f].consumed
    BY <1>1, <1>2, <1>3, UnderWay DEF FlowRow
<1>8. poll' = [poll EXCEPT ![p] = r] /\ flow' = [flow EXCEPT ![f] = row]
    BY <1>1, <1>2, <1>3 DEF DeviceInv, TypeOK
<1>9. s = None /\ Backed(f, Fixture)
    BY <1>1, <1>2, UnderWay DEF PollKnows, Backed
<1>10. Fits(r, s, row)
    BY <1>6, <1>9 DEF Fits
<1> QED
    <2>1. s \in User \cup {None} /\ Move(p, r, row, s)
        BY <1>1, <1>2, <1>6, <1>7, <1>8, <1>9, <1>10, UnderWay DEF Move
    <2> QED
        BY <1>4, <1>5, <2>1, PollMoves

LEMMA DecideKeeps ==
    ASSUME DeviceInv, NEW p \in Poll, PollDecide(p)
    PROVE  DeviceInv'
<1>1. poll[p].pc = "decide" /\ UNCHANGED <<flow, late, session, decision, cli, replays, faults>>
    BY DEF PollDecide
<1>2. PICK f, row, s : f = poll[p].flow /\ row = flow[f] /\ s = session[p]
    OBVIOUS
<1>3. PICK pc \in {"expire", "mint", "done"}, reply \in {"none", "refused", "pending"},
           seen \in {poll[p].seen, NoRow} :
          /\ poll' = [poll EXCEPT ![p] = [poll[p] EXCEPT !.pc = pc, !.reply = reply,
                                                         !.seen = seen]]
          /\ pc = "mint" => MayMint(poll[p].seen) /\ seen = poll[p].seen
          /\ reply # "none" => pc = "done"
    <2>1. poll \in [Poll -> PollRequest] /\ poll[p].reply = "none"
        BY <1>1, UnderWay DEF DeviceInv, TypeOK
    <2>2. \/ poll' = [poll EXCEPT ![p].pc = "expire"]
          \/ poll' = [poll EXCEPT ![p].pc = "mint"] /\ MayMint(poll[p].seen)
          \/ poll' = [poll EXCEPT ![p].pc = "done", ![p].reply = "refused", ![p].seen = NoRow]
          \/ poll' = [poll EXCEPT ![p].pc = "done", ![p].reply = "pending", ![p].seen = NoRow]
        BY DEF PollDecide, PollReply
    <2>3. \A pc : [poll[p] EXCEPT !.pc = pc] =
                  [poll[p] EXCEPT !.pc = pc, !.reply = "none", !.seen = poll[p].seen]
        BY <2>1 DEF PollRequest
    <2> QED
        BY <2>1, <2>2, <2>3
<1>4. PICK r : r = [poll[p] EXCEPT !.pc = pc, !.reply = reply, !.seen = seen]
    OBVIOUS
<1>e. seen \in FlowRow /\ (seen.state = "approved" => seen = poll[p].seen)
    <2>1. poll[p].seen \in FlowRow
        BY <1>1, UnderWay
    <2>2. NoRow \in FlowRow /\ NoRow.state # "approved"
        BY DEF NoRow, FlowRow
    <2> QED
        BY <2>1, <2>2
<1>5. r \in PollRequest /\ r.pc = pc /\ r.seen = seen /\ r.flow = f /\ r.reply = reply
    BY <1>1, <1>2, <1>4, <1>e, UnderWay DEF PollRequest
<1>6. s = None
    BY <1>1, <1>2, UnderWay DEF PollKnows
<1>7. Fits(r, s, row)
    BY <1>3, <1>5, <1>6 DEF Fits
<1> QED
    <2>1. /\ row \in FlowRow /\ s \in User \cup {None} /\ replays' \in Nat /\ faults' \in Nat
          /\ row.state = "approved" => Backed(f, row.user)
          /\ flow' = [flow EXCEPT ![f] = row] /\ session' = [session EXCEPT ![p] = s]
        BY <1>1, <1>2, UnderWay
    <2>2. r.seen.state = "approved" => Backed(f, r.seen.user)
        BY <1>1, <1>2, <1>5, <1>e, UnderWay
    <2>3. poll' = [poll EXCEPT ![p] = r]
        BY <1>3, <1>4
    <2>4. Move(p, r, row, s)
        BY <1>1, <1>2, <1>5, <1>6, <1>7, <2>1, <2>2, <2>3 DEF Move
    <2> QED
        BY <1>5, <2>1, <2>4, PollMoves

\* Expiry and consumption of a row keep what it says of approvals.
LEMMA RowAfter ==
    ASSUME DeviceInv, NEW p \in Poll, poll[p].pc \notin {"new", "done"},
           NEW row, \/ row = flow[poll[p].flow]
                    \/ row = Consumed(p)
                    \/ row = [flow[poll[p].flow] EXCEPT !.state = "expired"]
    PROVE  /\ row \in FlowRow
           /\ flow[poll[p].flow].consumed => row.consumed
           /\ row.state = "approved" => Backed(poll[p].flow, row.user)
<1>1. flow[poll[p].flow] \in FlowRow
    BY UnderWay
<1>2. row \in FlowRow
    BY <1>1, RowWith DEF Consumed, FlowState
<1>3. flow[poll[p].flow].consumed => row.consumed
    BY <1>1 DEF Consumed, FlowRow
<1>4. row.state = "approved" =>
          flow[poll[p].flow].state = "approved" /\ row.user = flow[poll[p].flow].user
    BY <1>1 DEF Consumed, FlowRow
<1> QED
    BY <1>2, <1>3, <1>4, UnderWay

\* An answer: the request is over, with its row and its session.
LEMMA AnswerKeeps ==
    ASSUME DeviceInv, NEW p \in Poll, poll[p].pc \notin {"new", "done"},
           NEW reply \in {"token", "refused", "error"}, PollReply(p, reply),
           NEW row, \/ row = flow[poll[p].flow]
                    \/ row = Consumed(p)
                    \/ row = [flow[poll[p].flow] EXCEPT !.state = "expired"],
           flow' = [flow EXCEPT ![poll[p].flow] = row],
           NEW s, s \in {session[p]} \/ (poll[p].pc = "mint" /\ s = poll[p].seen.user),
           session' = [session EXCEPT ![p] = s],
           reply = "token" => row.consumed /\ s # None,
           reply = "refused" => s = None,
           UNCHANGED <<late, decision, cli>>, replays' \in Nat, faults' \in Nat
    PROVE  DeviceInv'
<1>1. PICK r : r = [poll[p] EXCEPT !.pc = "done", !.reply = reply, !.seen = NoRow]
    OBVIOUS
<1>2. r \in PollRequest
    <2>1. poll[p] \in PollRequest /\ NoRow \in FlowRow
        BY UnderWay DEF NoRow, FlowRow
    <2> QED
        BY <1>1, <2>1 DEF PollRequest
<1>3. /\ r.pc = "done" /\ r.seen.state = "none" /\ r.flow = poll[p].flow /\ r.reply = reply
    BY <1>1, UnderWay DEF PollRequest, NoRow
<1>4. poll' = [poll EXCEPT ![p] = r]
    BY <1>1 DEF PollReply, DeviceInv, TypeOK
<1>5. s \in User \cup {None} /\ (s # None => Backed(poll[p].flow, s))
    <2>1. CASE s = session[p]
        BY <2>1, UnderWay
    <2>2. CASE poll[p].pc = "mint" /\ s = poll[p].seen.user
        <3>1. poll[p].seen.state = "approved" /\ poll[p].seen \in FlowRow
            BY <2>2, UnderWay DEF PollKnows, MayMint
        <3> QED
            BY <2>2, <3>1, UnderWay DEF FlowRow
    <2> QED
        BY <2>1, <2>2
<1>6. Fits(r, s, row)
    BY <1>3 DEF Fits
<1>7. row \in FlowRow /\ Move(p, r, row, s)
    BY <1>3, <1>4, <1>5, <1>6, UnderWay, RowAfter DEF Move
<1> QED
    BY <1>2, <1>5, <1>7, PollMoves

LEMMA ExpireKeeps ==
    ASSUME DeviceInv, NEW p \in Poll, PollExpire(p)
    PROVE  DeviceInv'
<1>1. /\ poll[p].pc = "expire" /\ PollReply(p, "refused")
      /\ flow' = [flow EXCEPT ![poll[p].flow].state = "expired"]
      /\ UNCHANGED <<late, session, decision, cli, replays, faults>>
    BY DEF PollExpire
<1>2. PICK row, s : row = [flow[poll[p].flow] EXCEPT !.state = "expired"] /\ s = session[p]
    OBVIOUS
<1>3. flow' = [flow EXCEPT ![poll[p].flow] = row]
    BY <1>1, <1>2 DEF DeviceInv, TypeOK
<1>4. s = None /\ session' = [session EXCEPT ![p] = s] /\ replays' \in Nat /\ faults' \in Nat
    BY <1>1, <1>2, UnderWay DEF PollKnows
<1> QED
    BY <1>1, <1>2, <1>3, <1>4, AnswerKeeps

LEMMA MintKeeps ==
    ASSUME DeviceInv, NEW p \in Poll, PollMint(p)
    PROVE  DeviceInv'
<1>1. /\ poll[p].pc = "mint" /\ poll' = [poll EXCEPT ![p].pc = "consume"]
      /\ session' = [session EXCEPT ![p] = poll[p].seen.user]
      /\ UNCHANGED <<flow, late, decision, cli, replays, faults>>
    BY DEF PollMint
<1>2. PICK row, s, r : /\ row = flow[poll[p].flow] /\ s = poll[p].seen.user
                       /\ r = [poll[p] EXCEPT !.pc = "consume"]
    OBVIOUS
<1>3. poll' = [poll EXCEPT ![p] = r] /\ r \in PollRequest
    BY <1>1, <1>2, UnderWay, PollWith DEF DeviceInv, TypeOK
<1>4. r.pc = "consume" /\ r.seen = poll[p].seen /\ r.flow = poll[p].flow /\ r.reply = "none"
    BY <1>1, <1>2, UnderWay DEF PollRequest
<1>5. MayMint(poll[p].seen)
    BY <1>1, UnderWay DEF PollKnows
<1>6. s # None /\ s \in User \cup {None} /\ Backed(poll[p].flow, s)
    BY <1>1, <1>2, <1>5, UnderWay DEF MayMint, FlowRow
<1>7. Fits(r, s, row)
    BY <1>4, <1>5, <1>6 DEF Fits
<1>8. row \in FlowRow /\ flow' = [flow EXCEPT ![poll[p].flow] = row]
      /\ (row.state = "approved" => Backed(poll[p].flow, row.user))
      /\ replays' \in Nat /\ faults' \in Nat
    BY <1>1, <1>2, UnderWay
<1>9. Move(p, r, row, s)
    BY <1>1, <1>2, <1>3, <1>4, <1>6, <1>7, <1>8, UnderWay DEF Move
<1> QED
    BY <1>3, <1>6, <1>8, <1>9, PollMoves

LEMMA ConsumeKeeps ==
    ASSUME DeviceInv, NEW p \in Poll, PollConsume(p)
    PROVE  DeviceInv'
<1>1. /\ poll[p].pc = "consume" /\ PollReply(p, "token")
      /\ flow' = [flow EXCEPT ![poll[p].flow] = Consumed(p)]
      /\ UNCHANGED <<late, session, decision, cli, replays, faults>>
    BY DEF PollConsume
<1>2. PICK row, s : row = Consumed(p) /\ s = session[p]
    OBVIOUS
<1>3. row.consumed
    BY <1>1, <1>2, UnderWay DEF Consumed, FlowRow
<1>4. s # None /\ session' = [session EXCEPT ![p] = s] /\ replays' \in Nat /\ faults' \in Nat
    BY <1>1, <1>2, UnderWay DEF PollKnows
<1>5. flow' = [flow EXCEPT ![poll[p].flow] = row]
    BY <1>1, <1>2
<1> QED
    BY <1>1, <1>2, <1>3, <1>4, <1>5, AnswerKeeps, ZenonT(60)

LEMMA FaultKeeps ==
    ASSUME DeviceInv, NEW p \in Poll, PollFault(p)
    PROVE  DeviceInv'
<1>1. /\ poll[p].pc \notin {"new", "done"} /\ PollReply(p, "error")
      /\ UNCHANGED <<late, decision, cli, replays>> /\ faults' = faults + 1
    BY DEF PollFault, DbFault
<1>2. replays' \in Nat /\ faults' \in Nat
    BY <1>1, UnderWay
<1>3. PICK row, s :
          /\ \/ row = flow[poll[p].flow]
             \/ row = Consumed(p)
             \/ row = [flow[poll[p].flow] EXCEPT !.state = "expired"]
          /\ flow' = [flow EXCEPT ![poll[p].flow] = row]
          /\ s \in {session[p]} \/ (poll[p].pc = "mint" /\ s = poll[p].seen.user)
          /\ session' = [session EXCEPT ![p] = s]
    <2>1. /\ flow = [flow EXCEPT ![poll[p].flow] = flow[poll[p].flow]]
          /\ session = [session EXCEPT ![p] = session[p]]
        BY <1>1, UnderWay
    <2>2. [flow EXCEPT ![poll[p].flow].state = "expired"] =
              [flow EXCEPT ![poll[p].flow] = [flow[poll[p].flow] EXCEPT !.state = "expired"]]
        BY DEF DeviceInv, TypeOK
    <2>3. \/ UNCHANGED <<flow, session>>
          \/ /\ poll[p].pc = "mint" /\ session' = [session EXCEPT ![p] = poll[p].seen.user]
             /\ UNCHANGED flow
          \/ flow' = [flow EXCEPT ![poll[p].flow] = Consumed(p)] /\ UNCHANGED session
          \/ flow' = [flow EXCEPT ![poll[p].flow].state = "expired"] /\ UNCHANGED session
        BY DEF PollFault
    <2> QED
        BY <2>1, <2>2, <2>3
<1> QED
    BY <1>1, <1>2, <1>3, AnswerKeeps

----------------------------------------------------------------------------
(* Requests to the approval route. *)

\* What row g may become by a step that leaves decision d as r.
GoodRow(g, new, r) ==
    /\ new \in FlowRow
    /\ flow[g].consumed => new.consumed
    /\ new.state = "approved" =>
           \/ flow[g].state = "approved" /\ new.user = flow[g].user
           \/ r.flow = g /\ r.user = new.user /\ r.asks = "approved" /\ r.pc = "done"

LEMMA DecisionMoves ==
    ASSUME DeviceInv, NEW d \in Decision, decision[d].pc # "done",
           NEW r \in DecisionRequest, decision' = [decision EXCEPT ![d] = r],
           flow' \in [Flow -> FlowRow], \A g \in Flow : GoodRow(g, flow'[g], r),
           UNCHANGED <<late, session, poll, cli, replays>>, faults' \in Nat
    PROVE  DeviceInv'
<1>0. /\ TypeOK /\ ApprovalsAreBacked
      /\ \A q \in Poll : PollKnows(q)
      /\ \A g \in Flow : CliKnows(g)
    BY DEF DeviceInv
<1>1. TypeOK'
    BY <1>0 DEF TypeOK
<1>2. decision'[d] = r /\ \A e \in Decision : e # d => decision'[e] = decision[e]
    BY <1>0 DEF TypeOK
<1>3. ASSUME NEW g, NEW u, Backed(g, u) PROVE Backed(g, u)'
    BY <1>2, <1>3 DEF Backed
<1>4. ASSUME NEW g \in Flow, flow'[g].state = "approved" PROVE Backed(g, flow[g].user)'
    <2>1. GoodRow(g, flow'[g], r)
        OBVIOUS
    <2>0. PICK u : u = flow'[g].user
        OBVIOUS
    <2>2. CASE flow[g].state = "approved" /\ flow'[g].user = flow[g].user
        <3>1. Backed(g, u)
            BY <1>0, <2>0, <2>2 DEF ApprovalsAreBacked
        <3> QED
            BY <1>3, <2>0, <3>1
    <2>3. CASE r.flow = g /\ r.user = flow'[g].user /\ r.asks = "approved" /\ r.pc = "done"
        <3>1. Backed(g, u)'
            BY <1>2, <2>0, <2>3 DEF Backed
        <3> QED
            BY <2>0, <3>1
    <2> QED
        BY <1>4, <2>1, <2>2, <2>3 DEF GoodRow
<1>5. ApprovalsAreBacked'
    <2>1. ASSUME NEW p \in Poll, poll'[p].seen.state = "approved"
          PROVE  Backed(poll[p].flow, poll[p].seen.user)'
        <3>1. PICK g, u : g = poll[p].flow /\ u = poll[p].seen.user
            OBVIOUS
        <3>2. Backed(g, u)
            BY <1>0, <2>1, <3>1 DEF ApprovalsAreBacked
        <3> QED
            BY <1>3, <3>1, <3>2
    <2>2. ASSUME NEW p \in Poll, session'[p] # None
          PROVE  Backed(poll[p].flow, session[p])'
        <3>1. PICK g, u : g = poll[p].flow /\ u = session[p]
            OBVIOUS
        <3>2. Backed(g, u)
            BY <1>0, <2>2, <3>1 DEF ApprovalsAreBacked
        <3> QED
            BY <1>3, <3>1, <3>2
    <2> QED
        BY <1>4, <2>1, <2>2 DEF ApprovalsAreBacked
<1>6. ASSUME NEW q \in Poll PROVE PollKnows(q)'
    <2>1. PollKnows(q)
        BY <1>0
    <2>2. poll[q].flow \in Flow => (flow[poll[q].flow].consumed => flow'[poll[q].flow].consumed)
        BY DEF GoodRow
    <2> QED
        BY <2>1, <2>2 DEF PollKnows, MayMint
<1>7. \A g \in Flow : CliKnows(g)'
    BY <1>0 DEF CliKnows
<1> QED
    BY <1>1, <1>5, <1>6, <1>7 DEF DeviceInv

LEMMA DecisionReadKeeps ==
    ASSUME DeviceInv, NEW d \in Decision, DecisionRead(d)
    PROVE  DeviceInv'
<1>1. /\ decision[d].pc = "new" /\ flow \in [Flow -> FlowRow] /\ faults \in Nat
      /\ UNCHANGED <<flow, late, session, poll, cli, replays, faults>>
    BY DEF DecisionRead, Unasked, DeviceInv, TypeOK
<1>2. PICK r \in DecisionRequest : decision' = [decision EXCEPT ![d] = r]
    <2> DEFINE r(f, u, asks, pc, reply) ==
                   [pc |-> pc, flow |-> f, user |-> u, asks |-> asks, reply |-> reply]
    <2>1. PICK f \in Flow, u \in User, asks \in {"approved", "denied"} :
              \/ decision' = [decision EXCEPT ![d] = r(f, u, asks, "done", "handled")]
              \/ decision' = [decision EXCEPT ![d] = r(f, u, asks, "expire", "none")]
              \/ decision' = [decision EXCEPT ![d] = r(f, u, asks, "write", "none")]
        BY DEF DecisionRead
    <2>2. \A pc \in {"done", "expire", "write"}, reply \in {"handled", "none"} :
              r(f, u, asks, pc, reply) \in DecisionRequest
        BY DEF DecisionRequest
    <2> QED
        BY <2>1, <2>2
<1>3. \A g \in Flow : GoodRow(g, flow'[g], r)
    BY <1>1 DEF GoodRow
<1> QED
    BY <1>1, <1>2, <1>3, DecisionMoves

LEMMA DecisionDone ==
    ASSUME DeviceInv, NEW d \in Decision, NEW reply \in {"ok", "expired", "error"},
           decision[d].pc \in {"write", "expire"}, Answer(d, reply),
           \/ flow' = flow
           \/ flow' = [flow EXCEPT ![decision[d].flow] = Decided(d)]
           \/ flow' = [flow EXCEPT ![decision[d].flow].state = "expired"],
           UNCHANGED <<late, session, poll, cli, replays>>, faults' \in Nat
    PROVE  DeviceInv'
<1>1. decision[d] \in DecisionRequest /\ flow \in [Flow -> FlowRow]
    BY DEF DeviceInv, TypeOK
<1>2. PICK r : r = [decision[d] EXCEPT !.pc = "done", !.reply = reply]
    OBVIOUS
<1>3. /\ r \in DecisionRequest /\ r.pc = "done" /\ r.flow = decision[d].flow
      /\ r.user = decision[d].user /\ r.asks = decision[d].asks
    BY <1>1, <1>2 DEF DecisionRequest
<1>4. decision' = [decision EXCEPT ![d] = r]
    BY <1>2 DEF Answer, DeviceInv, TypeOK
<1>5. ASSUME NEW g \in Flow PROVE GoodRow(g, flow'[g], r)
    <2>1. CASE flow'[g] = flow[g]
        BY <1>1, <2>1 DEF GoodRow
    <2>2. CASE g = decision[d].flow /\ flow'[g] = Decided(d)
        <3>1. /\ decision[d].asks \in {"approved", "denied"} /\ decision[d].user \in User \cup {None}
              /\ flow[g] \in FlowRow
            BY <1>1 DEF DecisionRequest
        <3>2. Decided(d) \in FlowRow
            BY <2>2, <3>1, RowWith DEF Decided, FlowState
        <3>3. /\ Decided(d).state = decision[d].asks /\ Decided(d).user = decision[d].user
              /\ Decided(d).consumed = flow[g].consumed
            BY <2>2, <3>1 DEF Decided, FlowRow
        <3> QED
            BY <1>3, <2>2, <3>2, <3>3 DEF GoodRow
    <2>3. CASE g = decision[d].flow /\ flow'[g] = [flow[g] EXCEPT !.state = "expired"]
        <3>1. flow[g] \in FlowRow
            BY <1>1
        <3>2. flow'[g] \in FlowRow
            BY <2>3, <3>1, RowWith DEF FlowState
        <3>3. flow'[g].state = "expired" /\ flow'[g].consumed = flow[g].consumed
            BY <2>3, <3>1 DEF FlowRow
        <3> QED
            BY <3>2, <3>3 DEF GoodRow
    <2>4. \/ flow' = flow
          \/ flow' = [flow EXCEPT ![decision[d].flow] = Decided(d)]
          \/ flow' = [flow EXCEPT ![decision[d].flow].state = "expired"]
        OBVIOUS
    <2> QED
        BY <1>1, <2>1, <2>2, <2>3, <2>4
<1>6. flow' \in [Flow -> FlowRow]
    <2>1. \A g \in Flow : flow'[g] \in FlowRow
        BY <1>5 DEF GoodRow
    <2>2. \E F : flow' = F /\ F = [g \in Flow |-> F[g]]
        BY <1>1
    <2> QED
        BY <2>1, <2>2
<1> QED
    BY <1>3, <1>4, <1>5, <1>6, DecisionMoves

LEMMA DecisionKeeps ==
    ASSUME DeviceInv, NEW d \in Decision,
           DecisionWrite(d) \/ DecisionExpire(d) \/ DecisionFault(d)
    PROVE  DeviceInv'
<1>1. PICK reply \in {"ok", "expired", "error"} :
          /\ decision[d].pc \in {"write", "expire"} /\ Answer(d, reply)
          /\ UNCHANGED <<late, session, poll, cli, replays>>
          /\ \/ flow' = flow
             \/ flow' = [flow EXCEPT ![decision[d].flow] = Decided(d)]
             \/ flow' = [flow EXCEPT ![decision[d].flow].state = "expired"]
    <2>1. CASE DecisionWrite(d)
        BY <2>1 DEF DecisionWrite
    <2>2. CASE DecisionExpire(d)
        BY <2>2 DEF DecisionExpire
    <2>3. CASE DecisionFault(d)
        BY <2>3 DEF DecisionFault
    <2> QED
        BY <2>1, <2>2, <2>3
<1>2. faults' \in Nat
    BY DEF DecisionWrite, DecisionExpire, DecisionFault, DbFault, DeviceInv, TypeOK
<1> QED
    BY <1>1, <1>2, DecisionDone

----------------------------------------------------------------------------
(* The CLI, and time. *)

\* A step of the CLI of flow f that sends nothing: its record becomes c, and
\* sessions may go when it logs out.
LEMMA CliMoves ==
    ASSUME DeviceInv, NEW f \in Flow, NEW c \in Login,
           cli' = [cli EXCEPT ![f] = c], cli[f].pc = "out" => c.pc = "out",
           c.poll = cli[f].poll,
           c.pc = "in" => cli[f].pc = "polling" /\ poll[cli[f].poll].reply = "token",
           c.pc # "polling",
           \/ UNCHANGED session
           \/ c.pc = "out" /\ cli[f].pc = "in" /\ session' = Revoked(f),
           NEW row \in FlowRow, flow' = [flow EXCEPT ![f] = row],
           row.consumed = flow[f].consumed, row.user = flow[f].user,
           row.state = "approved" => flow[f].state = "approved",
           UNCHANGED <<late, poll, decision, replays, faults>>
    PROVE  DeviceInv'
<1>0. /\ TypeOK /\ ApprovalsAreBacked
      /\ \A q \in Poll : PollKnows(q)
      /\ \A g \in Flow : CliKnows(g)
    BY DEF DeviceInv
<1>1. /\ cli'[f] = c /\ \A g \in Flow : g # f => cli'[g] = cli[g]
      /\ flow'[f] = row /\ \A g \in Flow : g # f => flow'[g] = flow[g]
    BY <1>0 DEF TypeOK
<1>2. session' \in [Poll -> User \cup {None}] /\ \A q \in Poll : session'[q] \in {session[q], None}
    BY <1>0 DEF TypeOK, Revoked
<1>3. TypeOK'
    BY <1>0, <1>2 DEF TypeOK
<1>4. \A g, u : Backed(g, u)' <=> Backed(g, u)
    BY DEF Backed
<1>5. ApprovalsAreBacked'
    <2>1. \A g \in Flow : flow'[g].state = "approved" => Backed(g, flow'[g].user)
        BY <1>0, <1>1 DEF ApprovalsAreBacked
    <2>2. \A q \in Poll : session'[q] # None => Backed(poll[q].flow, session'[q])
        BY <1>0, <1>2 DEF ApprovalsAreBacked
    <2>3. \A q \in Poll : poll[q].seen.state = "approved" => Backed(poll[q].flow, poll[q].seen.user)
        BY <1>0 DEF ApprovalsAreBacked
    <2> QED
        BY <1>4, <2>1, <2>2, <2>3 DEF ApprovalsAreBacked
<1>6. ASSUME NEW q \in Poll PROVE PollKnows(q)'
    <2>1. PollKnows(q)
        BY <1>0
    <2>2. poll[q].pc = "consume" => session'[q] # None
        <3>1. CASE UNCHANGED session
            BY <2>1, <3>1 DEF PollKnows
        <3>2. CASE cli[f].pc = "in" /\ session' = Revoked(f)
            <4>1. cli[f].poll \in Poll /\ poll[cli[f].poll].reply = "token" /\ PollKnows(cli[f].poll)
                BY <1>0, <3>2 DEF CliKnows
            <4>2. poll[cli[f].poll].pc = "done"
                BY <4>1 DEF PollKnows
            <4> QED
                BY <1>0, <2>1, <3>2, <4>2 DEF PollKnows, Revoked, TypeOK
        <3> QED
            BY <3>1, <3>2
    <2>3. ASSUME poll[q].reply = "token"
          PROVE  session'[q] # None \/ cli'[poll[q].flow].pc = "out"
        <3>1. poll[q].flow \in Flow /\ (session[q] # None \/ cli[poll[q].flow].pc = "out")
            BY <2>1, <2>3 DEF PollKnows
        <3>2. CASE cli[poll[q].flow].pc = "out"
            BY <1>1, <3>1, <3>2
        <3>3. CASE session[q] # None /\ session'[q] = None
            <4>1. q = cli[f].poll /\ cli[f].pc = "in" /\ c.pc = "out"
                BY <1>0, <3>3 DEF Revoked, TypeOK
            <4>2. poll[q].flow = f
                BY <1>0, <4>1 DEF CliKnows
            <4> QED
                BY <1>1, <4>1, <4>2
        <3> QED
            BY <1>2, <3>1, <3>2, <3>3
    <2>4. poll[q].flow \in Flow => flow'[poll[q].flow].consumed = flow[poll[q].flow].consumed
        BY <1>1
    <2> QED
        BY <1>2, <2>1, <2>2, <2>3, <2>4 DEF PollKnows, MayMint
<1>7. ASSUME NEW g \in Flow PROVE CliKnows(g)'
    <2>1. CliKnows(g)
        BY <1>0
    <2>2. CASE g = f
        BY <1>1, <2>1, <2>2 DEF CliKnows
    <2>3. CASE g # f
        BY <1>1, <2>1, <2>3 DEF CliKnows
    <2> QED
        BY <2>2, <2>3
<1> QED
    BY <1>3, <1>5, <1>6, <1>7 DEF DeviceInv

LEMMA StartKeeps ==
    ASSUME DeviceInv, NEW f \in Flow, StartFlow(f)
    PROVE  DeviceInv'
<1>1. /\ cli[f].pc = "off" /\ flow' = [flow EXCEPT ![f].state = "pending"]
      /\ cli' = [cli EXCEPT ![f].pc = "waiting"]
      /\ UNCHANGED <<late, session, poll, decision, replays, faults>>
    BY DEF StartFlow
<1>2. cli[f] \in Login /\ flow[f] \in FlowRow /\ cli \in [Flow -> Login] /\ flow \in [Flow -> FlowRow]
    BY DEF DeviceInv, TypeOK
<1>3. PICK c, row : c = [cli[f] EXCEPT !.pc = "waiting"] /\ row = [flow[f] EXCEPT !.state = "pending"]
    OBVIOUS
<1>4. c \in Login /\ c.pc = "waiting" /\ c.poll = cli[f].poll
    BY <1>2, <1>3 DEF Login
<1>5. row \in FlowRow /\ row.consumed = flow[f].consumed /\ row.user = flow[f].user
      /\ row.state = "pending"
    BY <1>2, <1>3 DEF FlowRow, FlowState
<1>6. cli' = [cli EXCEPT ![f] = c] /\ flow' = [flow EXCEPT ![f] = row]
    BY <1>1, <1>2, <1>3
<1> QED
    BY <1>1, <1>4, <1>5, <1>6, CliMoves

\* The steps of a CLI that leave the row alone.
LEMMA LoginKeeps ==
    ASSUME DeviceInv, NEW f \in Flow, GiveUp(f) \/ Receive(f) \/ Logout(f)
    PROVE  DeviceInv'
<1>1. UNCHANGED <<flow, late, poll, decision, replays, faults>>
    BY DEF GiveUp, Receive, Logout
<1>2. cli[f] \in Login /\ flow[f] \in FlowRow /\ cli \in [Flow -> Login] /\ flow \in [Flow -> FlowRow]
    BY DEF DeviceInv, TypeOK
<1>3. PICK pc \in {"in", "waiting", "stopped", "out"} :
          /\ cli' = [cli EXCEPT ![f].pc = pc] /\ cli[f].pc # "out"
          /\ pc = "in" => cli[f].pc = "polling" /\ poll[cli[f].poll].reply = "token"
          /\ UNCHANGED session \/ (pc = "out" /\ cli[f].pc = "in" /\ session' = Revoked(f))
    <2>1. CASE GiveUp(f)
        BY <2>1 DEF GiveUp
    <2>2. CASE Receive(f)
        <3>1. PICK reply, pc :
                  /\ reply = poll[cli[f].poll].reply
                  /\ pc = CASE reply = "token" -> "in"
                            [] KeepsPolling(reply) -> "waiting"
                            [] OTHER -> "stopped"
            OBVIOUS
        <3>2. /\ cli' = [cli EXCEPT ![f].pc = pc] /\ cli[f].pc = "polling" /\ UNCHANGED session
            BY <2>2, <3>1 DEF Receive
        <3>3. CASE reply = "token"
            BY <3>1, <3>2, <3>3 DEF KeepsPolling
        <3>4. CASE reply # "token"
            <4>1. pc = IF KeepsPolling(reply) THEN "waiting" ELSE "stopped"
                BY <3>1, <3>4
            <4> QED
                BY <3>2, <4>1
        <3> QED
            BY <3>3, <3>4
    <2>3. CASE Logout(f)
        BY <2>3 DEF Logout
    <2> QED
        BY <2>1, <2>2, <2>3
<1>4. PICK c, row : c = [cli[f] EXCEPT !.pc = pc] /\ row = flow[f]
    OBVIOUS
<1>5. c \in Login /\ c.pc = pc /\ c.poll = cli[f].poll
    BY <1>2, <1>4 DEF Login
<1>6. cli' = [cli EXCEPT ![f] = c] /\ flow' = [flow EXCEPT ![f] = row] /\ row \in FlowRow
    BY <1>1, <1>2, <1>3, <1>4
<1> QED
    BY <1>1, <1>3, <1>4, <1>5, <1>6, CliMoves, ZenonT(60)

\* A request goes out, and the CLI may have sent it.
LEMMA RequestMoves ==
    ASSUME DeviceInv, NEW f \in Flow, NEW p \in Poll, NEW copy \in BOOLEAN, Request(f, p, copy),
           \/ UNCHANGED cli
           \/ /\ cli[f].pc = "waiting" /\ AttemptAllowed(f)
              /\ cli' = [cli EXCEPT ![f].pc = "polling", ![f].poll = p, ![f].left = AttemptsLeft(f)],
           UNCHANGED <<flow, late, session, decision, faults>>, replays' \in Nat
    PROVE  DeviceInv'
<1>0. /\ TypeOK /\ ApprovalsAreBacked
      /\ \A q \in Poll : PollKnows(q)
      /\ \A g \in Flow : CliKnows(g)
    BY DEF DeviceInv
<1>1. /\ poll[p].pc = "new" /\ poll[p] \in PollRequest /\ session[p] = None
      /\ poll[p].seen.state = "none" /\ poll[p].flow = None /\ poll[p].reply = "none"
    <2>1. poll[p].pc = "new" /\ PollKnows(p) /\ poll[p] \in PollRequest
        BY <1>0 DEF Request, Unsent, TypeOK
    <2> QED
        BY <2>1 DEF PollKnows, PollRequest
<1>2. PICK r : r = [poll[p] EXCEPT !.pc = "read", !.flow = f, !.copy = copy, !.after = Answered(f)]
    OBVIOUS
<1>3. /\ r \in PollRequest /\ r.pc = "read" /\ r.flow = f
      /\ r.seen = poll[p].seen /\ r.reply = "none"
    BY <1>1, <1>2 DEF PollRequest, Answered
<1>4. poll' = [poll EXCEPT ![p] = r]
    BY <1>0, <1>2 DEF Request, TypeOK
<1>5. poll'[p] = r /\ \A q \in Poll : q # p => poll'[q] = poll[q]
    BY <1>0, <1>4 DEF TypeOK
<1>6. /\ cli' \in [Flow -> Login]
      /\ \A g \in Flow : cli[g].pc = "out" => cli'[g].pc = "out"
      /\ \A g \in Flow : \/ cli'[g] = cli[g]
                         \/ g = f /\ cli'[g].pc = "polling" /\ cli'[g].poll = p
    <2>1. CASE UNCHANGED cli
        BY <1>0, <2>1 DEF TypeOK
    <2>2. CASE /\ cli[f].pc = "waiting" /\ AttemptAllowed(f)
               /\ cli' = [cli EXCEPT ![f].pc = "polling", ![f].poll = p, ![f].left = AttemptsLeft(f)]
        <3>1. cli[f] \in Login /\ cli \in [Flow -> Login]
            BY <1>0 DEF TypeOK
        <3>2. AttemptsLeft(f) \in Nat
            BY <2>2, <3>1 DEF Login, AttemptAllowed, AttemptsLeft
        <3>3. PICK c : c = [cli[f] EXCEPT !.pc = "polling", !.poll = p, !.left = AttemptsLeft(f)]
            OBVIOUS
        <3>4. c \in Login /\ c.pc = "polling" /\ c.poll = p
            BY <3>1, <3>2, <3>3 DEF Login
        <3>5. cli' = [cli EXCEPT ![f] = c]
            BY <2>2, <3>1, <3>3
        <3>6. cli'[f] = c /\ \A g \in Flow : g # f => cli'[g] = cli[g]
            BY <3>1, <3>5
        <3>7. cli' \in [Flow -> Login]
            BY <3>1, <3>4, <3>5
        <3> QED
            BY <2>2, <3>4, <3>6, <3>7
    <2> QED
        BY <2>1, <2>2
<1>7. TypeOK'
    BY <1>0, <1>3, <1>4, <1>6 DEF TypeOK
<1>8. \A g, u : Backed(g, u)' <=> Backed(g, u)
    BY DEF Backed
<1>9. ApprovalsAreBacked'
    <2>1. \A q \in Poll : poll'[q].seen.state = "approved" => Backed(poll'[q].flow, poll'[q].seen.user)
        BY <1>0, <1>1, <1>3, <1>5 DEF ApprovalsAreBacked
    <2>2. \A q \in Poll : session[q] # None => Backed(poll'[q].flow, session[q])
        BY <1>0, <1>1, <1>5 DEF ApprovalsAreBacked
    <2>3. \A g \in Flow : flow[g].state = "approved" => Backed(g, flow[g].user)
        BY <1>0 DEF ApprovalsAreBacked
    <2> QED
        BY <1>8, <2>1, <2>2, <2>3 DEF ApprovalsAreBacked
<1>10. ASSUME NEW q \in Poll PROVE PollKnows(q)'
    <2>1. CASE q = p
        BY <1>1, <1>3, <1>5, <2>1 DEF PollKnows
    <2>2. CASE q # p
        <3>1. PollKnows(q) /\ poll'[q] = poll[q]
            BY <1>0, <1>5, <2>2
        <3>2. poll[q].reply = "token" => poll[q].flow \in Flow
            BY <3>1 DEF PollKnows
        <3> QED
            BY <1>6, <3>1, <3>2 DEF PollKnows, MayMint
    <2> QED
        BY <2>1, <2>2
<1>11. ASSUME NEW g \in Flow PROVE CliKnows(g)'
    <2>1. CliKnows(g) /\ g # None
        BY <1>0, DeviceAssumption
    <2>2. CASE cli'[g] = cli[g]
        <3>1. cli[g].pc \in {"polling", "in"} => cli[g].poll # p
            BY <1>1, <2>1 DEF CliKnows
        <3> QED
            BY <1>5, <2>1, <2>2, <3>1 DEF CliKnows
    <2>3. CASE g = f /\ cli'[g].pc = "polling" /\ cli'[g].poll = p
        BY <1>3, <1>5, <2>3 DEF CliKnows
    <2> QED
        BY <1>6, <2>2, <2>3
<1> QED
    BY <1>7, <1>9, <1>10, <1>11 DEF DeviceInv

LEMMA SendKeeps ==
    ASSUME DeviceInv, NEW f \in Flow, NEW p \in Poll, SendPoll(f, p) \/ ReplayPoll(f, p)
    PROVE  DeviceInv'
<1>1. replays \in Nat
    BY DEF DeviceInv, TypeOK
<1>2. CASE SendPoll(f, p)
    BY <1>1, <1>2, RequestMoves DEF SendPoll
<1>3. CASE ReplayPoll(f, p)
    <2>1. replays' \in Nat
        BY <1>1, <1>3 DEF ReplayPoll
    <2>2. PICK copy \in BOOLEAN :
              Request(f, p, copy) /\ UNCHANGED <<flow, late, session, decision, cli, faults>>
        BY <1>3, Zenon DEF ReplayPoll
    <2> QED
        BY <2>1, <2>2, RequestMoves
<1> QED
    BY <1>2, <1>3

----------------------------------------------------------------------------
LEMMA DeviceStep == DeviceInv /\ [Next]_vars => DeviceInv'
<1> SUFFICES ASSUME DeviceInv, [Next]_vars PROVE DeviceInv'
    OBVIOUS
<1>1. CASE UNCHANGED vars
    BY <1>1 DEF vars, DeviceInv, TypeOK, ApprovalsAreBacked, Backed, PollKnows, CliKnows, MayMint
<1>2. ASSUME NEW f \in Flow,
             StartFlow(f) \/ GiveUp(f) \/ Receive(f) \/ Logout(f) \/ PassExpiry(f)
      PROVE  DeviceInv'
    <2>1. CASE PassExpiry(f)
        BY <2>1 DEF PassExpiry, DeviceInv, TypeOK, ApprovalsAreBacked, Backed, PollKnows, CliKnows,
                    MayMint
    <2> QED
        BY <1>2, <2>1, StartKeeps, LoginKeeps
<1>3. ASSUME NEW f \in Flow, NEW p \in Poll, SendPoll(f, p) \/ ReplayPoll(f, p)
      PROVE  DeviceInv'
    BY <1>3, SendKeeps
<1>4. ASSUME NEW p \in Poll, PollStep(p) \/ ForceApprove(p) \/ PollFault(p)
      PROVE  DeviceInv'
    BY <1>4, ReadKeeps, DecideKeeps, ExpireKeeps, MintKeeps, ConsumeKeeps, ForceKeeps, FaultKeeps
       DEF PollStep
<1>5. ASSUME NEW d \in Decision,
             DecisionRead(d) \/ DecisionWrite(d) \/ DecisionExpire(d) \/ DecisionFault(d)
      PROVE  DeviceInv'
    BY <1>5, DecisionReadKeeps, DecisionKeeps
<1> QED
    BY <1>1, <1>2, <1>3, <1>4, <1>5 DEF Next

\* Approvals are backed, and polls and CLIs know what their program counters say,
\* for any number of flows and whatever repeats and fails.
THEOREM Invariance == Spec => []DeviceInv
BY InitDevice, DeviceStep, PTL DEF Spec

\* Every row, request and login keeps to its states (types of DeviceFlow).
THEOREM TypeCorrect == Spec => []TypeOK
<1>1. DeviceInv => TypeOK
    BY DEF DeviceInv
<1> QED
    BY <1>1, Invariance, PTL

\* However polls, repeats, decisions, expiry and failing calls interleave, a
\* session belongs to a user who asked to approve its flow (or to the fixture
\* of a development build), and a CLI that is signed in holds such a session of
\* its own consumed flow (the device-token and device/approve routes).
THEOREM SignInIsSound == Spec => []SessionsAreApproved
<1>1. DeviceInv => SessionsAreApproved
    <2> SUFFICES ASSUME DeviceInv PROVE SessionsAreApproved
        OBVIOUS
    <2>1. MintsAreApproved
        BY DEF DeviceInv, ApprovalsAreBacked, Backed, MintsAreApproved
    <2>2. ASSUME NEW f \in Flow, cli[f].pc = "in"
          PROVE  poll[cli[f].poll].flow = f /\ session[cli[f].poll] # None /\ flow[f].consumed
        <3>1. cli[f].poll \in Poll /\ poll[cli[f].poll].flow = f /\ poll[cli[f].poll].reply = "token"
            BY <2>2 DEF DeviceInv, CliKnows
        <3>2. PollKnows(cli[f].poll)
            BY <3>1 DEF DeviceInv
        <3> QED
            BY <2>2, <3>1, <3>2 DEF PollKnows
    <2> QED
        BY <2>1, <2>2 DEF SessionsAreApproved, LoginIsBacked
<1> QED
    BY <1>1, Invariance, PTL

----------------------------------------------------------------------------
(* One code, one session.  A poll that was answered with a token leaves the *)
(* row consumed, so none sent after it goes on to mint; and a CLI that got  *)
(* a token or an error sends no other.                                      *)

Busy(p) == poll[p].pc \notin {"new", "done"}

\* What a poll knows of one that had been answered when it was sent.
AfterToken ==
    \A q \in Poll : \A p \in poll[q].after :
        /\ poll[p].pc = "done" /\ poll[p].flow = poll[q].flow
        /\ poll[p].reply = "token" =>
            /\ poll[q].pc = "decide" => poll[q].seen.consumed
            /\ poll[q].pc \notin {"mint", "consume"}
            /\ session[q] = None

\* A CLI whose own poll is under way, or was its last, holds that poll.
OwnPoll ==
    \A p \in Poll : poll[p].pc # "new" /\ ~poll[p].copy /\ poll[p].reply # "pending" =>
        /\ cli[poll[p].flow].poll = p
        /\ cli[poll[p].flow].pc \notin {"off", "waiting"}

OnceInv == DeviceInv /\ AfterToken /\ OwnPoll

LEMMA InvMintsOnce == OnceInv => SingleMint
<1> SUFFICES ASSUME OnceInv, NEW p \in Poll, NEW q \in Poll, p # q,
                    session[p] # None, session[q] # None, poll[p].flow = poll[q].flow
             PROVE  /\ poll[p].copy \/ poll[q].copy
                    /\ Overlapped(p, q) \/ "error" \in {poll[p].reply, poll[q].reply}
    BY DEF SingleMint
<1>1. \A r \in {p, q} : \/ poll[r].pc = "consume" /\ poll[r].reply = "none"
                        \/ poll[r].pc = "done" /\ poll[r].reply \in {"token", "error"}
    <2>1. \A r \in Poll : PollKnows(r) /\ poll[r] \in PollRequest
        BY DEF OnceInv, DeviceInv, TypeOK
    <2> QED
        BY <2>1 DEF PollKnows, PollRequest
<1>2. poll[p].copy \/ poll[q].copy
    BY <1>1 DEF OnceInv, OwnPoll
<1>3. q \in poll[p].after => poll[q].reply = "error"
    BY <1>1 DEF OnceInv, AfterToken
<1>4. p \in poll[q].after => poll[p].reply = "error"
    BY <1>1 DEF OnceInv, AfterToken
<1> QED
    BY <1>2, <1>3, <1>4 DEF Overlapped

\* What a step of request p does.
Effect(p) ==
    LET f == poll[p].flow
    IN  /\ Busy(p) /\ poll'[p].flow = f /\ poll'[p].pc \notin {"new", "read"}
        /\ poll'[p].copy = poll[p].copy /\ poll'[p].after = poll[p].after
        /\ \A q \in Poll : q # p => poll'[q] = poll[q]
        /\ poll'[p].pc = "decide" => \/ poll[p].pc = "read" /\ poll'[p].seen = flow[f]
                                     \/ /\ poll[p].pc = "decide"
                                        /\ poll'[p].seen.consumed = poll[p].seen.consumed
        /\ poll'[p].pc = "mint" => poll[p].pc = "decide" /\ ~poll[p].seen.consumed
        /\ poll'[p].pc = "consume" => poll[p].pc = "mint"
        /\ \A q \in Poll : session'[q] = session[q] \/ (q = p /\ poll[p].pc = "mint")
        /\ UNCHANGED cli

LEMMA PollEffect ==
    ASSUME DeviceInv, NEW p \in Poll, PollStep(p) \/ ForceApprove(p) \/ PollFault(p)
    PROVE  Effect(p)
<1>0. PICK f : f = poll[p].flow
    OBVIOUS
<1>1. /\ poll \in [Poll -> PollRequest] /\ flow \in [Flow -> FlowRow]
      /\ session \in [Poll -> User \cup {None}] /\ poll[p] \in PollRequest
    BY DEF DeviceInv, TypeOK
<1>2. Busy(p)
    BY DEF Busy, PollStep, PollRead, PollDecide, PollExpire, PollMint, PollConsume, ForceApprove, PollFault
<1>3. f \in Flow /\ flow[f] \in FlowRow
    BY <1>0, <1>2, UnderWay DEF Busy
<1>4. CASE PollRead(p)
    BY <1>0, <1>1, <1>2, <1>3, <1>4 DEF PollRead, Effect, PollRequest
<1>5. CASE PollDecide(p)
    <2>1. poll[p].pc = "decide" /\ UNCHANGED <<session, cli>>
        BY <1>5 DEF PollDecide
    <2>2. CASE poll' = [poll EXCEPT ![p].pc = "expire"]
        BY <1>0, <1>1, <1>2, <1>3, <2>1, <2>2 DEF Effect, PollRequest
    <2>3. CASE poll' = [poll EXCEPT ![p].pc = "mint"] /\ MayMint(poll[p].seen)
        BY <1>0, <1>1, <1>2, <1>3, <2>1, <2>3 DEF Effect, PollRequest, MayMint
    <2>4. CASE \E reply : PollReply(p, reply)
        BY <1>0, <1>1, <1>2, <1>3, <2>1, <2>4 DEF Effect, PollRequest, PollReply
    <2> QED
        BY <1>5, <2>2, <2>3, <2>4 DEF PollDecide
<1>6. CASE PollExpire(p)
    BY <1>0, <1>1, <1>2, <1>3, <1>6 DEF PollExpire, PollReply, Effect, PollRequest
<1>7. CASE PollMint(p)
    BY <1>0, <1>1, <1>2, <1>3, <1>7 DEF PollMint, Effect, PollRequest
<1>8. CASE PollConsume(p)
    BY <1>0, <1>1, <1>2, <1>3, <1>8 DEF PollConsume, PollReply, Effect, PollRequest
<1>9. CASE ForceApprove(p)
    BY <1>0, <1>1, <1>2, <1>3, <1>9 DEF ForceApprove, Effect, PollRequest, FlowRow
<1>10. CASE PollFault(p)
    <2>1. /\ poll' = [poll EXCEPT ![p].pc = "done", ![p].reply = "error", ![p].seen = NoRow]
          /\ UNCHANGED cli
        BY <1>10 DEF PollFault, PollReply
    <2>2. /\ poll'[p].pc = "done" /\ poll'[p].flow = f
          /\ poll'[p].copy = poll[p].copy /\ poll'[p].after = poll[p].after
          /\ \A q \in Poll : q # p => poll'[q] = poll[q]
        BY <1>0, <1>1, <2>1 DEF PollRequest
    <2>3. \A q \in Poll : session'[q] = session[q] \/ (q = p /\ poll[p].pc = "mint")
        BY <1>1, <1>10 DEF PollFault
    <2> QED
        BY <1>0, <1>2, <2>1, <2>2, <2>3 DEF Effect
<1> QED
    BY <1>4, <1>5, <1>6, <1>7, <1>8, <1>9, <1>10 DEF PollStep

LEMMA PollOnce ==
    ASSUME OnceInv, NEW p \in Poll, PollStep(p) \/ ForceApprove(p) \/ PollFault(p)
    PROVE  AfterToken' /\ OwnPoll'
<1>0. DeviceInv /\ AfterToken /\ OwnPoll /\ \A q \in Poll : PollKnows(q) /\ poll[q] \in PollRequest
    BY DEF OnceInv, DeviceInv, TypeOK
<1>1. Effect(p)
    BY <1>0, PollEffect
<1>2. ASSUME NEW q \in Poll, NEW r \in poll'[q].after
      PROVE  /\ poll'[r].pc = "done" /\ poll'[r].flow = poll'[q].flow
             /\ poll'[r].reply = "token" =>
                 /\ poll'[q].pc = "decide" => poll'[q].seen.consumed
                 /\ poll'[q].pc \notin {"mint", "consume"}
                 /\ session'[q] = None
    <2>1. r \in poll[q].after /\ r \in Poll /\ poll'[q].flow = poll[q].flow
        BY <1>0, <1>1 DEF Effect, PollRequest
    <2>2. poll[r].pc = "done" /\ r # p /\ poll'[r] = poll[r] /\ poll[r].flow = poll[q].flow
        BY <1>0, <1>1, <2>1 DEF AfterToken, Effect, Busy
    <2>3. CASE q # p
        BY <1>0, <1>1, <2>1, <2>2, <2>3 DEF AfterToken, Effect
    <2>4. ASSUME q = p, poll[r].reply = "token"
          PROVE  /\ poll'[p].pc = "decide" => poll'[p].seen.consumed
                 /\ poll'[p].pc \notin {"mint", "consume"}
                 /\ session'[p] = None
        <3>1. flow[poll[p].flow].consumed
            BY <1>0, <2>1, <2>2, <2>4 DEF PollKnows
        <3>2. /\ poll[p].pc = "decide" => poll[p].seen.consumed
              /\ poll[p].pc \notin {"mint", "consume"}
              /\ session[p] = None
            BY <1>0, <2>1, <2>4 DEF AfterToken
        <3> QED
            BY <1>1, <3>1, <3>2 DEF Effect
    <2> QED
        BY <2>1, <2>2, <2>3, <2>4
<1>3. AfterToken'
    BY <1>2 DEF AfterToken
<1>4. OwnPoll'
    <2> SUFFICES ASSUME NEW q \in Poll, poll'[q].pc # "new", ~poll'[q].copy,
                        poll'[q].reply # "pending"
                 PROVE  /\ cli'[poll'[q].flow].poll = q
                        /\ cli'[poll'[q].flow].pc \notin {"off", "waiting"}
        BY DEF OwnPoll
    <2>1. CASE q = p
        <3>1. poll[p].pc # "new" /\ ~poll[p].copy /\ poll[p].reply # "pending"
            BY <1>0, <1>1, <2>1 DEF Effect, Busy, PollKnows
        <3> QED
            BY <1>0, <1>1, <2>1, <3>1 DEF Effect, OwnPoll
    <2>2. CASE q # p
        BY <1>0, <1>1, <2>2 DEF Effect, OwnPoll
    <2> QED
        BY <2>1, <2>2
<1> QED
    BY <1>3, <1>4

\* What the steps of the others do that send no poll.
Aside ==
    /\ UNCHANGED poll
    /\ \A q \in Poll : session'[q] \in {session[q], None}
    /\ \A g \in Flow : \/ cli'[g] = cli[g]
                       \/ cli[g].pc \in {"off", "waiting"}
                       \/ cli'[g].poll = cli[g].poll /\ cli'[g].pc \in {"in", "out", "stopped"}
                       \/ cli[g].pc = "polling" /\ poll[cli[g].poll].reply = "pending"

LEMMA AsideOnce ==
    ASSUME OnceInv, Aside
    PROVE  AfterToken' /\ OwnPoll'
<1>0. DeviceInv /\ AfterToken /\ OwnPoll /\ \A q \in Poll : PollKnows(q) /\ poll[q] \in PollRequest
    BY DEF OnceInv, DeviceInv, TypeOK
<1>1. AfterToken'
    BY <1>0 DEF AfterToken, Aside
<1>2. OwnPoll'
    <2> SUFFICES ASSUME NEW q \in Poll, poll[q].pc # "new", ~poll[q].copy, poll[q].reply # "pending"
                 PROVE  /\ cli'[poll[q].flow].poll = q
                        /\ cli'[poll[q].flow].pc \notin {"off", "waiting"}
        BY DEF OwnPoll, Aside
    <2>1. /\ poll[q].flow \in Flow /\ cli[poll[q].flow].poll = q
          /\ cli[poll[q].flow].pc \notin {"off", "waiting"}
        BY <1>0 DEF OwnPoll, PollKnows
    <2> QED
        BY <2>1 DEF Aside
<1> QED
    BY <1>1, <1>2

LEMMA AsideSteps ==
    ASSUME DeviceInv,
           \/ \E f \in Flow : StartFlow(f) \/ GiveUp(f) \/ Receive(f) \/ Logout(f) \/ PassExpiry(f)
           \/ \E d \in Decision : \/ DecisionRead(d) \/ DecisionWrite(d) \/ DecisionExpire(d)
                                  \/ DecisionFault(d)
    PROVE  Aside
<1>1. session \in [Poll -> User \cup {None}] /\ cli \in [Flow -> Login]
    BY DEF DeviceInv, TypeOK
<1>2. ASSUME NEW f \in Flow, StartFlow(f) \/ GiveUp(f) \/ Logout(f) \/ PassExpiry(f)
      PROVE  Aside
    <2>1. CASE StartFlow(f)
        BY <1>1, <2>1 DEF StartFlow, Aside
    <2>2. CASE GiveUp(f)
        BY <1>1, <2>2 DEF GiveUp, Aside
    <2>3. CASE Logout(f)
        BY <1>1, <2>3 DEF Logout, Revoked, Aside, Login
    <2>4. CASE PassExpiry(f)
        BY <1>1, <2>4 DEF PassExpiry, Aside
    <2> QED
        BY <1>2, <2>1, <2>2, <2>3, <2>4
<1>3. ASSUME NEW f \in Flow, Receive(f) PROVE Aside
    <2>1. PICK reply, pc :
              /\ reply = poll[cli[f].poll].reply
              /\ pc = CASE reply = "token" -> "in"
                        [] KeepsPolling(reply) -> "waiting"
                        [] OTHER -> "stopped"
        OBVIOUS
    <2>2. /\ cli' = [cli EXCEPT ![f].pc = pc] /\ cli[f].pc = "polling" /\ reply # "none"
          /\ UNCHANGED <<session, poll>>
        BY <1>3, <2>1 DEF Receive
    <2>3. pc \in {"in", "stopped"} \/ reply = "pending"
        <3>1. CASE reply = "token"
            BY <2>1, <3>1 DEF KeepsPolling
        <3>2. CASE reply # "token"
            <4>1. pc = IF KeepsPolling(reply) THEN "waiting" ELSE "stopped"
                BY <2>1, <3>2
            <4> QED
                BY <4>1 DEF KeepsPolling
        <3> QED
            BY <3>1, <3>2
    <2>4. /\ cli'[f].pc = pc /\ cli'[f].poll = cli[f].poll
          /\ \A g \in Flow : g # f => cli'[g] = cli[g]
        BY <1>1, <2>2 DEF Login
    <2> QED
        BY <2>1, <2>2, <2>3, <2>4 DEF Aside
<1>4. ASSUME NEW d \in Decision,
             DecisionRead(d) \/ DecisionWrite(d) \/ DecisionExpire(d) \/ DecisionFault(d)
      PROVE  Aside
    <2>1. UNCHANGED <<session, poll, cli>>
        BY <1>4 DEF DecisionRead, DecisionWrite, DecisionExpire, DecisionFault
    <2> QED
        BY <2>1 DEF Aside
<1> QED
    BY <1>2, <1>3, <1>4

LEMMA RequestOnce ==
    ASSUME OnceInv, NEW f \in Flow, NEW p \in Poll, SendPoll(f, p) \/ ReplayPoll(f, p)
    PROVE  AfterToken' /\ OwnPoll'
<1>0. DeviceInv /\ AfterToken /\ OwnPoll
    BY DEF OnceInv
<1>1. PICK copy \in BOOLEAN :
          /\ poll[p].pc = "new"
          /\ poll' = [poll EXCEPT ![p].pc = "read", ![p].flow = f,
                                  ![p].copy = copy, ![p].after = Answered(f)]
          /\ UNCHANGED session
          /\ \/ copy /\ UNCHANGED cli
             \/ /\ ~copy /\ cli[f].pc = "waiting"
                /\ cli' = [cli EXCEPT ![f].pc = "polling", ![f].poll = p,
                                      ![f].left = AttemptsLeft(f)]
    BY DEF SendPoll, ReplayPoll, Request, Unsent
<1>2. /\ poll \in [Poll -> PollRequest] /\ cli \in [Flow -> Login]
      /\ \A q \in Poll : PollKnows(q) /\ poll[q] \in PollRequest
    BY <1>0 DEF DeviceInv, TypeOK
<1>3. /\ poll'[p].pc = "read" /\ poll'[p].flow = f /\ poll'[p].copy = copy
      /\ poll'[p].after = Answered(f)
      /\ \A q \in Poll : q # p => poll'[q] = poll[q]
    BY <1>1, <1>2 DEF PollRequest
<1>4. session[p] = None
    BY <1>1, <1>2 DEF PollKnows
<1>5. ASSUME NEW q \in Poll, NEW r \in poll'[q].after
      PROVE  /\ poll'[r].pc = "done" /\ poll'[r].flow = poll'[q].flow
             /\ poll'[r].reply = "token" =>
                 /\ poll'[q].pc = "decide" => poll'[q].seen.consumed
                 /\ poll'[q].pc \notin {"mint", "consume"}
                 /\ session'[q] = None
    <2>1. CASE q = p
        <3>1. r \in Poll /\ poll[r].pc = "done" /\ poll[r].flow = f /\ r # p
            BY <1>1, <1>3, <1>5, <2>1 DEF Answered
        <3> QED
            BY <1>1, <1>3, <1>4, <2>1, <3>1
    <2>2. CASE q # p
        <3>1. r \in poll[q].after /\ r \in Poll /\ poll[r].pc = "done"
            BY <1>0, <1>2, <1>3, <1>5, <2>2 DEF AfterToken, PollRequest
        <3>2. poll'[r] = poll[r] /\ poll'[q] = poll[q]
            BY <1>1, <1>3, <2>2, <3>1
        <3> QED
            BY <1>0, <1>1, <2>2, <3>1, <3>2 DEF AfterToken
    <2> QED
        BY <2>1, <2>2
<1>6. AfterToken'
    BY <1>5 DEF AfterToken
<1>7. OwnPoll'
    <2> SUFFICES ASSUME NEW q \in Poll, poll'[q].pc # "new", ~poll'[q].copy,
                        poll'[q].reply # "pending"
                 PROVE  /\ cli'[poll'[q].flow].poll = q
                        /\ cli'[poll'[q].flow].pc \notin {"off", "waiting"}
        BY DEF OwnPoll
    <2>1. CASE q = p
        <3>1. ~copy
            BY <1>3, <2>1
        <3>2. cli'[f].pc = "polling" /\ cli'[f].poll = p
            BY <1>1, <1>2, <3>1 DEF Login
        <3> QED
            BY <1>3, <2>1, <3>2
    <2>2. CASE q # p
        <3>1. /\ poll'[q] = poll[q] /\ poll[q].flow \in Flow
              /\ cli[poll[q].flow].poll = q /\ cli[poll[q].flow].pc \notin {"off", "waiting"}
            BY <1>0, <1>2, <1>3, <2>2 DEF OwnPoll, PollKnows
        <3>2. cli'[poll[q].flow] = cli[poll[q].flow]
            BY <1>1, <1>2, <3>1
        <3> QED
            BY <3>1, <3>2
    <2> QED
        BY <2>1, <2>2
<1> QED
    BY <1>6, <1>7

\* However polls overlap, repeat and fail and whoever decides meanwhile, a code
\* mints a second session only by a poll that something repeated, and that ran
\* beside the one it repeats or follows one whose mint or consume reported an
\* error (device-token/route.ts).
THEOREM MintsOnce == Spec => []SingleMint
<1>1. Init => OnceInv
    <2> SUFFICES ASSUME Init PROVE OnceInv
        OBVIOUS
    <2>1. DeviceInv
        BY InitDevice
    <2>2. AfterToken /\ OwnPoll
        BY DEF Init, AfterToken, OwnPoll
    <2> QED
        BY <2>1, <2>2 DEF OnceInv
<1>2. OnceInv /\ [Next]_vars => OnceInv'
    <2> SUFFICES ASSUME OnceInv, [Next]_vars PROVE OnceInv'
        OBVIOUS
    <2>1. DeviceInv'
        BY DeviceStep DEF OnceInv
    <2>2. CASE UNCHANGED vars
        BY <2>1, <2>2 DEF vars, OnceInv, AfterToken, OwnPoll
    <2>3. ASSUME NEW p \in Poll, PollStep(p) \/ ForceApprove(p) \/ PollFault(p)
          PROVE  OnceInv'
        BY <2>1, <2>3, PollOnce DEF OnceInv
    <2>4. ASSUME NEW f \in Flow, NEW p \in Poll, SendPoll(f, p) \/ ReplayPoll(f, p)
          PROVE  OnceInv'
        BY <2>1, <2>4, RequestOnce DEF OnceInv
    <2>5. ASSUME \/ \E f \in Flow : \/ StartFlow(f) \/ GiveUp(f) \/ Receive(f) \/ Logout(f)
                                    \/ PassExpiry(f)
                 \/ \E d \in Decision : \/ DecisionRead(d) \/ DecisionWrite(d)
                                        \/ DecisionExpire(d) \/ DecisionFault(d)
          PROVE  OnceInv'
        <3>1. DeviceInv
            BY DEF OnceInv
        <3>2. Aside
            BY <2>5, <3>1, AsideSteps
        <3> QED
            BY <2>1, <3>2, AsideOnce DEF OnceInv
    <2> QED
        BY <2>2, <2>3, <2>4, <2>5 DEF Next
<1> QED
    BY <1>1, <1>2, InvMintsOnce, PTL DEF Spec
=============================================================================
