-------------------------- MODULE LiveSessionProofs --------------------------
(***************************************************************************)
(* For any number of requests, saves, recordings and failed writes: text   *)
(* is shared only with the user's consent, an answer reaches nobody who    *)
(* withdrew it, and the history of a session is its own. The order of      *)
(* proof: what the lock of consent_io protects, who has the slot, and what *)
(* a withdrawal leaves of a call.                                          *)
(***************************************************************************)
EXTENDS LiveSession, TLAPS

\* Only the holder of the lock writes the setting, so that what it read or
\* wrote is what the database has.
Locked ==
  /\ \A s \in Savers : saver[s].pc \in {"write", "apply"} => io = s
  /\ \A c \in Requests : call[c].pc = "apply" => io = c /\ call[c].seen = setting
  /\ \A s \in Savers : saver[s].pc = "apply" => setting = saver[s].enabled

Saving(s) == saver[s].pc # "idle"

\* There is one newest save, it has the user's word, and the gate stays closed
\* until it is through.
Closed ==
  /\ \A s \in Savers : Saving(s) => saver[s].rev <= consent.rev
  /\ \A s, t \in Savers : Saving(s) /\ Saving(t) /\ saver[s].rev = saver[t].rev => s = t
  /\ \A s \in Savers : Saving(s) /\ Newest(s) => consent.pending /\ saver[s].enabled = choice
  /\ consent.pending => \E s \in Savers : Saving(s) /\ Newest(s)
  /\ ~consent.pending => \A s \in Savers : saver[s].pc \in {"idle", "lock"}

Agreed ==
  /\ ~consent.pending /\ ~consent.failed => setting = choice
  /\ Effective => choice

\* A call claims in its first phase and holds a lease in the later ones.
Phases == \A c \in Requests :
  /\ call[c].pc = "idle" <=> call[c].phase = 0
  /\ call[c].pc = "claim" => call[c].phase = 1
  /\ call[c].pc \in {"resolve", "validate", "send", "wait", "complete", "return"} => call[c].phase > 1
  /\ call[c].pc # "idle" => call[c].gen # 0

Kept == session.slot # Nobody => call[session.slot].gen = session.gen /\ call[session.slot].phase > 1
Lost == \A c \in Requests : call[c].phase > 1 /\ session.slot # c => call[c].cancelled
Slot == Kept /\ Lost

Answers ==
  /\ \A i \in 1 .. Len(history) : history[i].gen = session.gen
  /\ \A i, j \in 1 .. Len(history) : history[i].req = history[j].req => i = j
  /\ session.slot # Nobody /\ call[session.slot].pc # "return" => session.slot \notin Answered

\* A withdrawn call has lost its token.
Withdrawn == \A c \in Requests :
  /\ c \in void => call[c].phase > 1 /\ call[c].cancelled
  /\ c \in Members(early) /\ call[c].phase > 1 => call[c].cancelled

IInv == TypeOK /\ Locked /\ Closed /\ Agreed /\ Phases /\ Slot /\ Answers /\ Withdrawn

LEMMA InitInv == Init => IInv
<1> SUFFICES ASSUME Init PROVE IInv
  OBVIOUS
<1> USE LiveAssumption DEF Init, NoSession, IdleCall, IdleSaver, Leased
<1>1. TypeOK
  BY DEF TypeOK, Session, Consent, Call, Saver, Entry
<1>2. Locked /\ Closed /\ Agreed
  BY DEF Locked, Closed, Agreed, Saving, Newest, Effective
<1>3. Phases /\ Slot /\ Answers /\ Withdrawn
  BY DEF Phases, Slot, Kept, Lost, Answers, Withdrawn, Members
<1> QED
  BY <1>1, <1>2, <1>3 DEF IInv

(* The types, one action at a time: the session, the consent and the calls.  *)
RoomTypes == /\ session \in Session /\ last \in 0 .. MaxSessions
             /\ history \in Seq(Entry) /\ Len(history) <= HistoryCap
             /\ early \in Seq(Requests) /\ Len(early) <= EarlyCap
             /\ void \subseteq Requests
ConsentTypes == /\ consent \in Consent /\ saver \in [Savers -> Saver]
                /\ io \in Requests \cup Savers \cup {Nobody}
                /\ setting \in BOOLEAN /\ choice \in BOOLEAN /\ faults \in 0 .. MaxFaults
CallTypes == call \in [Requests -> Call]

LEMMA Blank == IdleCall \in Call /\ IdleSaver \in Saver /\ NoSession \in Session
BY LiveAssumption DEF IdleCall, Call, IdleSaver, Saver, NoSession, Session

LEMMA Steps == /\ "resolve" \in Leased /\ "fetch" \in Leased /\ "apply" \in Leased /\ "validate" \in Leased
               /\ "send" \in Leased /\ "wait" \in Leased /\ "complete" \in Leased
BY DEF Leased

LEMMA StepTypes == ASSUME TypeOK, Phases, [Next]_vars PROVE TypeOK'
<1> SUFFICES RoomTypes' /\ ConsentTypes' /\ CallTypes'
  BY DEF RoomTypes, ConsentTypes, CallTypes, TypeOK
<1> USE LiveAssumption DEF TypeOK, RoomTypes, ConsentTypes, CallTypes, consentVars, callOnly, Goto
<1>1. ASSUME NEW enabled \in BOOLEAN, Prepare(enabled)
      PROVE  RoomTypes' /\ ConsentTypes' /\ CallTypes'
  <2>1. RoomTypes'
    <3>1. session' \in Session /\ last' \in 0 .. MaxSessions
      <4>1. last' = last + 1 /\ last < MaxSessions
        BY <1>1 DEF Prepare
      <4>2. session' = [gen |-> last + 1, transcribes |-> enabled, docs |-> FALSE, slot |-> Nobody]
        BY <1>1 DEF Prepare, NoSession
      <4> QED
        BY <4>1, <4>2 DEF Session
    <3> QED
      BY <1>1, <3>1 DEF Prepare, NowVoid
  <2>2. ConsentTypes'
    BY <1>1 DEF Prepare
  <2>3. CallTypes'
    BY <1>1 DEF Prepare, CancelToken, Call
  <2> QED
    BY <2>1, <2>2, <2>3
<1>2. CASE Stop
  <2>1. RoomTypes'
    BY <1>2 DEF Stop, EndSession, NoSession, NowVoid, Session
  <2>2. ConsentTypes'
    BY <1>2 DEF Stop, EndSession
  <2>3. CallTypes'
    BY <1>2 DEF Stop, EndSession, CancelToken, Call
  <2> QED
    BY <2>1, <2>2, <2>3
<1>3. ASSUME NEW c \in Requests, Cancel(c)
      PROVE  RoomTypes' /\ ConsentTypes' /\ CallTypes'
  <2>1. RoomTypes'
    BY <1>3 DEF Cancel, Remember, NowVoid, Members
  <2>2. ConsentTypes'
    BY <1>3 DEF Cancel
  <2>3. CallTypes'
    BY <1>3 DEF Cancel, CancelToken, Call
  <2> QED
    BY <2>1, <2>2, <2>3
<1>4. CASE ClearHistory
  <2>1. RoomTypes'
    BY <1>4 DEF ClearHistory, NowVoid
  <2>2. ConsentTypes'
    BY <1>4 DEF ClearHistory
  <2>3. CallTypes'
    BY <1>4 DEF ClearHistory, CancelToken, Call
  <2> QED
    BY <2>1, <2>2, <2>3
<1>5. ASSUME NEW enabled \in BOOLEAN, ShareDocuments(enabled)
      PROVE  RoomTypes' /\ ConsentTypes' /\ CallTypes'
  <2>1. RoomTypes'
    BY <1>5 DEF ShareDocuments, NowVoid, Session
  <2>2. ConsentTypes'
    BY <1>5 DEF ShareDocuments
  <2>3. CallTypes'
    <3>1. call' = call \/ CancelToken(Owner)
      BY <1>5 DEF ShareDocuments
    <3>2. \A c \in Requests : [call[c] EXCEPT !.cancelled = TRUE] \in Call
      BY DEF Call
    <3> QED
      BY <3>1, <3>2 DEF CancelToken
  <2> QED
    BY <2>1, <2>2, <2>3
<1>6. ASSUME NEW s \in Savers, NEW enabled \in BOOLEAN, SaveBegin(s, enabled)
      PROVE  RoomTypes' /\ ConsentTypes' /\ CallTypes'
  <2>1. RoomTypes'
    BY <1>6 DEF SaveBegin, NowVoid
  <2>2. ConsentTypes'
    <3>1. saver' \in [Savers -> Saver]
      BY <1>6 DEF SaveBegin, Consent, Saver
    <3>2. consent' = [sharing |-> FALSE, rev |-> consent.rev + 1, pending |-> TRUE, failed |-> consent.failed]
      BY <1>6 DEF SaveBegin, Consent
    <3>3. consent' \in Consent
      BY <3>2 DEF Consent
    <3> QED
      BY <1>6, <3>1, <3>3 DEF SaveBegin
  <2>3. CallTypes'
    BY <1>6 DEF SaveBegin, CancelToken, Call
  <2> QED
    BY <2>1, <2>2, <2>3
<1>7. ASSUME NEW s \in Savers, SaveLock(s)
      PROVE  RoomTypes' /\ ConsentTypes' /\ CallTypes'
  <2>1. RoomTypes'
    BY <1>7 DEF SaveLock
  <2>2. ConsentTypes'
    <3>1. saver' \in [Savers -> Saver]
      <4>1. saver' = [saver EXCEPT ![s] = IdleSaver] \/ saver' = [saver EXCEPT ![s].pc = "write"]
        BY <1>7 DEF SaveLock
      <4>2. [saver[s] EXCEPT !.pc = "write"] \in Saver
        BY DEF Saver
      <4> QED
        BY <4>1, <4>2, Blank
    <3>2. io' \in {io, s}
      BY <1>7 DEF SaveLock
    <3> QED
      BY <1>7, <3>1, <3>2 DEF SaveLock
  <2>3. CallTypes'
    BY <1>7 DEF SaveLock
  <2> QED
    BY <2>1, <2>2, <2>3
<1>8. ASSUME NEW s \in Savers, SaveWrite(s)
      PROVE  RoomTypes' /\ ConsentTypes' /\ CallTypes'
  <2>1. RoomTypes'
    BY <1>8 DEF SaveWrite
  <2>2. ConsentTypes'
    BY <1>8 DEF SaveWrite, Saver
  <2>3. CallTypes'
    BY <1>8 DEF SaveWrite
  <2> QED
    BY <2>1, <2>2, <2>3
<1>9. ASSUME NEW s \in Savers, SaveApply(s)
      PROVE  RoomTypes' /\ ConsentTypes' /\ CallTypes'
  <2>1. RoomTypes'
    BY <1>9 DEF SaveApply
  <2>2. ConsentTypes'
    BY <1>9 DEF SaveApply, IdleSaver, Saver, Consent
  <2>3. CallTypes'
    BY <1>9 DEF SaveApply
  <2> QED
    BY <2>1, <2>2, <2>3
<1>10. ASSUME NEW s \in Savers, SaveFails(s)
      PROVE  RoomTypes' /\ ConsentTypes' /\ CallTypes'
  <2>1. RoomTypes'
    BY <1>10 DEF SaveFails
  <2>2. ConsentTypes'
    <3>1. saver' \in [Savers -> Saver]
      BY <1>10, Blank DEF SaveFails
    <3>2. consent' \in Consent
      BY <1>10 DEF SaveFails, Consent
    <3> QED
      BY <1>10, <3>1, <3>2 DEF SaveFails
  <2>3. CallTypes'
    BY <1>10 DEF SaveFails
  <2> QED
    BY <2>1, <2>2, <2>3
<1>11. ASSUME NEW c \in Requests, Ask(c)
      PROVE  RoomTypes' /\ ConsentTypes' /\ CallTypes'
  <2>1. RoomTypes'
    BY <1>11 DEF Ask
  <2>2. ConsentTypes'
    BY <1>11 DEF Ask
  <2>3. CallTypes'
    BY <1>11, Steps DEF Ask, Call, Session, Consent
  <2> QED
    BY <2>1, <2>2, <2>3
<1>12. ASSUME NEW c \in Requests, LoadFetch(c)
      PROVE  RoomTypes' /\ ConsentTypes' /\ CallTypes'
  <2>1. RoomTypes'
    BY <1>12 DEF LoadFetch
  <2>2. ConsentTypes'
    BY <1>12 DEF LoadFetch
  <2>3. CallTypes'
    BY <1>12 DEF LoadFetch, Call, Leased
  <2> QED
    BY <2>1, <2>2, <2>3
<1>13. ASSUME NEW c \in Requests, LoadApply(c)
      PROVE  RoomTypes' /\ ConsentTypes' /\ CallTypes'
  <2>1. RoomTypes'
    BY <1>13 DEF LoadApply
  <2>2. ConsentTypes'
    BY <1>13 DEF LoadApply, Consent, Call
  <2>3. CallTypes'
    <3>1. \A d \in Requests : Loaded(c)[d] \in Call
      BY Steps DEF Loaded, Call
    <3>2. \A d \in Requests : [Loaded(c)[d] EXCEPT !.cancelled = TRUE] \in Call
      BY <3>1 DEF Call
    <3>3. Loaded(c) \in [Requests -> Call]
      BY <3>1 DEF Loaded
    <3>4. \/ call' = Loaded(c)
          \/ call' = [d \in Requests |-> IF d \in Owner THEN [Loaded(c)[d] EXCEPT !.cancelled = TRUE] ELSE Loaded(c)[d]]
      BY <1>13 DEF LoadApply
    <3> HIDE DEF Loaded
    <3> QED
      BY <3>1, <3>2, <3>3, <3>4
  <2> QED
    BY <2>1, <2>2, <2>3
<1>14. ASSUME NEW c \in Requests, Claim(c)
      PROVE  RoomTypes' /\ ConsentTypes' /\ CallTypes'
  <2>1. RoomTypes'
    BY <1>14 DEF Claim, Session
  <2>2. ConsentTypes'
    BY <1>14 DEF Claim
  <2>3. CallTypes'
    <3>1. call'[c] = [pc |-> "resolve", phase |-> 2, gen |-> call[c].gen, rev |-> call[c].rev,
                      seen |-> call[c].seen, cancelled |-> call[c].cancelled]
      BY <1>14 DEF Claim, Call
    <3>2. call'[c] \in Call
      BY <3>1, Steps DEF Call, Consent
    <3>3. call' = [d \in Requests |-> call'[d]] /\ \A d \in Requests \ {c} : call'[d] = call[d]
      BY <1>14 DEF Claim
    <3> QED
      BY <3>2, <3>3
  <2> QED
    BY <2>1, <2>2, <2>3
<1>15. ASSUME NEW c \in Requests, Refused(c)
      PROVE  RoomTypes' /\ ConsentTypes' /\ CallTypes'
  <2>1. RoomTypes'
    BY <1>15 DEF Refused
  <2>2. ConsentTypes'
    BY <1>15 DEF Refused
  <2>3. CallTypes'
    BY <1>15 DEF Refused, IdleCall, Call
  <2> QED
    BY <2>1, <2>2, <2>3
<1>16. ASSUME NEW c \in Requests, BuildPrompt(c)
      PROVE  RoomTypes' /\ ConsentTypes' /\ CallTypes'
  <2>1. RoomTypes'
    BY <1>16 DEF BuildPrompt
  <2>2. ConsentTypes'
    BY <1>16 DEF BuildPrompt
  <2>3. CallTypes'
    <3>1. call'[c] = [pc |-> "fetch", phase |-> 2, gen |-> call[c].gen, rev |-> consent.rev,
                      seen |-> call[c].seen, cancelled |-> call[c].cancelled]
      BY <1>16 DEF BuildPrompt, Load, Call
    <3>2. call'[c] \in Call
      BY <3>1, Steps DEF Call, Consent
    <3>3. call' = [d \in Requests |-> call'[d]] /\ \A d \in Requests \ {c} : call'[d] = call[d]
      BY <1>16 DEF BuildPrompt, Load
    <3> QED
      BY <3>2, <3>3
  <2> QED
    BY <2>1, <2>2, <2>3
<1>17. ASSUME NEW c \in Requests, Validate(c)
      PROVE  RoomTypes' /\ ConsentTypes' /\ CallTypes'
  <2>1. RoomTypes'
    BY <1>17 DEF Validate
  <2>2. ConsentTypes'
    BY <1>17 DEF Validate
  <2>3. CallTypes'
    BY <1>17, Steps DEF Validate, Call
  <2> QED
    BY <2>1, <2>2, <2>3
<1>18. ASSUME NEW c \in Requests, Send(c)
      PROVE  RoomTypes' /\ ConsentTypes' /\ CallTypes'
  <2>1. RoomTypes'
    BY <1>18 DEF Send
  <2>2. ConsentTypes'
    BY <1>18 DEF Send
  <2>3. CallTypes'
    BY <1>18 DEF Send, Call, Leased
  <2> QED
    BY <2>1, <2>2, <2>3
<1>19. ASSUME NEW c \in Requests, Reply(c)
      PROVE  RoomTypes' /\ ConsentTypes' /\ CallTypes'
  <2>1. RoomTypes'
    BY <1>19 DEF Reply
  <2>2. ConsentTypes'
    BY <1>19 DEF Reply
  <2>3. CallTypes'
    <3>1. call'[c] = [pc |-> "fetch", phase |-> 3, gen |-> call[c].gen, rev |-> consent.rev,
                      seen |-> call[c].seen, cancelled |-> call[c].cancelled]
      BY <1>19 DEF Reply, Load, Call
    <3>2. call'[c] \in Call
      BY <3>1, Steps DEF Call, Consent
    <3>3. call' = [d \in Requests |-> call'[d]] /\ \A d \in Requests \ {c} : call'[d] = call[d]
      BY <1>19 DEF Reply, Load
    <3> QED
      BY <3>2, <3>3
  <2> QED
    BY <2>1, <2>2, <2>3
<1>20. ASSUME NEW c \in Requests, Complete(c)
      PROVE  RoomTypes' /\ ConsentTypes' /\ CallTypes'
  <2>1. RoomTypes'
    <3>1. call[c].gen \in 1 .. MaxSessions
      BY <1>20 DEF Complete, Call, Phases
    <3>2. Append(history, [req |-> c, gen |-> call[c].gen]) \in Seq(Entry)
      BY <3>1 DEF Entry
    <3>3. history' \in Seq(Entry) /\ Len(history') <= HistoryCap
      BY <1>20, <3>2 DEF Complete, Keep
    <3> QED
      BY <1>20, <3>3 DEF Complete
  <2>2. ConsentTypes'
    BY <1>20 DEF Complete
  <2>3. CallTypes'
    BY <1>20 DEF Complete, Call
  <2> QED
    BY <2>1, <2>2, <2>3
<1>21. ASSUME NEW c \in Requests, Return(c)
      PROVE  RoomTypes' /\ ConsentTypes' /\ CallTypes'
  <2>1. RoomTypes'
    BY <1>21 DEF Return, DropLease, Session
  <2>2. ConsentTypes'
    BY <1>21 DEF Return, DropLease
  <2>3. CallTypes'
    BY <1>21 DEF Return, DropLease, IdleCall, Call
  <2> QED
    BY <2>1, <2>2, <2>3
<1>22. ASSUME NEW c \in Requests, Fail(c)
      PROVE  RoomTypes' /\ ConsentTypes' /\ CallTypes'
  <2>1. RoomTypes'
    BY <1>22 DEF Fail, DropLease, Session
  <2>2. ConsentTypes'
    BY <1>22 DEF Fail, DropLease
  <2>3. CallTypes'
    BY <1>22 DEF Fail, DropLease, IdleCall, Call
  <2> QED
    BY <2>1, <2>2, <2>3
<1>23. CASE UNCHANGED vars
  BY <1>23 DEF vars
<1> QED
  BY <1>1, <1>2, <1>3, <1>4, <1>5, <1>6, <1>7, <1>8, <1>9, <1>10, <1>11, <1>12,
     <1>13, <1>14, <1>15, <1>16, <1>17, <1>18, <1>19, <1>20, <1>21, <1>22, <1>23
  DEF Next, RecordingStep, UserStep, CallStep, SaverStep

(* Cancelling tokens changes nothing else of a call.                         *)
LEMMA Token == ASSUME TypeOK, NEW these, CancelToken(these), NEW d \in Requests
               PROVE  /\ call'[d].pc = call[d].pc /\ call'[d].phase = call[d].phase /\ call'[d].gen = call[d].gen
                      /\ call'[d].seen = call[d].seen
                      /\ d \in these => call'[d].cancelled
                      /\ call[d].cancelled => call'[d].cancelled
BY DEF CancelToken, TypeOK, Call

LEMMA Shared == ASSUME TypeOK, Locked, Closed, Agreed, [Next]_vars PROVE Locked' /\ Closed' /\ Agreed'
<1> USE LiveAssumption DEF TypeOK, consentVars, callOnly, Saving, Newest, Effective
<1>1. ASSUME UNCHANGED <<io, saver, setting, consent, choice>>,
             \A d \in Requests : call'[d].pc = "apply" => call[d].pc = "apply" /\ call'[d].seen = call[d].seen
      PROVE  Locked' /\ Closed' /\ Agreed'
  BY <1>1 DEF Locked, Closed, Agreed
<1>2. CASE RecordingStep \/ ClearHistory \/ (\E r \in Requests : Cancel(r)) \/ (\E enabled \in BOOLEAN : ShareDocuments(enabled))
  <2>1. UNCHANGED consentVars
    BY <1>2 DEF RecordingStep, Prepare, Stop, Cancel, ClearHistory, ShareDocuments
  <2>2. call' = call \/ CancelToken(Owner) \/ \E r \in Requests : CancelToken(Owner \cap {r})
    BY <1>2 DEF RecordingStep, Prepare, Stop, EndSession, Cancel, ClearHistory, ShareDocuments
  <2>3. \A d \in Requests : call'[d].pc = call[d].pc /\ call'[d].seen = call[d].seen
    BY <2>2, Token
  <2> QED
    BY <1>1, <2>1, <2>3
<1>3. ASSUME NEW c \in Requests,
             Ask(c) \/ Claim(c) \/ BuildPrompt(c) \/ Validate(c) \/ Send(c) \/ Reply(c) \/ Complete(c) \/ Return(c)
      PROVE  Locked' /\ Closed' /\ Agreed'
  <2>1. UNCHANGED <<io, saver, setting, consent, choice>>
    BY <1>3 DEF Ask, Claim, BuildPrompt, Validate, Send, Reply, Complete, Return
  <2>2. \A d \in Requests \ {c} : call'[d] = call[d]
    BY <1>3 DEF Ask, Claim, BuildPrompt, Validate, Send, Reply, Complete, Return, Goto, Load, DropLease
  <2>3. call'[c].pc # "apply"
    BY <1>3 DEF Ask, Claim, BuildPrompt, Validate, Send, Reply, Complete, Return, Goto, Load, DropLease, IdleCall, Call
  <2> QED
    BY <1>1, <2>1, <2>2, <2>3
<1>4. ASSUME NEW c \in Requests, Refused(c) \/ Fail(c) PROVE Locked' /\ Closed' /\ Agreed'
  <2>1. UNCHANGED <<saver, setting, consent, choice>> /\ io' = IF io = c THEN Nobody ELSE io
    BY <1>4 DEF Refused, Fail
  <2>2. call'[c].pc # "apply" /\ \A d \in Requests \ {c} : call'[d] = call[d]
    BY <1>4 DEF Refused, Fail, DropLease, IdleCall
  <2>3. Locked'
    BY <2>1, <2>2 DEF Locked
  <2> QED
    BY <2>1, <2>3 DEF Closed, Agreed
<1>5. ASSUME NEW c \in Requests, LoadFetch(c) PROVE Locked' /\ Closed' /\ Agreed'
  <2>1. io = Nobody /\ io' = c /\ UNCHANGED <<saver, setting, consent, choice>>
    BY <1>5 DEF LoadFetch
  <2>2. call'[c].seen = setting /\ \A d \in Requests \ {c} : call'[d] = call[d]
    BY <1>5 DEF LoadFetch, Call
  <2>3. Locked'
    BY <2>1, <2>2 DEF Locked
  <2> QED
    BY <2>1, <2>3 DEF Closed, Agreed
<1>6. ASSUME NEW c \in Requests, LoadApply(c) PROVE Locked' /\ Closed' /\ Agreed'
  <2>1. io = c /\ io' = Nobody /\ call[c].seen = setting /\ UNCHANGED <<saver, setting, choice>>
    BY <1>6 DEF LoadApply, Locked
  <2>2. \A d \in Requests : Loaded(c)[d].pc # "apply"
    <3>1. Loaded(c)[c].pc # "apply"
      BY DEF Loaded, Call
    <3>2. \A d \in Requests \ {c} : Loaded(c)[d] = call[d] /\ call[d].pc # "apply"
      BY <2>1 DEF Loaded, Locked
    <3> QED
      BY <3>1, <3>2
  <2>3. \A d \in Requests : call'[d].pc # "apply"
    <3>1. \A d \in Requests : Loaded(c)[d] \in Call
      BY Steps DEF Loaded, Call
    <3>2. \A d \in Requests : call'[d] \in {Loaded(c)[d], [Loaded(c)[d] EXCEPT !.cancelled = TRUE]}
      BY <1>6 DEF LoadApply, Loaded
    <3>3. \A x \in Call : [x EXCEPT !.cancelled = TRUE].pc = x.pc
      BY DEF Call
    <3> QED
      BY <2>2, <3>1, <3>2, <3>3
  <2>4. consent' = IF Fresh(c) THEN [consent EXCEPT !.sharing = call[c].seen] ELSE consent
    BY <1>6 DEF LoadApply
  <2>5. consent'.rev = consent.rev /\ consent'.pending = consent.pending /\ consent'.failed = consent.failed
    BY <2>4 DEF Consent
  <2>6. Locked'
    BY <2>1, <2>3 DEF Locked
  <2>7. Closed'
    BY <2>1, <2>5 DEF Closed
  <2>8. Agreed'
    BY <2>1, <2>4, <2>5 DEF Agreed, Fresh, Consent
  <2> QED
    BY <2>6, <2>7, <2>8
<1>7. ASSUME NEW s \in Savers, NEW enabled \in BOOLEAN, SaveBegin(s, enabled) PROVE Locked' /\ Closed' /\ Agreed'
  <2>1. saver' = [saver EXCEPT ![s] = [pc |-> "lock", enabled |-> enabled, rev |-> consent.rev + 1]]
    BY <1>7 DEF SaveBegin
  <2>2. consent'.rev = consent.rev + 1 /\ consent'.pending /\ choice' = enabled /\ UNCHANGED <<io, setting>>
    BY <1>7 DEF SaveBegin, Consent
  <2>3. \A d \in Requests : call'[d].pc = call[d].pc /\ call'[d].seen = call[d].seen
    BY <1>7, Token DEF SaveBegin
  <2>4. Locked'
    BY <2>1, <2>2, <2>3 DEF Locked
  <2>5. consent.rev \in Nat /\ \A t \in Savers : saver[t].rev \in Nat
    BY DEF Consent, Saver
  <2>6. Closed'
    BY <2>1, <2>2, <2>5 DEF Closed
  <2> QED
    BY <2>2, <2>4, <2>6 DEF Agreed
<1>8. ASSUME NEW s \in Savers, SaveLock(s) PROVE Locked' /\ Closed' /\ Agreed'
  <2>1. UNCHANGED <<consent, setting, call, choice>> /\ io = Nobody
    BY <1>8 DEF SaveLock
  <2>2. \/ saver[s].rev # consent.rev /\ saver' = [saver EXCEPT ![s] = IdleSaver] /\ UNCHANGED io
        \/ saver[s].rev = consent.rev /\ saver' = [saver EXCEPT ![s].pc = "write"] /\ io' = s
    BY <1>8 DEF SaveLock
  <2>3. \A t \in Savers \ {s} : saver'[t] = saver[t]
    BY <2>2
  <2>4. CASE saver[s].rev # consent.rev
    <3>1. saver'[s].pc = "idle" /\ UNCHANGED io
      BY <2>2, <2>4 DEF IdleSaver
    <3> QED
      BY <2>1, <2>3, <2>4, <3>1 DEF Locked, Closed, Agreed
  <2>5. CASE saver[s].rev = consent.rev
    <3>1. saver'[s].pc = "write" /\ saver'[s].rev = saver[s].rev /\ saver'[s].enabled = saver[s].enabled /\ io' = s
      BY <2>2, <2>5 DEF Saver
    <3>2. saver[s].pc = "lock"
      BY <1>8 DEF SaveLock
    <3>3. Locked'
      BY <2>1, <2>3, <3>1 DEF Locked
    <3>4. Closed'
      <4>1. consent.pending
        BY <2>5, <3>2 DEF Closed
      <4>2. \A t \in Savers : Saving(t)' <=> Saving(t)
        BY <2>3, <3>1, <3>2
      <4>3. \A t \in Savers : saver'[t].rev = saver[t].rev /\ saver'[t].enabled = saver[t].enabled
        BY <2>3, <3>1
      <4> QED
        BY <2>1, <4>1, <4>2, <4>3 DEF Closed
    <3> QED
      BY <2>1, <3>3, <3>4 DEF Agreed
  <2> QED
    BY <2>4, <2>5
<1>9. ASSUME NEW s \in Savers, SaveWrite(s) PROVE Locked' /\ Closed' /\ Agreed'
  <2>1. UNCHANGED <<consent, io, call, choice>> /\ io = s /\ setting' = saver[s].enabled /\ saver[s].pc = "write"
    BY <1>9 DEF SaveWrite, Locked
  <2>2. /\ saver'[s].pc = "apply" /\ saver'[s].rev = saver[s].rev /\ saver'[s].enabled = saver[s].enabled
        /\ \A t \in Savers \ {s} : saver'[t] = saver[t]
    BY <1>9 DEF SaveWrite, Saver
  <2>3. consent.pending
    BY <2>1 DEF Closed
  <2>4. Locked'
    BY <2>1, <2>2 DEF Locked
  <2>5. Closed'
    BY <2>1, <2>2, <2>3 DEF Closed
  <2> QED
    BY <2>1, <2>3, <2>4, <2>5 DEF Agreed
<1>10. ASSUME NEW s \in Savers, SaveApply(s) \/ SaveFails(s) PROVE Locked' /\ Closed' /\ Agreed'
  <2>1. io = s /\ io' = Nobody /\ UNCHANGED <<setting, call, choice>> /\ saver[s].pc \in {"write", "apply"}
    BY <1>10 DEF SaveApply, SaveFails, Locked
  <2>2. saver'[s].pc = "idle" /\ \A t \in Savers \ {s} : saver'[t] = saver[t] /\ saver[t].pc \in {"idle", "lock"}
    <3>1. saver' = [saver EXCEPT ![s] = IdleSaver]
      BY <1>10 DEF SaveApply, SaveFails
    <3>2. \A t \in Savers \ {s} : saver[t].pc \notin {"write", "apply"}
      BY <2>1 DEF Locked
    <3> QED
      BY <3>1, <3>2 DEF IdleSaver, Saver
  <2>3. consent'.rev = consent.rev /\ (~Newest(s) => consent' = consent)
    BY <1>10 DEF SaveApply, SaveFails, Consent
  <2>4. Newest(s) => /\ ~consent'.pending
                     /\ consent'.failed \/ (setting = saver[s].enabled /\ consent'.sharing = saver[s].enabled)
    BY <1>10 DEF SaveApply, SaveFails, Consent, Locked
  <2>5. Locked'
    BY <2>1, <2>2 DEF Locked
  <2>6. Closed'
    <3>1. CASE Newest(s)
      <4>1. \A t \in Savers \ {s} : saver[t].pc # "idle" => saver[t].rev # consent.rev
        BY <2>1, <3>1 DEF Closed
      <4>2. ~consent'.pending
        BY <2>4, <3>1
      <4> QED
        BY <2>2, <2>3, <4>1, <4>2 DEF Closed
    <3>2. CASE ~Newest(s)
      BY <2>1, <2>2, <2>3, <3>2 DEF Closed
    <3> QED
      BY <3>1, <3>2
  <2>7. Agreed'
    <3>1. CASE Newest(s)
      BY <2>1, <2>4, <3>1 DEF Closed, Agreed
    <3>2. CASE ~Newest(s)
      BY <2>1, <2>3, <3>2 DEF Agreed
    <3> QED
      BY <3>1, <3>2
  <2> QED
    BY <2>5, <2>6, <2>7
<1>11. CASE UNCHANGED vars
  BY <1>1, <1>11 DEF vars
<1> QED
  BY <1>2, <1>3, <1>4, <1>5, <1>6, <1>7, <1>8, <1>9, <1>10, <1>11 DEF Next, UserStep, CallStep, SaverStep

(* The calls: phases, the slot and its lease.                                *)
LEMMA Leases == ASSUME TypeOK, Phases, Slot, [Next]_vars PROVE Phases' /\ Slot'
<1> USE LiveAssumption DEF TypeOK, consentVars, callOnly
<1>1. ASSUME NEW these, CancelToken(these),
             session' = session \/ (session'.slot = Nobody /\ Owner \subseteq these)
                     \/ (session'.slot = session.slot /\ session'.gen = session.gen)
      PROVE  Phases' /\ Slot'
  <2>1. \A d \in Requests : call'[d].pc = call[d].pc /\ call'[d].phase = call[d].phase /\ call'[d].gen = call[d].gen
    BY <1>1, Token
  <2>5. \A d \in Requests : call[d].cancelled \/ d \in these => call'[d].cancelled
    BY <1>1, Token
  <2>2. Phases'
    BY <2>1 DEF Phases
  <2>3. Kept'
    <3>1. session'.slot = Nobody \/ (session'.slot = session.slot /\ session'.gen = session.gen)
      BY <1>1
    <3>2. session.slot # Nobody => session.slot \in Requests
      BY DEF Session
    <3> QED
      BY <2>1, <3>1, <3>2 DEF Slot, Kept
  <2>4. Lost'
    <3> SUFFICES ASSUME NEW d \in Requests, call[d].phase > 1, session'.slot # d PROVE call[d].cancelled \/ d \in these
      BY <2>1, <2>5 DEF Lost
    <3>1. CASE session.slot = d
      BY <1>1, <3>1 DEF Owner
    <3>2. CASE session.slot # d
      BY <3>2 DEF Slot, Lost
    <3> QED
      BY <3>1, <3>2
  <2> QED
    BY <2>2, <2>3, <2>4 DEF Slot
<1>2. CASE RecordingStep
  <2>1. CancelToken(Owner) /\ session'.slot = Nobody
    <3>1. ASSUME NEW transcribes \in BOOLEAN, Prepare(transcribes) PROVE CancelToken(Owner) /\ session'.slot = Nobody
      BY <3>1, Blank DEF Prepare, Session, NoSession
    <3>2. CASE Stop
      BY <3>2 DEF Stop, EndSession, NoSession
    <3> QED
      BY <1>2, <3>1, <3>2 DEF RecordingStep
  <2> QED
    BY <1>1, <2>1
<1>3. CASE UserStep
  <2>1. ASSUME NEW r \in Requests, Cancel(r) PROVE Phases' /\ Slot'
    BY <1>1, <2>1 DEF Cancel
  <2>2. CASE ClearHistory
    BY <1>1, <2>2 DEF ClearHistory
  <2>3. ASSUME NEW enabled \in BOOLEAN, ShareDocuments(enabled) PROVE Phases' /\ Slot'
    <3>1. session'.slot = session.slot /\ session'.gen = session.gen
      BY <2>3 DEF ShareDocuments, Session
    <3>2. CASE CancelToken(Owner)
      BY <1>1, <3>1, <3>2
    <3>3. CASE call' = call
      BY <3>1, <3>3 DEF Phases, Slot, Kept, Lost, Session
    <3> QED
      BY <2>3, <3>2, <3>3 DEF ShareDocuments
  <2>4. ASSUME NEW s \in Savers, NEW enabled \in BOOLEAN, SaveBegin(s, enabled) PROVE Phases' /\ Slot'
    BY <1>1, <2>4 DEF SaveBegin
  <2> QED
    BY <1>3, <2>1, <2>2, <2>3, <2>4 DEF UserStep
<1>4. ASSUME NEW c \in Requests, session' = session, \A d \in Requests \ {c} : call'[d] = call[d],
             call'[c].phase = call[c].phase \/ call'[c].phase > 1, call[c].phase > 1,
             call'[c].gen = call[c].gen /\ call'[c].cancelled = call[c].cancelled,
             call'[c].pc \in {"fetch", "apply", "validate", "send", "wait", "complete", "return"}
      PROVE  Phases' /\ Slot'
  <2>1. call[c].phase \in 0 .. 3 /\ call'[c].phase > 1
    BY <1>4 DEF Call
  <2>2. call[c].gen # 0
    BY <1>4, <2>1 DEF Phases
  <2>3. call'[c].phase # 0
    BY <2>1, <1>4 DEF Call
  <2>11. session.slot # Nobody => session.slot \in Requests
    BY DEF Session
  <2>12. Phases'
    BY <1>4, <2>1, <2>2, <2>3 DEF Phases
  <2>13. Kept'
    BY <1>4, <2>1, <2>2, <2>3, <2>11 DEF Slot, Kept
  <2>14. Lost'
    BY <1>4, <2>1, <2>2, <2>3 DEF Slot, Lost
  <2> QED
    BY <2>12, <2>13, <2>14 DEF Slot
<1>5. ASSUME NEW c \in Requests, BuildPrompt(c) \/ Validate(c) \/ Send(c) \/ Reply(c) \/ Complete(c)
      PROVE  Phases' /\ Slot'
  <2>1. session' = session /\ \A d \in Requests \ {c} : call'[d] = call[d]
    BY <1>5 DEF BuildPrompt, Validate, Send, Reply, Complete, Goto, Load
  <2>2. call[c].phase > 1
    BY <1>5 DEF BuildPrompt, Validate, Send, Reply, Complete, Phases
  <2>3. /\ call'[c].phase = call[c].phase \/ call'[c].phase \in {2, 3}
        /\ call'[c].gen = call[c].gen /\ call'[c].cancelled = call[c].cancelled
        /\ call'[c].pc \in {"fetch", "send", "wait", "complete", "return"}
    BY <1>5 DEF BuildPrompt, Validate, Send, Reply, Complete, Goto, Load, Call
  <2> QED
    BY <1>4, <2>1, <2>2, <2>3
<1>6. ASSUME NEW c \in Requests, LoadFetch(c) PROVE Phases' /\ Slot'
  <2>1. session' = session /\ \A d \in Requests \ {c} : call'[d] = call[d]
    BY <1>6 DEF LoadFetch
  <2>2. /\ call[c].pc = "fetch" /\ call'[c].pc = "apply" /\ call'[c].phase = call[c].phase
        /\ call'[c].gen = call[c].gen /\ call'[c].cancelled = call[c].cancelled
    BY <1>6 DEF LoadFetch, Call
  <2> QED
    BY <2>1, <2>2 DEF Phases, Slot, Kept, Lost, Session
<1>7. ASSUME NEW c \in Requests, LoadApply(c) PROVE Phases' /\ Slot'
  <2>1. session' = session /\ call[c].pc = "apply"
    BY <1>7 DEF LoadApply
  <2>2. \A d \in Requests : Loaded(c)[d] \in Call
    BY Steps DEF Loaded, Call
  <2>3. \A d \in Requests \ {c} : Loaded(c)[d] = call[d]
    BY DEF Loaded
  <2>4. /\ Loaded(c)[c].pc = IF call[c].phase = 1 THEN "claim" ELSE "validate"
        /\ Loaded(c)[c].phase = call[c].phase /\ Loaded(c)[c].gen = call[c].gen
        /\ Loaded(c)[c].cancelled = call[c].cancelled
    BY DEF Loaded, Call
  <2>5. \A d \in Requests : call'[d] \in {Loaded(c)[d], [Loaded(c)[d] EXCEPT !.cancelled = TRUE]}
    BY <1>7 DEF LoadApply, Loaded
  <2>6. \A x \in Call : LET y == [x EXCEPT !.cancelled = TRUE] IN
          y.pc = x.pc /\ y.phase = x.phase /\ y.gen = x.gen /\ y.cancelled
    BY DEF Call
  <2>7. \A d \in Requests : /\ call'[d].pc = Loaded(c)[d].pc /\ call'[d].phase = Loaded(c)[d].phase
                           /\ call'[d].gen = Loaded(c)[d].gen /\ (Loaded(c)[d].cancelled => call'[d].cancelled)
    BY <2>2, <2>5, <2>6
  <2>8. call[c].phase \in 0 .. 3 /\ call[c].phase # 0
    BY <2>1 DEF Phases, Call
  <2>9. Phases'
    BY <2>1, <2>3, <2>4, <2>7, <2>8 DEF Phases
  <2>10. Slot'
    BY <2>1, <2>3, <2>4, <2>7 DEF Slot, Kept, Lost, Session
  <2> QED
    BY <2>9, <2>10
<1>8. ASSUME NEW c \in Requests, Ask(c) PROVE Phases' /\ Slot'
  <2>1. session' = session /\ \A d \in Requests \ {c} : call'[d] = call[d]
    BY <1>8 DEF Ask
  <2>2. call[c].phase = 0 /\ call'[c].pc = "fetch" /\ call'[c].phase = 1 /\ call'[c].gen # 0
    BY <1>8 DEF Ask, Phases
  <2>11. session.slot # Nobody => session.slot \in Requests
    BY DEF Session
  <2>12. Phases'
    BY <2>1, <2>2 DEF Phases
  <2>13. Kept'
    BY <2>1, <2>2, <2>11 DEF Slot, Kept
  <2>14. Lost'
    BY <2>1, <2>2 DEF Slot, Lost
  <2> QED
    BY <2>12, <2>13, <2>14 DEF Slot
<1>9. ASSUME NEW c \in Requests, Claim(c) PROVE Phases' /\ Slot'
  <2>1. \A d \in Requests \ {c} : call'[d] = call[d]
    BY <1>9 DEF Claim
  <2>2. session'.slot = c /\ session'.gen = session.gen /\ session.slot = Nobody
    BY <1>9 DEF Claim, Session
  <2>3. /\ call[c].pc = "claim" /\ call[c].gen = session.gen
        /\ call'[c].pc = "resolve" /\ call'[c].phase = 2 /\ call'[c].gen = call[c].gen
    BY <1>9 DEF Claim, Call
  <2> QED
    BY <2>1, <2>2, <2>3 DEF Phases, Slot, Kept, Lost
<1>10. ASSUME NEW c \in Requests, Refused(c) PROVE Phases' /\ Slot'
  <2>1. session' = session /\ \A d \in Requests \ {c} : call'[d] = call[d]
    BY <1>10 DEF Refused
  <2>2. call[c].phase = 1 /\ call'[c].pc = "idle" /\ call'[c].phase = 0
    BY <1>10 DEF Refused, IdleCall
  <2> QED
    BY <2>1, <2>2 DEF Phases, Slot, Kept, Lost, Session
<1>11. ASSUME NEW c \in Requests, Return(c) \/ Fail(c) PROVE Phases' /\ Slot'
  <2>1. \A d \in Requests \ {c} : call'[d] = call[d]
    BY <1>11 DEF Return, Fail, DropLease
  <2>2. call[c].phase > 1 /\ call'[c].pc = "idle" /\ call'[c].phase = 0
    BY <1>11 DEF Return, Fail, DropLease, IdleCall, HasLease, Phases
  <2>3. /\ session.slot = c => session'.slot = Nobody
        /\ session.slot # c => session' = session
    BY <1>11 DEF Return, Fail, DropLease, OwnSlot, Slot, Kept, Session
  <2>4. Phases'
    BY <2>1, <2>2 DEF Phases
  <2>5. Kept'
    <3>1. session.slot # Nobody => session.slot \in Requests
      BY DEF Session
    <3> QED
      BY <2>1, <2>3, <3>1 DEF Slot, Kept
  <2>6. Lost'
    <3>1. \A d \in Requests \ {c} : session'.slot # d => session.slot # d
      BY <2>3
    <3> QED
      BY <2>1, <2>2, <3>1 DEF Slot, Lost
  <2> QED
    BY <2>4, <2>5, <2>6 DEF Slot
<1>12. CASE UNCHANGED <<session, call>>
  BY <1>12 DEF Phases, Slot, Kept, Lost
<1> QED
  BY <1>2, <1>3, <1>5, <1>6, <1>7, <1>8, <1>9, <1>10, <1>11, <1>12
  DEF Next, CallStep, SaverStep, SaveLock, SaveWrite, SaveApply, SaveFails, vars

(* The list of cancellations gains one request at most.                      *)
LEMMA Remembered == ASSUME early \in Seq(Requests), NEW r \in Requests
                    PROVE  Members(Remember(r)) \subseteq Members(early) \cup {r}
<1>1. CASE Remember(r) = early
  BY <1>1
<1>2. CASE Remember(r) = Append(early, r)
  BY <1>2 DEF Members
<1>3. CASE Remember(r) = Append(Tail(early), r) /\ Len(early) = EarlyCap
  <2>1. Len(early) > 0
    BY LiveAssumption, <1>3
  <2>2. Tail(early) \in Seq(Requests) /\ Len(Tail(early)) = Len(early) - 1
        /\ \A i \in 1 .. Len(early) - 1 : Tail(early)[i] = early[i + 1]
    BY <2>1
  <2>3. ASSUME NEW i \in 1 .. Len(Remember(r)) PROVE Remember(r)[i] \in Members(early) \cup {r}
    <3>1. Len(Remember(r)) = Len(early)
      BY <1>3, <2>1, <2>2
    <3>2. CASE i = Len(early)
      BY <1>3, <2>1, <2>2, <3>2
    <3>3. CASE i # Len(early)
      <4>1. i \in 1 .. Len(early) - 1 /\ i + 1 \in 1 .. Len(early)
        BY <3>1, <3>3
      <4>2. Remember(r)[i] = early[i + 1]
        BY <1>3, <2>2, <4>1
      <4> QED
        BY <4>1, <4>2 DEF Members
    <3> QED
      BY <3>2, <3>3
  <2> QED
    BY <2>3 DEF Members
<1> QED
  BY <1>1, <1>2, <1>3 DEF Remember

(* A withdrawal takes the token of every call it concerns.                   *)
LEMMA Withdrawals == ASSUME TypeOK, Phases, Slot, Withdrawn, [Next]_vars PROVE Withdrawn'
<1> USE DEF TypeOK, consentVars, callOnly
<1>1. ASSUME NEW these, NEW those \in SUBSET Requests, CancelToken(these), NowVoid(those),
             Owner \cap those \subseteq these,
             \A c \in Members(early') : c \in Members(early) \/ c \in those
      PROVE  Withdrawn'
  <2>1. \A d \in Requests : call'[d].phase = call[d].phase /\ (call[d].cancelled \/ d \in these => call'[d].cancelled)
    BY <1>1, Token
  <2>2. ASSUME NEW c \in those, call[c].phase > 1 PROVE call'[c].cancelled
    <3>1. CASE session.slot = c
      BY <1>1, <2>1, <3>1 DEF Owner
    <3>2. CASE session.slot # c
      BY <2>1, <2>2, <3>2 DEF Slot, Lost
    <3> QED
      BY <3>1, <3>2
  <2>3. \A c \in void' : c \in void \/ (c \in those /\ call[c].phase > 1)
    BY <1>1 DEF NowVoid, HasLease
  <2>4. \A c \in void' : call'[c].phase > 1 /\ call'[c].cancelled
    BY <2>1, <2>2, <2>3 DEF Withdrawn
  <2>5. \A c \in Requests : c \in Members(early') /\ call'[c].phase > 1 => call'[c].cancelled
    BY <1>1, <2>1, <2>2 DEF Withdrawn
  <2>6. Members(early)' = Members(early')
    BY DEF Members
  <2> QED
    BY <2>4, <2>5, <2>6 DEF Withdrawn
<1>2. CASE RecordingStep
  <2>1. CancelToken(Owner) /\ NowVoid(Requests) /\ early' = <<>>
    BY <1>2 DEF RecordingStep, Prepare, Stop, EndSession
  <2>2. Members(early') = {}
    BY <2>1 DEF Members
  <2> QED
    BY <1>1, <2>1, <2>2
<1>3. CASE UserStep
  <2>1. ASSUME NEW r \in Requests, Cancel(r) PROVE Withdrawn'
    BY <1>1, <2>1, Remembered DEF Cancel
  <2>2. CASE ClearHistory
    BY <1>1, <2>2 DEF ClearHistory
  <2>3. ASSUME NEW enabled \in BOOLEAN, ShareDocuments(enabled) PROVE Withdrawn'
    <3>1. CASE CancelToken(Owner) /\ NowVoid(Requests)
      BY <1>1, <2>3, <3>1 DEF ShareDocuments
    <3>2. CASE UNCHANGED <<call, void>>
      BY <2>3, <3>2 DEF ShareDocuments, Withdrawn, Members
    <3> QED
      BY <2>3, <3>1, <3>2 DEF ShareDocuments
  <2>4. ASSUME NEW s \in Savers, NEW enabled \in BOOLEAN, SaveBegin(s, enabled) PROVE Withdrawn'
    BY <1>1, <2>4 DEF SaveBegin
  <2> QED
    BY <1>3, <2>1, <2>2, <2>3, <2>4 DEF UserStep
<1>4. ASSUME NEW c \in Requests, UNCHANGED <<early, void>>, \A d \in Requests \ {c} : call'[d] = call[d],
             \/ call'[c].phase <= 1 /\ c \notin void
             \/ call[c].phase > 1 /\ call'[c].phase > 1 /\ call'[c].cancelled = call[c].cancelled
             \/ c \notin void /\ c \notin Members(early)
      PROVE  Withdrawn'
  <2>1. call'[c].phase \in 0 .. 3
    <3>1. call' \in [Requests -> Call]
      BY StepTypes
    <3> QED
      BY <3>1 DEF Call
  <2>2. Members(early)' = Members(early)
    BY <1>4 DEF Members
  <2>3. ASSUME NEW d \in Requests, d # c
        PROVE  /\ d \in void' => call'[d].phase > 1 /\ call'[d].cancelled
               /\ d \in Members(early)' /\ call'[d].phase > 1 => call'[d].cancelled
    BY <1>4, <2>2, <2>3 DEF Withdrawn
  <2>4. c \in void' => call'[c].phase > 1 /\ call'[c].cancelled
    BY <1>4 DEF Withdrawn
  <2>5. CASE call'[c].phase <= 1 /\ c \notin void
    BY <1>4, <2>1, <2>2, <2>3, <2>5 DEF Withdrawn
  <2>6. CASE ~(call'[c].phase <= 1 /\ c \notin void)
    BY <1>4, <2>2, <2>3, <2>4, <2>6 DEF Withdrawn
  <2> QED
    BY <2>5, <2>6
<1>5. ASSUME NEW c \in Requests, Ask(c) \/ Claim(c) \/ Refused(c) PROVE Withdrawn'
  <2>1. UNCHANGED <<early, void>> /\ \A d \in Requests \ {c} : call'[d] = call[d]
    BY <1>5 DEF Ask, Claim, Refused
  <2>2. call[c].phase <= 1
    BY <1>5 DEF Ask, Claim, Refused, Phases
  <2>3. c \notin void
    <3>1. call[c].phase \in 0 .. 3
      BY DEF Call
    <3> QED
      BY <2>2, <3>1 DEF Withdrawn
  <2>4. call'[c].phase <= 1 \/ c \notin Members(early)
    BY <1>5 DEF Ask, Claim, Refused, IdleCall
  <2> QED
    BY <1>4, <2>1, <2>3, <2>4
<1>6. ASSUME NEW c \in Requests,
             LoadFetch(c) \/ BuildPrompt(c) \/ Validate(c) \/ Send(c) \/ Reply(c) \/ Complete(c)
      PROVE  Withdrawn'
  <2>1. UNCHANGED <<early, void>> /\ \A d \in Requests \ {c} : call'[d] = call[d]
    BY <1>6 DEF LoadFetch, BuildPrompt, Validate, Send, Reply, Complete, Goto, Load
  <2>2. /\ call'[c].cancelled = call[c].cancelled
        /\ call'[c].phase = call[c].phase \/ (call[c].phase > 1 /\ call'[c].phase > 1)
    BY <1>6 DEF LoadFetch, BuildPrompt, Validate, Send, Reply, Complete, Goto, Load, Call, Phases
  <2>3. call[c].phase \in 0 .. 3 /\ call'[c].phase \in 0 .. 3
    BY <1>6, StepTypes DEF Call, LoadFetch, BuildPrompt, Validate, Send, Reply, Complete, Goto, Load
  <2>4. call[c].phase <= 1 => c \notin void
    BY <2>3 DEF Withdrawn
  <2> QED
    BY <1>4, <2>1, <2>2, <2>3, <2>4
<1>7. ASSUME NEW c \in Requests, LoadApply(c) PROVE Withdrawn'
  <2>1. UNCHANGED <<early, void>>
    BY <1>7 DEF LoadApply
  <2>2. \A d \in Requests : Loaded(c)[d] \in Call
    BY Steps DEF Loaded, Call
  <2>3. \A d \in Requests : Loaded(c)[d].phase = call[d].phase /\ Loaded(c)[d].cancelled = call[d].cancelled
    BY DEF Loaded, Call
  <2>4. \A d \in Requests : call'[d] \in {Loaded(c)[d], [Loaded(c)[d] EXCEPT !.cancelled = TRUE]}
    BY <1>7 DEF LoadApply, Loaded
  <2>5. \A x \in Call : [x EXCEPT !.cancelled = TRUE].phase = x.phase /\ [x EXCEPT !.cancelled = TRUE].cancelled
    BY DEF Call
  <2>6. \A d \in Requests : call'[d].phase = call[d].phase /\ (call[d].cancelled => call'[d].cancelled)
    BY <2>2, <2>3, <2>4, <2>5
  <2> QED
    BY <2>1, <2>6 DEF Withdrawn, Members
<1>8. ASSUME NEW c \in Requests, Return(c) \/ Fail(c) PROVE Withdrawn'
  <2>1. early' = early /\ void' = void \ {c} /\ \A d \in Requests \ {c} : call'[d] = call[d]
    BY <1>8 DEF Return, Fail, DropLease
  <2>2. call'[c].phase = 0
    BY <1>8 DEF Return, Fail, DropLease, IdleCall
  <2> QED
    BY <2>1, <2>2 DEF Withdrawn, Members
<1>9. CASE UNCHANGED <<early, void, call>>
  BY <1>9 DEF Withdrawn, Members
<1> QED
  BY <1>2, <1>3, <1>5, <1>6, <1>7, <1>8, <1>9
  DEF Next, CallStep, SaverStep, SaveLock, SaveWrite, SaveApply, SaveFails, vars

(* What is kept of the history are entries it had, in their order.           *)
LEMMA KeepsEntries == ASSUME NEW h \in Seq(Entry)
                      PROVE  \E k \in {0, 1} :
                        /\ Len(Keep(h)) = Len(h) - k
                        /\ \A i \in 1 .. Len(Keep(h)) : i + k \in 1 .. Len(h) /\ Keep(h)[i] = h[i + k]
<1>1. CASE Keep(h) = h
  BY <1>1
<1>2. CASE Keep(h) # h
  <2>1. Keep(h) = Tail(h) /\ Len(h) > HistoryCap
    BY <1>2 DEF Keep
  <2>2. Len(h) \in Nat /\ Len(h) > 0
    BY <2>1, LiveAssumption
  <2>3. Len(Keep(h)) = Len(h) - 1 /\ \A i \in 1 .. Len(h) - 1 : Keep(h)[i] = h[i + 1] /\ i + 1 \in 1 .. Len(h)
    BY <2>1, <2>2
  <2> QED
    BY <2>3
<1> QED
  BY <1>1, <1>2

(* The history has the answers of its own session, each once.                *)
LEMMA Histories == ASSUME TypeOK, Phases, Slot, Answers, [Next]_vars PROVE Answers'
<1> USE LiveAssumption DEF TypeOK, consentVars, callOnly
<1>0. session.slot # Nobody => session.slot \in Requests
  BY DEF Session
<1>1. ASSUME history' = history, session'.gen = session.gen, session'.slot \in {session.slot, Nobody},
             session'.slot # Nobody /\ call[session.slot].pc = "return" => call'[session.slot].pc = "return"
      PROVE  Answers'
  BY <1>1 DEF Answers, Answered
<1>2. CASE RecordingStep
  <2>1. history' = <<>>
    BY <1>2 DEF RecordingStep, Prepare, Stop, EndSession
  <2>2. session'.slot = Nobody
    <3>1. ASSUME NEW transcribes \in BOOLEAN, Prepare(transcribes) PROVE session'.slot = Nobody
      BY <3>1, Blank DEF Prepare, Session, NoSession
    <3> QED
      BY <1>2, <3>1 DEF RecordingStep, Stop, EndSession, NoSession
  <2> QED
    BY <2>1, <2>2 DEF Answers
<1>3. CASE UserStep
  <2>1. session'.gen = session.gen /\ session'.slot = session.slot
    BY <1>3 DEF UserStep, Cancel, ClearHistory, ShareDocuments, SaveBegin, Session
  <2>2. \A d \in Requests : call'[d].pc = call[d].pc
    <3>1. call' = call \/ \E these : CancelToken(these)
      BY <1>3 DEF UserStep, Cancel, ClearHistory, ShareDocuments, SaveBegin
    <3> QED
      BY <3>1, Token
  <2>3. CASE history' = history
    BY <1>0, <1>1, <2>1, <2>2, <2>3
  <2>4. CASE history' = <<>>
    BY <2>4 DEF Answers, Answered
  <2> QED
    BY <1>3, <2>3, <2>4 DEF UserStep, Cancel, ClearHistory, ShareDocuments, SaveBegin
<1>4. ASSUME NEW c \in Requests,
             Ask(c) \/ LoadFetch(c) \/ Refused(c) \/ BuildPrompt(c) \/ Validate(c) \/ Send(c) \/ Reply(c)
      PROVE  Answers'
  <2>1. UNCHANGED <<history, session>> /\ \A d \in Requests \ {c} : call'[d] = call[d]
    BY <1>4 DEF Ask, LoadFetch, Refused, BuildPrompt, Validate, Send, Reply, Goto, Load
  <2>2. call[c].pc # "return" \/ call[c].phase = 1
    BY <1>4 DEF Ask, LoadFetch, Refused, BuildPrompt, Validate, Send, Reply
  <2>3. call[c].pc # "return"
    BY <2>2 DEF Phases
  <2> QED
    BY <1>0, <1>1, <2>1, <2>3
<1>5. ASSUME NEW c \in Requests, LoadApply(c) PROVE Answers'
  <2>1. UNCHANGED <<history, session>> /\ call[c].pc = "apply"
    BY <1>5 DEF LoadApply
  <2>2. \A d \in Requests : Loaded(c)[d] \in Call
    BY Steps DEF Loaded, Call
  <2>3. \A d \in Requests \ {c} : Loaded(c)[d] = call[d]
    BY DEF Loaded
  <2>4. \A d \in Requests : call'[d] \in {Loaded(c)[d], [Loaded(c)[d] EXCEPT !.cancelled = TRUE]}
    BY <1>5 DEF LoadApply, Loaded
  <2>5. \A x \in Call : [x EXCEPT !.cancelled = TRUE].pc = x.pc
    BY DEF Call
  <2>6. \A d \in Requests : call[d].pc = "return" => call'[d].pc = "return"
    BY <2>1, <2>2, <2>3, <2>4, <2>5
  <2> QED
    BY <1>0, <1>1, <2>1, <2>6
<1>6. ASSUME NEW c \in Requests, Claim(c) PROVE Answers'
  <2>1. session'.slot = c /\ session'.gen = session.gen /\ history' = history /\ c \notin Answered
    BY <1>6 DEF Claim, Session
  <2> QED
    BY <2>1 DEF Answers, Answered
<1>7. ASSUME NEW c \in Requests, Return(c) \/ Fail(c) PROVE Answers'
  <2>1. history' = history /\ \A d \in Requests \ {c} : call'[d] = call[d]
    BY <1>7 DEF Return, Fail, DropLease
  <2>2. session'.gen = session.gen /\ session'.slot \in {session.slot, Nobody} \ {c}
    BY <1>7 DEF Return, Fail, DropLease, OwnSlot, HasLease, Slot, Kept, Session
  <2> QED
    BY <1>0, <1>1, <2>1, <2>2
<1>8. ASSUME NEW c \in Requests, Complete(c) PROVE Answers'
  <2> DEFINE h == Append(history, [req |-> c, gen |-> call[c].gen])
  <2>1. /\ session.slot = c /\ session.gen = call[c].gen /\ call[c].pc = "complete"
        /\ UNCHANGED session /\ history' = Keep(h)
    BY <1>8 DEF Complete, Deliverable, Valid
  <2>2. call'[c].pc = "return"
    BY <1>8 DEF Complete, Goto, Call
  <2>3. h \in Seq(Entry)
    <3>1. call[c].gen \in 1 .. MaxSessions
      BY <2>1 DEF Phases, Call
    <3> QED
      BY <3>1 DEF Entry
  <2>4. /\ \A i \in 1 .. Len(h) : h[i].gen = session.gen
        /\ \A i, j \in 1 .. Len(h) : h[i].req = h[j].req => i = j
    <3>1. Len(h) = Len(history) + 1 /\ h[Len(h)] = [req |-> c, gen |-> session.gen]
          /\ \A i \in 1 .. Len(history) : h[i] = history[i]
      BY <2>1
    <3>2. \A i \in 1 .. Len(history) : history[i].req # c /\ history[i].gen = session.gen
      BY <2>1 DEF Answers, Answered
    <3> HIDE DEF h
    <3>3. \A i \in 1 .. Len(h) : i = Len(h) \/ i \in 1 .. Len(history)
      BY <3>1
    <3>4. \A i \in 1 .. Len(h) : h[i].gen = session.gen
      BY <3>1, <3>2, <3>3
    <3>5. \A i, j \in 1 .. Len(history) : history[i].req = history[j].req => i = j
      BY DEF Answers
    <3>6. h[Len(h)].req = c
      BY <3>1
    <3>7. ASSUME NEW i \in 1 .. Len(h), NEW j \in 1 .. Len(h), h[i].req = h[j].req PROVE i = j
      <4>1. CASE i \in 1 .. Len(history) /\ j \in 1 .. Len(history)
        BY <3>1, <3>5, <3>7, <4>1
      <4>2. CASE i = Len(h) /\ j \in 1 .. Len(history)
        BY <3>1, <3>2, <3>6, <3>7, <4>2
      <4>3. CASE j = Len(h) /\ i \in 1 .. Len(history)
        BY <3>1, <3>2, <3>6, <3>7, <4>3
      <4> QED
        BY <3>3, <4>1, <4>2, <4>3
    <3> QED
      BY <3>4, <3>7
  <2> HIDE DEF h
  <2>5. PICK k \in {0, 1} : /\ Len(Keep(h)) = Len(h) - k
                           /\ \A i \in 1 .. Len(Keep(h)) : i + k \in 1 .. Len(h) /\ Keep(h)[i] = h[i + k]
    BY <2>3, KeepsEntries
  <2>6. \A i \in 1 .. Len(history') : i + k \in 1 .. Len(h) /\ history'[i] = h[i + k]
    BY <2>1, <2>5
  <2>7. \A i \in 1 .. Len(history') : history'[i].gen = session'.gen
    BY <2>1, <2>4, <2>6
  <2>8. ASSUME NEW i \in 1 .. Len(history'), NEW j \in 1 .. Len(history'),
               history'[i].req = history'[j].req
        PROVE  i = j
    <3>1. i + k \in 1 .. Len(h) /\ j + k \in 1 .. Len(h) /\ h[i + k].req = h[j + k].req
      BY <2>6, <2>8
    <3>2. i + k = j + k
      BY <2>4, <3>1
    <3> QED
      BY <3>2
  <2> QED
    BY <2>1, <2>2, <2>7, <2>8 DEF Answers
<1>9. CASE UNCHANGED <<session, history, call>>
  BY <1>9 DEF Answers, Answered
<1> QED
  BY <1>2, <1>3, <1>4, <1>5, <1>6, <1>7, <1>8, <1>9
  DEF Next, CallStep, SaverStep, SaveLock, SaveWrite, SaveApply, SaveFails, vars

LEMMA Invariant == Spec => []IInv
<1>1. IInv /\ [Next]_vars => IInv'
  BY StepTypes, Shared, Leases, Withdrawals, Histories DEF IInv
<1> QED
  BY InitInv, <1>1, PTL DEF Spec

(* The session, the consent and the calls keep their types, and history and  *)
(* remembered cancellations their bounds, for any constants.                 *)
THEOREM LiveTypes == Spec => []TypeOK
<1>1. IInv => TypeOK
  BY DEF IInv
<1> QED
  BY <1>1, Invariant, PTL

(* Sharing is on only if that was the user's last word, however saves, loads *)
(* and failed writes interleave (save_sharing, load_sharing).                *)
THEOREM ConsentIsKept == Spec => []ConsentKept
<1>1. IInv => ConsentKept
  BY DEF IInv, Closed, Agreed, Saving, ConsentKept
<1> QED
  BY <1>1, Invariant, PTL

(* A session keeps the answers to its own questions, each once, and its slot *)
(* belongs to a call that still holds the lease (claim, complete, LiveLease). *)
THEOREM HistoryIsOwn == Spec => []OwnHistory
<1>1. IInv => OwnHistory
  <2> SUFFICES ASSUME IInv PROVE OwnHistory
    OBVIOUS
  <2>1. ASSUME session.slot # Nobody PROVE HasLease(session.slot) \/ call[session.slot].pc = "return"
    <3>1. session.slot \in Requests /\ call[session.slot].phase > 1
      BY <2>1 DEF IInv, TypeOK, Session, Slot, Kept
    <3>2. call[session.slot].pc \notin {"idle", "claim"}
      BY <3>1 DEF IInv, Phases
    <3> QED
      BY <3>1, <3>2 DEF IInv, TypeOK, Call, HasLease
  <2> QED
    BY <2>1 DEF IInv, Answers, Slot, Kept, OwnHistory
<1> QED
  BY <1>1, Invariant, PTL

(* No text leaves and no answer is delivered for a call that was withdrawn   *)
(* after it claimed the slot, even if consent has come back since.           *)
THEOREM OnlyWantedSent == Spec => OnlyWanted
<1>1. IInv /\ [Next]_vars => [Wanted]_vars
  <2> DEFINE Sends(c) == call[c].pc = "send" /\ call'[c].pc = "wait"
             Delivers(c) == call[c].pc = "complete" /\ call'[c].pc = "return"
             Moves(c) == Sends(c) \/ Delivers(c)
  <2> SUFFICES ASSUME IInv, [Next]_vars, NEW c \in Requests, Moves(c)
               PROVE  ~call[c].cancelled
    BY DEF IInv, Phases, Withdrawn, Wanted
  <2> USE LiveAssumption DEF IInv, TypeOK, consentVars, callOnly
  <2>1. call'[c].pc # call[c].pc /\ call[c].pc \in {"send", "complete"}
    OBVIOUS
  <2>2. CASE RecordingStep \/ UserStep
    <3>1. call' = call \/ \E these : CancelToken(these)
      BY <2>2 DEF RecordingStep, Prepare, Stop, EndSession, UserStep, Cancel, ClearHistory, ShareDocuments, SaveBegin
    <3>2. call'[c].pc = call[c].pc
      BY <3>1, Token
    <3> QED
      BY <2>1, <3>2
  <2>3. CASE UNCHANGED call
    BY <2>1, <2>3
  <2>4. ASSUME NEW d \in Requests, LoadApply(d) PROVE FALSE
    <3>1. \A e \in Requests : Loaded(d)[e] \in Call
      BY Steps DEF Loaded, Call
    <3>2. \A x \in Call : [x EXCEPT !.cancelled = TRUE].pc = x.pc
      BY DEF Call
    <3>3. call'[c].pc = Loaded(d)[c].pc
      BY <2>4, <3>1, <3>2 DEF LoadApply, Loaded
    <3>4. CASE c = d
      BY <2>1, <2>4, <3>4 DEF LoadApply
    <3>5. CASE c # d
      <4>1. Loaded(d)[c] = call[c]
        BY <3>5 DEF Loaded
      <4> QED
        BY <2>1, <3>3, <4>1
    <3> QED
      BY <3>4, <3>5
  <2>5. ASSUME NEW d \in Requests, Ask(d) \/ CallStep(d), ~LoadApply(d) PROVE c = d
    <3>1. c # d => call'[c] = call[c]
      BY <2>5 DEF Ask, CallStep, LoadFetch, Refused, BuildPrompt, Validate, Send, Reply, Goto, Load,
                  Claim, Complete, Return, Fail, DropLease
    <3> QED
      BY <2>1, <3>1
  <2>6. CASE Send(c) \/ Complete(c)
    BY <2>6 DEF Send, StillWanted, Complete, Deliverable, Valid
  <2>7. CASE Ask(c) \/ LoadFetch(c) \/ Claim(c) \/ BuildPrompt(c) \/ Validate(c) \/ Reply(c) \/ Return(c)
    BY <2>1, <2>7 DEF Ask, LoadFetch, Claim, BuildPrompt, Validate, Reply, Return
  <2>8. CASE Refused(c) \/ Fail(c)
    BY <2>8 DEF Refused, Fail, DropLease, IdleCall
  <2> QED
    BY <2>2, <2>3, <2>4, <2>5, <2>6, <2>7, <2>8
    DEF Next, CallStep, SaverStep, SaveLock, SaveWrite, SaveApply, SaveFails, vars
<1> QED
  BY <1>1, Invariant, PTL DEF Spec, OnlyWanted
=============================================================================
