------------------------- MODULE SavedAnswersProofs -------------------------
(***************************************************************************)
(* For any number of requests, edits, backups and failed writes: what the  *)
(* assistant keeps of a conversation is true, wanted and final. The        *)
(* invariant follows a text from the source a call read it from to the row *)
(* that says it.                                                           *)
(***************************************************************************)
EXTENDS SavedAnswers, FiniteSetTheorems, TLAPS

\* What is told of s under a revision is true as long as s has that revision,
\* and no edit can bring s back to it.
Tell(s, rev, text) ==
  source[s].alive => rev <= source[s].rev /\ (rev = source[s].rev => text = source[s].text)

Types ==
  /\ source \in [Sources -> Source] /\ row \in [Requests -> Row] /\ call \in [Requests -> Call]
  /\ archive.source \in [Sources -> Source] /\ archive.row \in [Requests -> Row]
  /\ archive = [source |-> archive.source, row |-> archive.row]
  /\ active \subseteq Requests /\ cancelled \subseteq active
  /\ \A r \in Requests : call[r].pc = "idle" <=> r \notin active
  /\ permit \in BOOLEAN /\ pending \in Requests \cup {"clear", "unshare", "nothing"}
  /\ edits \in 0 .. MaxEdits /\ backups \in 0 .. MaxBackups /\ faults \in 0 .. MaxFaults
  /\ void \subseteq Requests /\ stuck \subseteq Requests

FewActive == IsFiniteSet(active) /\ Cardinality(active) <= MaxActive

SourceInv ==
  /\ \A s \in Sources : source[s].rev <= edits + 1 /\ (source[s].alive => source[s].rev # 0)
  /\ ~source["meeting"].alive => \A r \in Requests : row[r] = NoRow

ArchiveInv == \A r \in Requests :
  /\ archive.row[r].status \notin Unfinished
  /\ \A s \in Sources : archive.row[r].says[s] # 0 =>
       archive.row[r].restored /\ archive.row[r].deps[s] # 0 /\ archive.source[s].alive

\* A row that is being worked on has its call.
Worked == \A r \in Requests : row[r].status \in Unfinished => r \in active \cup stuck

\* What is said of a source stays true of it, whatever happens to it.
Saying == \A r \in Requests, s \in Sources : row[r].says[s] # 0 =>
  /\ row[r].deps[s] # 0 /\ source[s].alive
  /\ ~row[r].restored => Tell(s, row[r].deps[s], row[r].says[s])

Prepared == {"ready", "wait", "finish", "commit"}

\* A gathered text belongs to a revision, which becomes a dependency of the row.
CallInv == \A r \in Requests, s \in Sources : call[r].text[s] # 0 =>
  /\ call[r].pc \notin {"idle", "lookup", "reserve"}
  /\ call[r].pc = "gather" /\ row[r].status = "preparing" =>
       call[r].rev[s] # 0 /\ Tell(s, call[r].rev[s], call[r].text[s])
  /\ call[r].pc \in Prepared /\ row[r].status = "running" =>
       row[r].deps[s] # 0 /\ Tell(s, row[r].deps[s], call[r].text[s])

VoidInv == \A r \in void :
  /\ r \in active
  /\ r \in cancelled \/ (call[r].pc \in Prepared \cup {"gather", "settle"} /\ row[r].status \notin Unfinished)

\* What finish has checked holds until its commit is over: nobody else writes.
CommitInv == \A r \in Requests : call[r].pc = "commit" =>
  /\ r \notin void
  /\ row[r].status = "running" /\ ~row[r].restored
  /\ source["meeting"].alive /\ Unchanged(row[r].deps)

IInv == Types /\ SourceInv /\ ArchiveInv /\ Worked /\ Saying /\ CallInv /\ VoidInv /\ CommitInv

LEMMA Blank == NoRow \in Row /\ NoCall \in Call /\ Gone \in Source
BY AnswersAssumption DEF NoRow, NoCall, Gone, Row, Call, Source, Sources, Statuses, Steps, Texts, Revisions

LEMMA InitInv == Init => IInv
<1> SUFFICES ASSUME Init PROVE IInv
  OBVIOUS
<1>1. source \in [Sources -> Source]
  BY AnswersAssumption DEF Init, Source, Texts, Revisions
<1>2. Types
  BY <1>1, Blank, AnswersAssumption DEF Init, Types, NoArchive, NoCall
<1> QED
  BY <1>1, <1>2, AnswersAssumption
  DEF Init, IInv, SourceInv, ArchiveInv, Worked, Saying, CallInv, VoidInv, CommitInv, NoRow, NoCall, NoArchive, Sources, Unfinished

(* A row, a call and a source keep their types when a field changes.         *)
LEMMA SetRow ==
  /\ \A x \in Row, status \in Statuses : [x EXCEPT !.status = status] \in Row
  /\ \A x \in Row, deps \in [Sources -> Revisions] : [x EXCEPT !.status = "running", !.deps = deps] \in Row
  /\ \A x \in Row, says \in [Sources -> Texts] : [x EXCEPT !.status = "completed", !.says = says] \in Row
  /\ \A deps \in [Sources -> Revisions] : [NoRow EXCEPT !.status = "preparing", !.deps = deps] \in Row
  /\ \A restored \in BOOLEAN : [NoRow EXCEPT !.status = "invalidated", !.restored = restored] \in Row
BY Blank DEF Row, Statuses, NoRow

LEMMA SetCall ==
  /\ \A x \in Call, pc \in Steps \cup {"idle", "commit", "settle"} : [x EXCEPT !.pc = pc] \in Call
  /\ \A x \in Call, s \in Sources, rev \in Revisions, text \in Texts :
       [x EXCEPT !.rev[s] = rev, !.text[s] = text] \in Call
  /\ \A x \in Call, rev \in [Sources -> Revisions], text \in [Sources -> Texts] :
       [x EXCEPT !.rev = rev, !.text = text] \in Call
  /\ \A x \in Call, rev \in [Sources -> Revisions] : [x EXCEPT !.pc = "ready", !.rev = rev] \in Call
BY DEF Call, Steps

(* The types, one action at a time: the tables, then the calls under way.    *)
Tables == /\ source \in [Sources -> Source] /\ row \in [Requests -> Row]
          /\ archive.source \in [Sources -> Source] /\ archive.row \in [Requests -> Row]
          /\ archive = [source |-> archive.source, row |-> archive.row]
Idles == \A r \in Requests : call[r].pc = "idle" <=> r \notin active
Rest ==
  /\ call \in [Requests -> Call]
  /\ active \subseteq Requests /\ cancelled \subseteq active
  /\ permit \in BOOLEAN /\ pending \in Requests \cup {"clear", "unshare", "nothing"}
  /\ edits \in 0 .. MaxEdits /\ backups \in 0 .. MaxBackups /\ faults \in 0 .. MaxFaults
  /\ void \subseteq Requests /\ stuck \subseteq Requests

LEMMA StepTypes == ASSUME Types, SourceInv, [Next]_vars PROVE Types'
<1> SUFFICES Tables' /\ Idles' /\ Rest'
  BY DEF Tables, Idles, Rest, Types
<1> USE AnswersAssumption, Blank DEF Types, Tables, Idles, Rest, database, memory, Goto, Leave
<1>1. ASSUME NEW r \in Requests, Ask(r)
      PROVE  Tables' /\ Idles' /\ Rest'
  <2>1. Tables'
    BY <1>1 DEF Ask
  <2>2. Rest'
    BY <1>1 DEF Ask, Call, Steps
  <2>3. Idles'
    BY <1>1 DEF Ask, Call, Steps, NoCall
  <2> QED
    BY <2>1, <2>2, <2>3
<1>2. ASSUME NEW r \in Requests, SavedReply(r)
      PROVE  Tables' /\ Idles' /\ Rest'
  <2>1. Tables'
    BY <1>2 DEF SavedReply
  <2>2. Rest'
    BY <1>2 DEF SavedReply, Call, Steps
  <2>3. Idles'
    BY <1>2 DEF SavedReply, Call, Steps, NoCall
  <2> QED
    BY <2>1, <2>2, <2>3
<1>3. ASSUME NEW r \in Requests, Lookup(r)
      PROVE  Tables' /\ Idles' /\ Rest'
  <2>1. Tables'
    BY <1>3 DEF Lookup
  <2>2. Rest'
    BY <1>3 DEF Lookup, Call, Steps
  <2>3. Idles'
    BY <1>3 DEF Lookup, Call, Steps, NoCall
  <2> QED
    BY <2>1, <2>2, <2>3
<1>4. ASSUME NEW r \in Requests, Reserve(r)
      PROVE  Tables' /\ Idles' /\ Rest'
  <2>1. Tables'
    BY <1>4 DEF Reserve, Current, NoRow, Row, Statuses, Source
  <2>2. Rest'
    BY <1>4 DEF Reserve, Call, Steps
  <2>3. Idles'
    BY <1>4 DEF Reserve, Call, Steps, NoCall
  <2> QED
    BY <2>1, <2>2, <2>3
<1>5. ASSUME NEW r \in Requests, NEW s \in Sources, Read(r, s)
      PROVE  Tables' /\ Idles' /\ Rest'
  <2>1. Tables'
    BY <1>5 DEF Read
  <2>2. Rest'
    BY <1>5 DEF Read, Source, Call, Steps
  <2>3. Idles'
    BY <1>5 DEF Read, Source, Call, Steps, NoCall
  <2> QED
    BY <2>1, <2>2, <2>3
<1>6. ASSUME NEW r \in Requests, NEW q \in Requests, Inherit(r, q)
      PROVE  Tables' /\ Idles' /\ Rest'
  <2>1. Tables'
    BY <1>6 DEF Inherit
  <2>2. Rest'
    <3> DEFINE rev == [s \in Sources |-> IF row[q].deps[s] # 0 THEN row[q].deps[s] ELSE call[r].rev[s]]
               text == [s \in Sources |-> IF row[q].says[s] # 0 THEN row[q].says[s] ELSE call[r].text[s]]
    <3>1. call' = [call EXCEPT ![r].rev = rev, ![r].text = text] /\ UNCHANGED <<active, cancelled, permit, pending, edits, backups, faults, void, stuck>>
      BY <1>6 DEF Inherit
    <3>2. rev \in [Sources -> Revisions] /\ text \in [Sources -> Texts]
      BY DEF Row, Call
    <3> HIDE DEF rev, text
    <3> QED
      BY <3>1, <3>2 DEF Call
  <2>3. Idles'
    BY <1>6 DEF Inherit, Row, Call, Steps, NoCall
  <2> QED
    BY <2>1, <2>2, <2>3
<1>7. ASSUME NEW r \in Requests, Prepare(r)
      PROVE  Tables' /\ Idles' /\ Rest'
  <2>1. Tables'
    <3>1. AllDeps(r) \in [Sources -> Revisions]
      BY DEF AllDeps, Row, Call
    <3>2. row' = [row EXCEPT ![r] = [@ EXCEPT !.status = "running", !.deps = AllDeps(r)]] /\ UNCHANGED <<source, archive>>
      BY <1>7 DEF Prepare
    <3> QED
      BY <3>1, <3>2, SetRow
  <2>2. Rest'
    BY <1>7 DEF Prepare, NoCall, Call, Steps
  <2>3. Idles'
    BY <1>7 DEF Prepare, NoCall, Call, Steps, NoCall
  <2> QED
    BY <2>1, <2>2, <2>3
<1>8. ASSUME NEW r \in Requests, CheckReady(r)
      PROVE  Tables' /\ Idles' /\ Rest'
  <2>1. Tables'
    BY <1>8 DEF CheckReady
  <2>2. Rest'
    BY <1>8 DEF CheckReady, Call, Steps
  <2>3. Idles'
    BY <1>8 DEF CheckReady, Call, Steps, NoCall
  <2> QED
    BY <2>1, <2>2, <2>3
<1>9. ASSUME NEW r \in Requests, Monitor(r)
      PROVE  Tables' /\ Idles' /\ Rest'
  <2>1. Tables'
    BY <1>9 DEF Monitor
  <2>2. Rest'
    BY <1>9 DEF Monitor, NoCall, Call, Steps
  <2>3. Idles'
    BY <1>9 DEF Monitor, NoCall, Call, Steps, NoCall
  <2> QED
    BY <2>1, <2>2, <2>3
<1>10. ASSUME NEW r \in Requests, Reply(r)
      PROVE  Tables' /\ Idles' /\ Rest'
  <2>1. Tables'
    BY <1>10 DEF Reply
  <2>2. Rest'
    BY <1>10 DEF Reply, Call, Steps
  <2>3. Idles'
    BY <1>10 DEF Reply, Call, Steps, NoCall
  <2> QED
    BY <2>1, <2>2, <2>3
<1>11. ASSUME NEW r \in Requests, Finish(r)
      PROVE  Tables' /\ Idles' /\ Rest'
  <2>1. Tables'
    BY <1>11 DEF Finish
  <2>2. Rest'
    BY <1>11 DEF Finish, Call, Steps
  <2>3. Idles'
    BY <1>11 DEF Finish, Call, Steps, NoCall
  <2> QED
    BY <2>1, <2>2, <2>3
<1>12. ASSUME NEW r \in Requests, Fails(r)
      PROVE  Tables' /\ Idles' /\ Rest'
  <2>1. Tables'
    BY <1>12 DEF Fails
  <2>2. Rest'
    BY <1>12 DEF Fails, NoCall, Call, Steps
  <2>3. Idles'
    BY <1>12 DEF Fails, NoCall, Call, Steps, NoCall
  <2> QED
    BY <2>1, <2>2, <2>3
<1>13. ASSUME NEW r \in Requests, Dropped(r)
      PROVE  Tables' /\ Idles' /\ Rest'
  <2>1. Tables'
    BY <1>13 DEF Dropped
  <2>2. Rest'
    BY <1>13 DEF Dropped, NoCall, Call, Steps
  <2>3. Idles'
    BY <1>13 DEF Dropped, NoCall, Call, Steps, NoCall
  <2> QED
    BY <2>1, <2>2, <2>3
<1>14. ASSUME NEW r \in Requests, Settle(r)
      PROVE  Tables' /\ Idles' /\ Rest'
  <2>1. Tables'
    BY <1>14 DEF Settle, Settled, Cancelled, Failed, Row, Statuses
  <2>2. Rest'
    BY <1>14 DEF Settle, Call, Steps
  <2>3. Idles'
    BY <1>14 DEF Settle, Call, Steps, NoCall
  <2> QED
    BY <2>1, <2>2, <2>3
<1>15. ASSUME NEW r \in Requests, SettleFails(r)
      PROVE  Tables' /\ Idles' /\ Rest'
  <2>1. Tables'
    BY <1>15 DEF SettleFails
  <2>2. Rest'
    BY <1>15 DEF SettleFails, Call, Steps
  <2>3. Idles'
    BY <1>15 DEF SettleFails, Call, Steps, NoCall
  <2> QED
    BY <2>1, <2>2, <2>3
<1>16. ASSUME NEW r \in Requests, CancelBegin(r)
      PROVE  Tables' /\ Idles' /\ Rest'
  <2>1. Tables'
    BY <1>16 DEF CancelBegin
  <2>2. Rest'
    BY <1>16 DEF CancelBegin, CancelTokens, Begin, Call, Steps
  <2>3. Idles'
    BY <1>16 DEF CancelBegin, CancelTokens, Begin, Call, Steps, NoCall
  <2> QED
    BY <2>1, <2>2, <2>3
<1>17. ASSUME NEW r \in Requests, CancelWrite(r)
      PROVE  Tables' /\ Idles' /\ Rest'
  <2>1. Tables'
    <3>1. Cancelled(r) \in [Requests -> Row]
      BY DEF Cancelled, Row, Statuses
    <3> QED
      BY <1>17, <3>1 DEF CancelWrite
  <2>2. Rest'
    BY <1>17 DEF CancelWrite, Done, Bereft, Call, Steps
  <2>3. Idles'
    BY <1>17 DEF CancelWrite, Done, Bereft, Call, Steps, NoCall
  <2> QED
    BY <2>1, <2>2, <2>3
<1>18. CASE ClearBegin
  <2>1. Tables'
    BY <1>18 DEF ClearBegin
  <2>2. Rest'
    BY <1>18 DEF ClearBegin, CancelTokens, Begin, Call, Steps
  <2>3. Idles'
    BY <1>18 DEF ClearBegin, CancelTokens, Begin, Call, Steps, NoCall
  <2> QED
    BY <2>1, <2>2, <2>3
<1>19. CASE ClearWrite
  <2>1. Tables'
    BY <1>19 DEF ClearWrite
  <2>2. Rest'
    BY <1>19 DEF ClearWrite, Done, Bereft, Call, Steps
  <2>3. Idles'
    BY <1>19 DEF ClearWrite, Done, Bereft, Call, Steps, NoCall
  <2> QED
    BY <2>1, <2>2, <2>3
<1>20. CASE UnshareBegin
  <2>1. Tables'
    BY <1>20 DEF UnshareBegin
  <2>2. Rest'
    BY <1>20 DEF UnshareBegin, CancelTokens, Begin, Call, Steps
  <2>3. Idles'
    BY <1>20 DEF UnshareBegin, CancelTokens, Begin, Call, Steps, NoCall
  <2> QED
    BY <2>1, <2>2, <2>3
<1>21. CASE UnshareWrite
  <2>1. Tables'
    BY <1>21 DEF UnshareWrite
  <2>2. Rest'
    BY <1>21 DEF UnshareWrite, Done, Call, Steps
  <2>3. Idles'
    BY <1>21 DEF UnshareWrite, Done, Call, Steps, NoCall
  <2> QED
    BY <2>1, <2>2, <2>3
<1>22. CASE Share
  <2>1. Tables'
    BY <1>22 DEF Share
  <2>2. Rest'
    BY <1>22 DEF Share, Call, Steps
  <2>3. Idles'
    BY <1>22 DEF Share, Call, Steps, NoCall
  <2> QED
    BY <2>1, <2>2, <2>3
<1>23. ASSUME NEW s \in Sources, Edit(s)
      PROVE  Tables' /\ Idles' /\ Rest'
  <2>1. Tables'
    <3>1. edits' = edits + 1 /\ edits < MaxEdits
      BY <1>23 DEF Edit
    <3>2. source[s].rev + 1 \in Revisions /\ edits' + 1 \in Texts
      BY <3>1 DEF Source, SourceInv, Texts, Revisions
    <3>3. source' = [source EXCEPT ![s].rev = @ + 1, ![s].text = edits' + 1] /\ UNCHANGED <<row, archive>>
      BY <1>23 DEF Edit
    <3>4. source' \in [Sources -> Source]
      BY <3>2, <3>3 DEF Source
    <3> QED
      BY <3>3, <3>4
  <2>2. Rest'
    BY <1>23 DEF Edit, Call, Steps
  <2>3. Idles'
    BY <1>23 DEF Edit, Call, Steps, NoCall
  <2> QED
    BY <2>1, <2>2, <2>3
<1>24. CASE DeleteDocument
  <2>1. Tables'
    BY <1>24 DEF DeleteDocument, Tombstone, NoRow, Row, Statuses
  <2>2. Rest'
    BY <1>24 DEF DeleteDocument, Bereft, Call, Steps
  <2>3. Idles'
    BY <1>24 DEF DeleteDocument, Bereft, Call, Steps, NoCall
  <2> QED
    BY <2>1, <2>2, <2>3
<1>25. CASE DeleteMeeting
  <2>1. Tables'
    <3>1. \A r \in Requests : RestoredRow(r) \in Row
      BY DEF RestoredRow, Row, Statuses
    <3>2. \/ UNCHANGED archive
          \/ archive' = [source |-> source, row |-> [r \in Requests |-> RestoredRow(r)]]
      BY <1>25 DEF DeleteMeeting, Backup
    <3>3. source' = [s \in Sources |-> Gone] /\ row' = [r \in Requests |-> NoRow]
      BY <1>25 DEF DeleteMeeting
    <3> QED
      BY <3>1, <3>2, <3>3
  <2>2. Rest'
    <3>1. backups' \in 0 .. MaxBackups
      BY <1>25 DEF DeleteMeeting, Backup
    <3>2. void' \subseteq Requests /\ permit' = FALSE /\ UNCHANGED <<call, active, cancelled, pending, edits, faults, stuck>>
      BY <1>25 DEF DeleteMeeting, Bereft
    <3> QED
      BY <3>1, <3>2
  <2>3. Idles'
    BY <1>25 DEF DeleteMeeting, Bereft, Backup, Call, Steps, NoCall
  <2> QED
    BY <2>1, <2>2, <2>3
<1>26. CASE Restore
  <2>1. Tables'
    <3>1. source' = [s \in Sources |-> IF archive.source[s].alive THEN [archive.source[s] EXCEPT !.rev = 1] ELSE Gone]
      BY <1>26 DEF Restore
    <3>2. \A s \in Sources : [archive.source[s] EXCEPT !.rev = 1] \in Source
      BY DEF Source, Revisions
    <3>3. row' = archive.row /\ archive' = NoArchive
      BY <1>26 DEF Restore
    <3> QED
      BY <3>1, <3>2, <3>3 DEF NoArchive
  <2>2. Rest'
    BY <1>26 DEF Restore, Call, Steps
  <2>3. Idles'
    BY <1>26 DEF Restore, Call, Steps, NoCall
  <2> QED
    BY <2>1, <2>2, <2>3
<1>27. CASE Restart
  <2>1. Tables'
    BY <1>27 DEF Restart, Row, Statuses, Unfinished
  <2>2. Rest'
    BY <1>27 DEF Restart, Call, Steps
  <2>3. Idles'
    BY <1>27 DEF Restart, Call, Steps, NoCall
  <2> QED
    BY <2>1, <2>2, <2>3
<1>28. CASE UNCHANGED vars
  BY <1>28 DEF vars
<1>29. ASSUME NEW r \in Requests, Commit(r) \/ CommitDropped(r)
       PROVE  Tables' /\ Idles' /\ Rest'
  <2>1. Tables'
    <3>1. Committed(r) \in [Requests -> Row]
      BY DEF Committed, Row, Statuses, Call
    <3> QED
      BY <1>29, <3>1 DEF Commit, CommitDropped
  <2>2. [NoCall EXCEPT !.pc = "settle"] \in Call /\ [NoCall EXCEPT !.pc = "settle"].pc = "settle" /\ NoCall.pc = "idle"
    BY DEF NoCall, Call
  <2>3. CASE Commit(r)
    BY <2>1, <2>2, <2>3 DEF Commit
  <2>4. CASE CommitDropped(r)
    <3>1. r \in active /\ cancelled' \subseteq active
      BY <2>4 DEF CommitDropped
    <3> QED
      BY <2>1, <2>2, <2>4, <3>1 DEF CommitDropped
  <2> QED
    BY <1>29, <2>3, <2>4
<1> QED
  BY <1>1, <1>2, <1>3, <1>4, <1>5, <1>6, <1>7, <1>8, <1>9, <1>10, <1>11, <1>12, <1>13, <1>14,
     <1>15, <1>16, <1>17, <1>18, <1>19, <1>20, <1>21, <1>22, <1>23, <1>24, <1>25, <1>26, <1>27, <1>28, <1>29
  DEF Next, AnyStep, CallStep, Gather, UserStep, LibraryStep

(* The steps that write sources, rows or the archive.                        *)
LEMMA Writers == ASSUME [Next]_vars
                 PROVE  \/ UNCHANGED <<source, row, archive, edits>>
                        \/ \E r \in Requests : Reserve(r) \/ Prepare(r) \/ Settle(r) \/ CancelWrite(r)
                                               \/ Commit(r) \/ CommitDropped(r)
                        \/ \E s \in Sources : Edit(s)
                        \/ ClearWrite \/ DeleteDocument \/ DeleteMeeting \/ Restore \/ Restart
BY DEF Next, AnyStep, CallStep, Gather, UserStep, LibraryStep, vars, database, SavedReply, Lookup, CheckReady, Reply, Finish,
   Fails, SettleFails, Read, Inherit, Monitor, Dropped, Ask, CancelBegin, ClearBegin, UnshareBegin, UnshareWrite, Share

LEMMA Blanks == /\ NoRow.status \notin Unfinished
                /\ \A s \in Sources : NoRow.deps[s] = 0 /\ NoRow.says[s] = 0 /\ NoCall.text[s] = 0
BY DEF NoRow, NoCall, Unfinished

(* The end of a commit changes one row, or none, and is the end of its call. *)
LEMMA Ends == ASSUME Types, CommitInv, NEW r \in Requests, Commit(r) \/ CommitDropped(r)
              PROVE  /\ UNCHANGED <<source, archive, edits>>
                     /\ row' \in {row, Committed(r)}
                     /\ \A q \in Requests \ {r} : row'[q] = row[q] /\ call'[q] = call[q]
                     /\ call'[r].text = NoCall.text /\ call'[r].pc \in {"idle", "settle"}
                     /\ void' \subseteq void
                     /\ call[r].pc = "commit" /\ r \notin void
                     /\ row[r].status = "running" /\ ~row[r].restored
                     /\ source["meeting"].alive /\ Unchanged(row[r].deps)
                     /\ Committed(r)[r].status = "completed" /\ Committed(r)[r].says = call[r].text
                     /\ Committed(r)[r].deps = row[r].deps /\ Committed(r)[r].restored = row[r].restored
<1>1. call[r].pc = "commit"
  BY DEF Commit, CommitDropped
<1>2. /\ Committed(r)[r].status = "completed" /\ Committed(r)[r].says = call[r].text
      /\ Committed(r)[r].deps = row[r].deps /\ Committed(r)[r].restored = row[r].restored
      /\ \A q \in Requests \ {r} : Committed(r)[q] = row[q]
  BY DEF Types, Committed, Row
<1>3. /\ UNCHANGED <<source, archive, edits>> /\ row' \in {row, Committed(r)} /\ void' \subseteq void
      /\ call' \in {[call EXCEPT ![r] = NoCall], [call EXCEPT ![r] = [NoCall EXCEPT !.pc = "settle"]]}
  BY DEF Commit, CommitDropped, Leave
<1>4. call'[r].text = NoCall.text /\ call'[r].pc \in {"idle", "settle"}
  BY <1>3 DEF Types, NoCall
<1>5. \A q \in Requests \ {r} : row'[q] = row[q] /\ call'[q] = call[q]
  BY <1>2, <1>3 DEF Types
<1>6. /\ r \notin void /\ row[r].status = "running" /\ ~row[r].restored
      /\ source["meeting"].alive /\ Unchanged(row[r].deps)
  BY <1>1 DEF CommitInv
<1> QED
  BY <1>1, <1>2, <1>3, <1>4, <1>5, <1>6

LEMMA StepSource == ASSUME Types, SourceInv, CommitInv, [Next]_vars PROVE SourceInv'
<1> USE DEF Types, SourceInv
<1>1. CASE UNCHANGED <<source, row, archive, edits>>
  BY <1>1
<1>2. ASSUME NEW r \in Requests, Reserve(r) \/ Prepare(r) \/ Commit(r) \/ CommitDropped(r) PROVE SourceInv'
  <2>1. source["meeting"].alive /\ UNCHANGED <<source, edits>>
    BY <1>2, Ends DEF Reserve, Prepare, InScope, Scope, Sources
  <2> QED
    BY <2>1
<1>3. ASSUME NEW r \in Requests, Settle(r) \/ CancelWrite(r) PROVE SourceInv'
  <2>1. UNCHANGED <<source, edits>>
    BY <1>3 DEF Settle, CancelWrite
  <2>2. row[r] = NoRow => row' = row
    BY <1>3 DEF Settle, CancelWrite, Settled, Cancelled, Failed, Cancellable, Unfinished, Retriable, NoRow
  <2>3. \A q \in Requests \ {r} : row'[q] = row[q]
    BY <1>3 DEF Settle, CancelWrite, Settled, Cancelled, Failed
  <2> QED
    BY <2>1, <2>2, <2>3
<1>4. ASSUME NEW s \in Sources, Edit(s) PROVE SourceInv'
  <2>1. edits' = edits + 1 /\ UNCHANGED row
    BY <1>4 DEF Edit
  <2>2. \A t \in Sources : source'[t].alive = source[t].alive /\ source'[t].rev \in {source[t].rev, source[t].rev + 1}
    BY <1>4 DEF Edit, Source
  <2>3. \A t \in Sources : source[t].rev \in Nat
    BY DEF Source, Revisions
  <2> QED
    BY <2>1, <2>2, <2>3 DEF Sources
<1>5. CASE ClearWrite
  BY <1>5 DEF ClearWrite
<1>6. CASE DeleteDocument
  <2>1. source'["meeting"] = source["meeting"] /\ UNCHANGED edits
    BY <1>6 DEF DeleteDocument, Sources
  <2>2. \A s \in Sources : source'[s] = source[s] \/ source'[s] = Gone
    BY <1>6 DEF DeleteDocument, Sources
  <2>3. \A r \in Requests : row[r] = NoRow => row'[r] = NoRow
    BY <1>6, Blanks DEF DeleteDocument, Sources
  <2> QED
    BY <2>1, <2>2, <2>3 DEF Gone
<1>7. CASE DeleteMeeting
  BY <1>7 DEF DeleteMeeting, Gone
<1>8. CASE Restore
  <2>1. \A s \in Sources : source'[s] = Gone \/ source'[s].rev = 1
    BY <1>8 DEF Restore, Source
  <2>2. source'["meeting"].alive
    BY <1>8 DEF Restore, Source, Sources
  <2> QED
    BY <1>8, <2>1, <2>2 DEF Restore, Gone
<1>9. CASE Restart
  <2>1. UNCHANGED <<source, edits>>
    BY <1>9 DEF Restart
  <2>2. \A r \in Requests : row[r] = NoRow => row'[r] = NoRow
    BY <1>9, Blanks DEF Restart
  <2> QED
    BY <2>1, <2>2
<1> QED
  BY Writers, <1>1, <1>2, <1>3, <1>4, <1>5, <1>6, <1>7, <1>8, <1>9

LEMMA StepArchive == ASSUME Types, ArchiveInv, Saying, [Next]_vars PROVE ArchiveInv'
<1>1. CASE UNCHANGED archive
  BY <1>1 DEF ArchiveInv
<1>2. CASE DeleteMeeting /\ archive' # archive
  <2>1. archive' = [source |-> source, row |-> [r \in Requests |-> RestoredRow(r)]]
    BY <1>2 DEF DeleteMeeting, Backup
  <2>2. ASSUME NEW r \in Requests
        PROVE  /\ RestoredRow(r).status \notin Unfinished
               /\ \A s \in Sources : RestoredRow(r).says[s] # 0 =>
                    RestoredRow(r).restored /\ RestoredRow(r).deps[s] # 0 /\ source[s].alive
    <3>1. CASE row[r].status = "none"
      BY <3>1 DEF RestoredRow, NoRow, Unfinished
    <3>2. CASE row[r].status # "none"
      BY <3>2 DEF RestoredRow, Types, Row, Unfinished, Saying
    <3> QED
      BY <3>1, <3>2
  <2> QED
    BY <2>1, <2>2 DEF ArchiveInv
<1>3. CASE Restore
  BY <1>3 DEF Restore, ArchiveInv, NoArchive, NoRow, Unfinished
<1> QED
  BY Writers, <1>1, <1>2, <1>3
  DEF Reserve, Prepare, Commit, CommitDropped, Settle, CancelWrite, Edit, ClearWrite, DeleteDocument, DeleteMeeting,
      Restart

(* Who loses its entry in the registry: its row is not worked on any more.   *)
LEMMA StepWorked == ASSUME Types, ArchiveInv, Worked, CommitInv, [Next]_vars PROVE Worked'
<1> USE DEF Types, Worked
<1>1. ASSUME NEW r \in Requests, SavedReply(r) PROVE Worked'
  BY <1>1 DEF SavedReply, Leave, Unfinished, database
<1>2. ASSUME NEW r \in Requests, Settle(r) PROVE Worked'
  <2>1. row'[r].status \notin Unfinished
    BY <1>2 DEF Settle, Settled, Cancelled, Failed, Cancellable, Unfinished, Row
  <2>2. \A q \in Requests \ {r} : row'[q] = row[q]
    BY <1>2 DEF Settle, Settled, Cancelled, Failed
  <2> QED
    BY <1>2, <2>1, <2>2 DEF Settle, Leave
<1>3. ASSUME NEW r \in Requests, SettleFails(r) PROVE Worked'
  BY <1>3 DEF SettleFails, Leave, database
<1>4. ASSUME NEW r \in Requests, Commit(r) \/ CommitDropped(r) PROVE Worked'
  <2>1. CASE Commit(r)
    BY <2>1, Ends DEF Commit, Leave, Unfinished
  <2>2. CASE CommitDropped(r)
    BY <2>2, Ends DEF CommitDropped, Unfinished
  <2> QED
    BY <1>4, <2>1, <2>2
<1>5. ASSUME NEW r \in Requests, Reserve(r) PROVE Worked'
  <2>1. r \in active
    BY <1>5 DEF Reserve
  <2> QED
    BY <1>5, <2>1 DEF Reserve
<1>6. ASSUME NEW r \in Requests, Prepare(r) PROVE Worked'
  BY <1>6 DEF Prepare, Unfinished
<1>7. ASSUME NEW r \in Requests, CancelWrite(r) PROVE Worked'
  <2>1. row' \in {row, Cancelled(r)} /\ UNCHANGED <<active, stuck>>
    BY <1>7 DEF CancelWrite
  <2> QED
    <3>1. \A q \in Requests : row'[q] = row[q] \/ row'[q].status = "cancelled"
      BY <2>1 DEF Cancelled, Row
    <3> QED
      BY <2>1, <3>1 DEF Unfinished
<1>8. CASE ClearWrite \/ DeleteMeeting
  BY <1>8, Blanks DEF ClearWrite, DeleteMeeting, memory
<1>9. CASE DeleteDocument
  <2>1. \A r \in Requests : Tombstone(r).status \notin Unfinished
    BY DEF Tombstone, NoRow, Unfinished
  <2> QED
    BY <1>9, <2>1 DEF DeleteDocument, memory
<1>10. CASE Restore
  BY <1>10 DEF Restore, ArchiveInv, memory
<1>11. CASE Restart
  <2>1. \A r \in Requests : row'[r].status \notin Unfinished
    BY <1>11 DEF Restart, Row, Unfinished
  <2> QED
    BY <2>1
<1>12. CASE row' = row /\ active \subseteq active' /\ stuck' = stuck
  BY <1>12
<1> QED
  BY <1>1, <1>2, <1>3, <1>4, <1>5, <1>6, <1>7, <1>8, <1>9, <1>10, <1>11, <1>12
  DEF Next, AnyStep, CallStep, Gather, UserStep, LibraryStep, vars, database, memory, Lookup, CheckReady, Reply, Finish, Fails,
   Read, Inherit, Monitor, Dropped, Ask, CancelBegin, ClearBegin, UnshareBegin, UnshareWrite, Share, Edit

LEMMA TellKept == ASSUME Types, SourceInv, NEW t \in Sources, Edit(t),
                         NEW s \in Sources, NEW rev \in Revisions, NEW text, Tell(s, rev, text)
                  PROVE  Tell(s, rev, text)'
<1>1. source'[s].alive = source[s].alive /\ (s # t => source'[s] = source[s])
  BY DEF Edit, Types, Source
<1>2. source'[t].rev = source[t].rev + 1 /\ source[t].rev \in Nat /\ rev \in Nat
  BY DEF Edit, Types, Source, Revisions
<1> QED
  BY <1>1, <1>2 DEF Tell

LEMMA StepSaying == ASSUME Types, SourceInv, ArchiveInv, Saying, CallInv, CommitInv, [Next]_vars PROVE Saying'
<1> USE DEF Types, Saying
<1>1. CASE UNCHANGED <<source, row, archive, edits>>
  BY <1>1 DEF Tell
<1>2. ASSUME NEW r \in Requests, Reserve(r) PROVE Saying'
  <2>1. row' = [row EXCEPT ![r] = [NoRow EXCEPT !.status = "preparing", !.deps = Current(r)]] /\ UNCHANGED source
    BY <1>2 DEF Reserve
  <2>2. \A s \in Sources : row'[r].says[s] = 0
    BY <2>1 DEF NoRow
  <2> QED
    BY <2>1, <2>2 DEF Tell
<1>3. ASSUME NEW r \in Requests, Prepare(r) PROVE Saying'
  <2>1. row' = [row EXCEPT ![r].status = "running", ![r].deps = AllDeps(r)] /\ UNCHANGED source
    BY <1>3 DEF Prepare
  <2>2. \A s \in Sources : row[r].deps[s] # 0 => AllDeps(r)[s] = row[r].deps[s]
    BY <1>3 DEF Prepare, Agree, AllDeps
  <2>3. row'[r].says = row[r].says /\ row'[r].deps = AllDeps(r) /\ row'[r].restored = row[r].restored
    BY <2>1 DEF Row
  <2>4. \A q \in Requests \ {r} : row'[q] = row[q]
    BY <2>1
  <2> QED
    BY <2>1, <2>2, <2>3, <2>4 DEF Tell
<1>4. ASSUME NEW r \in Requests, Commit(r) \/ CommitDropped(r), row' # row PROVE Saying'
  <2>1. row' = Committed(r) /\ UNCHANGED source
    BY <1>4, Ends
  <2>2. row'[r].says = call[r].text /\ row'[r].deps = row[r].deps
    BY <1>4, <2>1, Ends
  <2>3. \A s \in Sources : row'[r].says[s] # 0 => row[r].deps[s] # 0 /\ Tell(s, row[r].deps[s], call[r].text[s])
    BY <1>4, <2>2, Ends DEF CallInv, Prepared
  <2>4. \A s \in Sources : row[r].deps[s] # 0 => source[s].alive
    BY <1>4, Ends DEF Unchanged
  <2> QED
    BY <1>4, <2>1, <2>2, <2>3, <2>4, Ends DEF Tell
<1>5. ASSUME NEW r \in Requests, Settle(r) \/ CancelWrite(r) PROVE Saying'
  <2>1. UNCHANGED source
    BY <1>5 DEF Settle, CancelWrite
  <2>2. \A q \in Requests : row'[q].says = row[q].says /\ row'[q].deps = row[q].deps /\ row'[q].restored = row[q].restored
    <3>1. row' \in {row, Cancelled(r), Failed(r)}
      BY <1>5 DEF Settle, CancelWrite, Settled
    <3>2. row[r] \in Row
      OBVIOUS
    <3>3. \/ row' = row
          \/ row' = [row EXCEPT ![r].status = "cancelled"]
          \/ row' = [row EXCEPT ![r].status = "failed"]
      BY <3>1 DEF Cancelled, Failed
    <3>4. \A q \in Requests \ {r} : row'[q] = row[q]
      BY <3>3
    <3>5. ASSUME NEW status, row' = [row EXCEPT ![r].status = status]
          PROVE  row'[r].says = row[r].says /\ row'[r].deps = row[r].deps /\ row'[r].restored = row[r].restored
      BY <3>2, <3>5 DEF Row
    <3> QED
      BY <3>3, <3>4, <3>5
  <2> QED
    BY <2>1, <2>2 DEF Tell
<1>6. ASSUME NEW t \in Sources, Edit(t) PROVE Saying'
  <2>1. UNCHANGED row /\ \A s \in Sources : source'[s].alive = source[s].alive
    BY <1>6 DEF Edit, Source
  <2>2. \A r \in Requests, s \in Sources : row[r].deps[s] \in Revisions
    BY DEF Row
  <2> QED
    BY <1>6, <2>1, <2>2, TellKept
<1>7. CASE ClearWrite \/ DeleteMeeting
  BY <1>7, Blanks DEF ClearWrite, DeleteMeeting
<1>8. CASE DeleteDocument
  <2>1. ASSUME NEW r \in Requests, row[r].deps["document"] # 0 PROVE \A s \in Sources : row'[r].says[s] = 0
    BY <1>8, <2>1 DEF DeleteDocument, Tombstone, NoRow
  <2>2. ASSUME NEW r \in Requests, row[r].deps["document"] = 0 PROVE row'[r] = row[r] /\ row[r].says["document"] = 0
    BY <1>8, <2>2 DEF DeleteDocument, Sources
  <2>3. \A s \in Sources \ {"document"} : source'[s] = source[s]
    BY <1>8 DEF DeleteDocument
  <2> QED
    BY <2>1, <2>2, <2>3 DEF Tell
<1>9. CASE Restore
  <2>1. row' = archive.row /\ \A s \in Sources : archive.source[s].alive => source'[s].alive
    BY <1>9 DEF Restore, Source
  <2> QED
    BY <2>1 DEF ArchiveInv
<1>10. CASE Restart
  <2>1. UNCHANGED source
    BY <1>10 DEF Restart
  <2>2. \A q \in Requests : row'[q].says = row[q].says /\ row'[q].deps = row[q].deps /\ row'[q].restored = row[q].restored
    BY <1>10 DEF Restart, Row
  <2> QED
    BY <2>1, <2>2 DEF Tell
<1>11. ASSUME NEW r \in Requests, Commit(r) \/ CommitDropped(r), row' = row PROVE Saying'
  BY <1>11, Ends DEF Tell
<1> QED
  BY Writers, <1>1, <1>2, <1>3, <1>4, <1>5, <1>6, <1>7, <1>8, <1>9, <1>10, <1>11

(* What a call has gathered stays true, until it is saved or dropped.        *)
LEMMA StepCalls == ASSUME Types, SourceInv, ArchiveInv, Saying, CallInv, CommitInv, [Next]_vars PROVE CallInv'
<1> USE DEF Types, CallInv, Prepared
<1>1. ASSUME NEW r \in Requests,
             Ask(r) \/ Lookup(r) \/ CheckReady(r) \/ Reply(r) \/ SavedReply(r) \/ SettleFails(r)
                \/ Fails(r) \/ Dropped(r) \/ Monitor(r) \/ Finish(r) \/ Settle(r)
      PROVE  CallInv'
  <2>1. UNCHANGED source /\ \A q \in Requests \ {r} : row'[q] = row[q] /\ call'[q] = call[q]
    BY <1>1 DEF Ask, Lookup, CheckReady, Reply, SavedReply, SettleFails, Fails, Dropped, Monitor, Finish, Settle,
       Goto, Leave, database, Settled, Cancelled, Failed
  <2>2. CASE Ask(r) \/ Lookup(r) \/ CheckReady(r) \/ Reply(r) \/ Finish(r)
    <3>1. row' = row /\ call'[r].text = call[r].text /\ call'[r].rev = call[r].rev
      BY <2>2 DEF Ask, Lookup, CheckReady, Reply, Finish, Goto, database, Call
    <3>2. \/ call[r].pc \in {"idle", "lookup"}
          \/ call[r].pc \in {"ready", "wait", "finish"} /\ call'[r].pc \in {"wait", "finish", "commit"}
      BY <2>2 DEF Ask, Lookup, CheckReady, Reply, Finish, Goto, Call
    <3> QED
      BY <2>1, <3>1, <3>2 DEF Tell
  <2>3. CASE ~(Ask(r) \/ Lookup(r) \/ CheckReady(r) \/ Reply(r) \/ Finish(r))
    <3>1. call'[r].text = NoCall.text
      BY <1>1, <2>3 DEF SavedReply, SettleFails, Fails, Dropped, Monitor, Settle, Leave, NoCall
    <3> QED
      BY <2>1, <3>1, Blanks DEF Tell
  <2> QED
    BY <2>2, <2>3
<1>2. ASSUME NEW r \in Requests, Reserve(r) PROVE CallInv'
  <2>1. UNCHANGED source /\ \A q \in Requests \ {r} : row'[q] = row[q] /\ call'[q] = call[q]
    BY <1>2 DEF Reserve, Goto
  <2>2. call[r].pc = "reserve" /\ call'[r].text = call[r].text
    BY <1>2 DEF Reserve, Goto, Call
  <2> QED
    BY <2>1, <2>2 DEF Tell
<1>3. ASSUME NEW r \in Requests, NEW s \in Sources, Read(r, s) PROVE CallInv'
  <2>1. UNCHANGED <<source, row>> /\ \A q \in Requests \ {r} : call'[q] = call[q]
    BY <1>3 DEF Read, database
  <2>2. /\ call[r].pc = "gather" /\ call'[r].pc = "gather"
        /\ call'[r].rev[s] = source[s].rev /\ call'[r].text[s] = source[s].text
        /\ \A t \in Sources \ {s} : call'[r].rev[t] = call[r].rev[t] /\ call'[r].text[t] = call[r].text[t]
    BY <1>3 DEF Read, Call
  <2>3. source[s].rev # 0 /\ source[s].rev <= source[s].rev
    BY <1>3 DEF Read, SourceInv, Source, Revisions
  <2> QED
    BY <2>1, <2>2, <2>3 DEF Tell
<1>4. ASSUME NEW r \in Requests, NEW q \in Requests, Inherit(r, q) PROVE CallInv'
  <2>1. UNCHANGED <<source, row>> /\ \A p \in Requests \ {r} : call'[p] = call[p]
    BY <1>4 DEF Inherit, database
  <2>2. /\ call[r].pc = "gather" /\ call'[r].pc = "gather"
        /\ \A s \in Sources :
             /\ call'[r].rev[s] = IF row[q].deps[s] # 0 THEN row[q].deps[s] ELSE call[r].rev[s]
             /\ call'[r].text[s] = IF row[q].says[s] # 0 THEN row[q].says[s] ELSE call[r].text[s]
    BY <1>4 DEF Inherit, Call
  <2>3. ~row[q].restored
    BY <1>4 DEF Inherit, Verifiable, OwnAnswer
  <2>4. \A s \in Sources : call[r].rev[s] \in {0, row[q].deps[s]} \/ row[q].deps[s] = 0
    BY <1>4 DEF Inherit
  <2>5. ASSUME NEW s \in Sources, call'[r].text[s] # 0, row[r].status = "preparing"
        PROVE  call'[r].rev[s] # 0 /\ Tell(s, call'[r].rev[s], call'[r].text[s])
    <3>1. CASE row[q].says[s] # 0
      BY <2>2, <2>3, <3>1 DEF Saying
    <3>2. CASE row[q].says[s] = 0
      <4>1. call'[r].text[s] = call[r].text[s] /\ call[r].rev[s] # 0 /\ Tell(s, call[r].rev[s], call[r].text[s])
        BY <2>2, <2>5, <3>2
      <4>2. call'[r].rev[s] = call[r].rev[s]
        BY <2>2, <2>4, <4>1
      <4> QED
        BY <4>1, <4>2
    <3> QED
      BY <3>1, <3>2
  <2> QED
    BY <2>1, <2>2, <2>5 DEF Tell
<1>5. ASSUME NEW r \in Requests, Prepare(r) PROVE CallInv'
  <2>1. UNCHANGED source /\ \A q \in Requests \ {r} : row'[q] = row[q] /\ call'[q] = call[q]
    BY <1>5 DEF Prepare
  <2>2. /\ call[r].pc = "gather" /\ call'[r].pc = "ready" /\ call'[r].text = call[r].text
        /\ row[r].status = "preparing" /\ row'[r].deps = AllDeps(r)
    BY <1>5 DEF Prepare, Call, Row
  <2>3. \A s \in Sources : call[r].rev[s] # 0 => AllDeps(r)[s] = call[r].rev[s]
    BY DEF AllDeps
  <2> QED
    BY <2>1, <2>2, <2>3 DEF Tell
<1>6. ASSUME NEW r \in Requests, CancelWrite(r) PROVE CallInv'
  <2>1. UNCHANGED <<source, call>> /\ row' \in {row, Cancelled(r)}
    BY <1>6 DEF CancelWrite
  <2>2. \A q \in Requests : row'[q] = row[q] \/ row'[q].status = "cancelled"
    BY <2>1 DEF Cancelled, Row
  <2> QED
    BY <2>1, <2>2 DEF Tell
<1>7. CASE ClearWrite \/ DeleteMeeting
  <2>1. UNCHANGED call /\ \A r \in Requests : row'[r].status \notin Unfinished
    BY <1>7, Blanks DEF ClearWrite, DeleteMeeting, memory
  <2> QED
    BY <2>1 DEF Unfinished
<1>8. ASSUME NEW t \in Sources, Edit(t) PROVE CallInv'
  <2>1. UNCHANGED <<row, call>>
    BY <1>8 DEF Edit, memory
  <2>2. \A r \in Requests, s \in Sources : {row[r].deps[s], call[r].rev[s]} \subseteq Revisions
    BY DEF Row, Call
  <2> QED
    BY <1>8, <2>1, <2>2, TellKept
<1>9. CASE DeleteDocument
  <2>1. UNCHANGED call /\ ~source'["document"].alive /\ source'["meeting"] = source["meeting"]
    BY <1>9 DEF DeleteDocument, memory, Gone, Sources
  <2>2. \A r \in Requests : row'[r] = row[r] \/ row'[r].status = "invalidated"
    BY <1>9 DEF DeleteDocument, Tombstone, NoRow
  <2> QED
    BY <2>1, <2>2 DEF Tell, Sources
<1>10. CASE Restore
  <2>1. UNCHANGED call /\ \A r \in Requests : row'[r].status \notin Unfinished
    BY <1>10 DEF Restore, memory, ArchiveInv
  <2> QED
    BY <2>1 DEF Unfinished
<1>11. CASE Restart
  <2>1. \A r \in Requests : call'[r] = NoCall
    BY <1>11 DEF Restart
  <2> QED
    BY <2>1, Blanks
<1>12. CASE UNCHANGED <<source, row, call>>
  BY <1>12 DEF Tell
<1>13. ASSUME NEW r \in Requests, Commit(r) \/ CommitDropped(r) PROVE CallInv'
  BY <1>13, Ends, Blanks DEF Tell
<1> QED
  BY <1>1, <1>2, <1>3, <1>4, <1>5, <1>6, <1>7, <1>8, <1>9, <1>10, <1>11, <1>12, <1>13
  DEF Next, AnyStep, CallStep, Gather, UserStep, LibraryStep, vars, database, memory, CancelBegin, ClearBegin, UnshareBegin,
      UnshareWrite, Share

(* A call nobody wants an answer from any more has lost its token or its row. *)
LEMMA StepVoid == ASSUME Types, ArchiveInv, VoidInv, CommitInv, [Next]_vars PROVE VoidInv'
<1> USE DEF Types, VoidInv, Prepared
<1>1. ASSUME NEW r \in Requests, SavedReply(r) \/ Settle(r) \/ SettleFails(r) PROVE VoidInv'
  <2>1. \A q \in Requests \ {r} : row'[q] = row[q] /\ call'[q] = call[q]
    BY <1>1 DEF SavedReply, Settle, SettleFails, Leave, Settled, Cancelled, Failed, database
  <2>2. void' = void \ {r} /\ active' = active \ {r} /\ cancelled' = cancelled \ {r}
    BY <1>1 DEF SavedReply, Settle, SettleFails, Leave
  <2> QED
    BY <2>1, <2>2
<1>2. ASSUME NEW r \in Requests, Ask(r) \/ Lookup(r) \/ Reserve(r) PROVE VoidInv'
  <2>1. r \notin void
    BY <1>2 DEF Ask, Lookup, Reserve
  <2>2. \A q \in Requests \ {r} : row'[q] = row[q] /\ call'[q] = call[q]
    BY <1>2 DEF Ask, Lookup, Reserve, Goto, database
  <2>3. void' = void /\ cancelled' = cancelled /\ active \subseteq active'
    BY <1>2 DEF Ask, Lookup, Reserve
  <2> QED
    BY <2>1, <2>2, <2>3
<1>3. ASSUME NEW r \in Requests, CheckReady(r) \/ Reply(r) \/ Finish(r) \/ Fails(r) \/ Monitor(r) PROVE VoidInv'
  <2>1. UNCHANGED <<row, void, active, cancelled>> /\ \A q \in Requests \ {r} : call'[q] = call[q]
    BY <1>3 DEF CheckReady, Reply, Finish, Fails, Monitor, Goto, database
  <2>2. call'[r].pc \in {"wait", "finish", "commit", "settle"}
    BY <1>3 DEF CheckReady, Reply, Finish, Fails, Monitor, Goto, Call, NoCall
  <2>3. r \in void => r \in cancelled \/ row[r].status \notin Unfinished
    OBVIOUS
  <2> QED
    BY <2>1, <2>2, <2>3
<1>4. ASSUME NEW r \in Requests, Gather(r) PROVE VoidInv'
  <2>1. UNCHANGED <<row, void, active, cancelled>> /\ \A q \in Requests \ {r} : call'[q] = call[q]
    BY <1>4 DEF Gather, Read, Inherit, database
  <2>2. call'[r].pc = call[r].pc
    <3>1. ASSUME NEW s \in Sources, Read(r, s) PROVE call'[r].pc = call[r].pc
      BY <3>1 DEF Read, Call
    <3>2. ASSUME NEW q \in Requests, Inherit(r, q) PROVE call'[r].pc = call[r].pc
      BY <3>2 DEF Inherit, Call
    <3> QED
      BY <1>4, <3>1, <3>2 DEF Gather
  <2> QED
    BY <2>1, <2>2
<1>5. ASSUME NEW r \in Requests, Prepare(r) PROVE VoidInv'
  <2>1. row[r].status \in Unfinished
    BY <1>5 DEF Prepare, Unfinished
  <2> QED
    BY <1>5, <2>1 DEF Prepare
<1>6. ASSUME NEW r \in Requests, Dropped(r) PROVE VoidInv'
  <2>1. r \in active
    BY <1>6 DEF Dropped, Steps
  <2> QED
    BY <1>6, <2>1 DEF Dropped, database
<1>7. ASSUME NEW r \in Requests, CancelBegin(r) PROVE VoidInv'
  BY <1>7 DEF CancelBegin, CancelTokens, database
<1>8. ASSUME NEW r \in Requests, CancelWrite(r) PROVE VoidInv'
  <2>1. UNCHANGED <<active, cancelled, call>>
    BY <1>8 DEF CancelWrite
  <2>2. \/ UNCHANGED <<row, void>>
        \/ row' = Cancelled(r) /\ void' = void \cup ({r} \cap Bereft)
    BY <1>8 DEF CancelWrite
  <2>3. Cancelled(r)[r].status \notin Unfinished /\ \A q \in Requests \ {r} : Cancelled(r)[q] = row[q]
    BY DEF Cancelled, Cancellable, Unfinished, Row
  <2> QED
    BY <2>1, <2>2, <2>3 DEF Bereft
<1>9. CASE ClearBegin \/ UnshareBegin
  BY <1>9 DEF ClearBegin, UnshareBegin, CancelTokens, database
<1>10. CASE ClearWrite \/ DeleteMeeting
  <2>1. UNCHANGED <<active, cancelled, call>> /\ void' = void \cup Bereft
    BY <1>10 DEF ClearWrite, DeleteMeeting, memory
  <2>2. \A r \in Requests : row'[r].status \notin Unfinished
    BY <1>10, Blanks DEF ClearWrite, DeleteMeeting
  <2> QED
    BY <2>1, <2>2 DEF Bereft
<1>11. CASE DeleteDocument
  <2>1. UNCHANGED <<active, cancelled, call>> /\ void' = void \cup {r \in Bereft : row[r].deps["document"] # 0}
    BY <1>11 DEF DeleteDocument, memory
  <2>2. \A r \in Requests : IF row[r].deps["document"] # 0 THEN row'[r].status \notin Unfinished ELSE row'[r] = row[r]
    BY <1>11 DEF DeleteDocument, Tombstone, NoRow, Unfinished
  <2> QED
    BY <2>1, <2>2 DEF Bereft
<1>12. CASE Restore
  BY <1>12 DEF Restore, memory, ArchiveInv
<1>13. CASE Restart
  BY <1>13 DEF Restart
<1>14. CASE UNCHANGED <<row, void, active, cancelled, call>>
  BY <1>14
<1>15. ASSUME NEW r \in Requests, Commit(r) \/ CommitDropped(r) PROVE VoidInv'
  <2>1. active \ {r} \subseteq active' /\ cancelled \ {r} \subseteq cancelled'
    BY <1>15 DEF Commit, CommitDropped, Leave
  <2> QED
    BY <1>15, <2>1, Ends
<1> QED
  BY <1>1, <1>2, <1>3, <1>4, <1>5, <1>6, <1>7, <1>8, <1>9, <1>10, <1>11, <1>12, <1>13, <1>14, <1>15
  DEF Next, AnyStep, CallStep, UserStep, LibraryStep, vars, database, memory, UnshareWrite, Share, Edit

(* A call in its commit is neither void nor written about by anybody.        *)
LEMMA StepCommit == ASSUME Types, VoidInv, CommitInv, [Next]_vars PROVE CommitInv'
<1> USE DEF Types
<1>1. CASE Restart
  BY <1>1 DEF Restart, CommitInv, NoCall
<1>2. ASSUME NEW r \in Requests, Commit(r) \/ CommitDropped(r) PROVE CommitInv'
  BY <1>2, Ends DEF CommitInv, Unchanged
<1>3. CASE AnyStep /\ (Locked => UNCHANGED database)
  <2> SUFFICES ASSUME NEW q \in Requests, call'[q].pc = "commit"
               PROVE  /\ q \notin void'
                      /\ row'[q].status = "running" /\ ~row'[q].restored
                      /\ source'["meeting"].alive /\ Unchanged(row[q].deps)'
    BY DEF CommitInv
  <2>1. CASE call[q].pc = "commit"
    <3>1. UNCHANGED <<source, row>>
      BY <1>3, <2>1 DEF Locked, database
    <3>2. q \notin void
      BY <2>1 DEF CommitInv
    <3>3. q \notin void'
      BY <1>3, <2>1, <3>2 DEF AnyStep, CallStep, Gather, UserStep, LibraryStep, Leave, SavedReply, Lookup, Reserve,
       Prepare, CheckReady, Reply, Finish, Fails, Settle, SettleFails, Read, Inherit, Monitor, Dropped, Ask, CancelBegin,
       CancelWrite, ClearBegin, ClearWrite, UnshareBegin, UnshareWrite, Share, Edit, DeleteDocument, DeleteMeeting,
       Restore, CancelTokens, Bereft, Steps
    <3> QED
      BY <2>1, <3>1, <3>3 DEF CommitInv, Unchanged
  <2>2. CASE call[q].pc # "commit"
    <3>1. Finish(q)
      <4>1. ASSUME NEW r \in Requests, CallStep(r) \/ Gather(r) \/ Monitor(r) \/ Dropped(r), ~Finish(r) PROVE FALSE
        <5>1. CASE Lookup(r) \/ Reserve(r) \/ CheckReady(r) \/ Reply(r)
          BY <2>2, <5>1 DEF Lookup, Reserve, CheckReady, Reply, Goto, Call
        <5>2. CASE SavedReply(r) \/ Settle(r) \/ SettleFails(r)
          BY <2>2, <5>2 DEF SavedReply, Settle, SettleFails, Leave, NoCall
        <5>3. CASE Fails(r) \/ Monitor(r) \/ Dropped(r)
          BY <2>2, <5>3 DEF Fails, Monitor, Dropped, NoCall
        <5>4. CASE Prepare(r)
          BY <2>2, <5>4 DEF Prepare, Call
        <5>5. ASSUME NEW s \in Sources, Read(r, s) PROVE FALSE
          BY <2>2, <5>5 DEF Read, Call
        <5>6. ASSUME NEW p \in Requests, Inherit(r, p) PROVE FALSE
          BY <2>2, <5>6 DEF Inherit, Call
        <5> QED
          BY <4>1, <5>1, <5>2, <5>3, <5>4, <5>5, <5>6 DEF CallStep, Gather
      <4>2. CASE UserStep \/ LibraryStep
        <5>1. ASSUME NEW r \in Requests, Ask(r) PROVE FALSE
          BY <2>2, <5>1 DEF Ask, Goto, Call
        <5>2. (\E r \in Requests : Ask(r)) \/ UNCHANGED call
          BY <4>2 DEF UserStep, LibraryStep, CancelBegin, CancelWrite, ClearBegin, ClearWrite,
             UnshareBegin, UnshareWrite, Share, Edit, DeleteDocument, DeleteMeeting, Restore, memory
        <5> QED
          BY <2>2, <5>1, <5>2
      <4>3. ASSUME NEW r \in Requests, Finish(r) PROVE r = q
        BY <2>2, <4>3 DEF Finish, Goto
      <4> QED
        BY <1>3, <4>1, <4>2, <4>3 DEF AnyStep
    <3>2. UNCHANGED <<source, row, void>> /\ q \notin cancelled /\ CheckIn(q)
      BY <3>1 DEF Finish, TokenLive, database
    <3>3. row[q].status = "running" /\ ~row[q].restored /\ source["meeting"].alive /\ Unchanged(row[q].deps)
      BY <3>2 DEF CheckIn, StillRunning, InScope, Scope, FreshSources, Sources
    <3>4. q \notin void
      BY <3>2, <3>3 DEF VoidInv, Unfinished
    <3> QED
      BY <3>2, <3>3, <3>4 DEF Unchanged
  <2> QED
    BY <2>1, <2>2
<1>4. CASE UNCHANGED vars
  BY <1>4 DEF vars, database, memory, CommitInv, Unchanged
<1> QED
  BY <1>1, <1>2, <1>3, <1>4 DEF Next

LEMMA Invariant == Spec => []IInv
<1>1. IInv /\ [Next]_vars => IInv'
  BY StepTypes, StepSource, StepArchive, StepWorked, StepSaying, StepCalls, StepVoid, StepCommit DEF IInv
<1> QED
  BY InitInv, <1>1, PTL DEF Spec

(* Every variable keeps its type, for any number of requests and entries of  *)
(* the registry, which never has more entries than it may.                   *)
THEOREM AnswerTypes == Spec => []TypeOK
<1>1. Init => FewActive
  BY FS_EmptySet, AnswersAssumption DEF Init, FewActive
<1>2. FewActive /\ [Next]_vars => FewActive'
  <2> SUFFICES ASSUME FewActive, [Next]_vars PROVE FewActive'
    OBVIOUS
  <2>1. ASSUME NEW r \in Requests, Ask(r) PROVE FewActive'
    <3>1. r \notin active /\ Cardinality(active) < MaxActive /\ active' = active \cup {r}
      BY <2>1 DEF Ask
    <3>2. IsFiniteSet(active') /\ Cardinality(active') = Cardinality(active) + 1
      BY <3>1, FS_AddElement DEF FewActive
    <3>3. Cardinality(active) \in Nat
      BY FS_CardinalityType DEF FewActive
    <3> QED
      BY <3>1, <3>2, <3>3, AnswersAssumption DEF FewActive
  <2>2. CASE active' \subseteq active
    BY <2>2, FS_Subset, FS_CardinalityType, AnswersAssumption DEF FewActive
  <2> QED
    BY <2>1, <2>2 DEF Next, AnyStep, CallStep, Gather, UserStep, LibraryStep, vars, memory, Leave, SavedReply, Lookup, Reserve,
       Prepare, CheckReady, Reply, Finish, Fails, Settle, SettleFails, Read, Inherit, Monitor, Dropped, CancelBegin,
       CancelWrite, ClearBegin, ClearWrite, UnshareBegin, UnshareWrite, Share, Edit, DeleteDocument, DeleteMeeting,
       Restore, Restart, Commit, CommitDropped
<1>3. IInv /\ FewActive => TypeOK
  BY DEF IInv, Types, FewActive, TypeOK
<1> QED
  BY <1>1, <1>2, <1>3, Invariant, PTL DEF Spec

(* What may be sent as an earlier turn is true of what its sources say now,  *)
(* for any number of requests, edits and imports (eligible_history).         *)
THEOREM HistoryIsTrue == Spec => []VerifiedIsTrue
<1>1. IInv => VerifiedIsTrue
  BY DEF IInv, Saying, Tell, VerifiedIsTrue, Verifiable, OwnAnswer
<1> QED
  BY <1>1, Invariant, PTL

(* No answer outlives a source it was made from (redacted tombstones).       *)
THEOREM NothingOutlives == Spec => []DeletedIsGone
<1>1. IInv => DeletedIsGone
  BY DEF IInv, Saying, DeletedIsGone
<1> QED
  BY <1>1, Invariant, PTL

(* A row that is being worked on has its call in the registry, unless a      *)
(* terminal write failed: no request is blocked until the next start.        *)
THEOREM RunningIsRegistered == Spec => []OnlyRegisteredRun
<1>1. IInv => OnlyRegisteredRun
  BY DEF IInv, Worked, OnlyRegisteredRun
<1> QED
  BY <1>1, Invariant, PTL

(* Nothing is saved for a call whose answer nobody may see, and what is      *)
(* saved is true at that moment (finish, and the tokens the commands cancel). *)
THEOREM SavedIsWanted == Spec => OnlyWanted
<1>1. IInv /\ [Next]_vars => [Wanted]_vars
  <2> SUFFICES ASSUME IInv, [Next]_vars, NEW r \in Requests, row[r].status = "running", row'[r].status = "completed"
               PROVE  /\ r \notin void
                      /\ \A s \in Sources : row'[r].says[s] \in {0, source[s].text}
    BY DEF Wanted
  <2> USE DEF IInv, Types
  <2>1. (Commit(r) \/ CommitDropped(r)) /\ row' = Committed(r)
    <3>1. CASE UNCHANGED <<source, row, archive, edits>>
      BY <3>1
    <3>2. ASSUME NEW q \in Requests, Reserve(q) PROVE FALSE
      BY <3>2 DEF Reserve, Retriable, NoRow, Row
    <3>3. ASSUME NEW q \in Requests, Prepare(q) PROVE FALSE
      BY <3>3 DEF Prepare, Row
    <3>4. ASSUME NEW q \in Requests, Settle(q) \/ CancelWrite(q) PROVE FALSE
      <4>1. row' \in {row, Cancelled(q), Failed(q)}
        BY <3>4 DEF Settle, CancelWrite, Settled
      <4> QED
        BY <4>1 DEF Cancelled, Failed, Row
    <3>5. ASSUME NEW q \in Requests, Commit(q) \/ CommitDropped(q) PROVE q = r /\ row' = Committed(r)
      BY <3>5, Ends
    <3>6. CASE \E s \in Sources : Edit(s)
      BY <3>6 DEF Edit
    <3>7. CASE ClearWrite \/ DeleteMeeting
      BY <3>7 DEF ClearWrite, DeleteMeeting, NoRow
    <3>8. CASE DeleteDocument
      BY <3>8 DEF DeleteDocument, Tombstone, NoRow
    <3>9. CASE Restore
      <4>1. row[r] = NoRow
        BY <3>9 DEF Restore, SourceInv
      <4> QED
        BY <4>1 DEF NoRow
    <3>10. CASE Restart
      BY <3>10 DEF Restart, Unfinished, Row
    <3> QED
      BY Writers, <3>1, <3>2, <3>3, <3>4, <3>5, <3>6, <3>7, <3>8, <3>9, <3>10
  <2>2. r \notin void /\ row'[r].says = call[r].text /\ call[r].pc = "commit" /\ row[r].status = "running"
    BY <2>1, Ends
  <2>3. \A s \in Sources : row[r].deps[s] # 0 => source[s].alive /\ source[s].rev = row[r].deps[s]
    BY <2>1, Ends DEF Unchanged
  <2> QED
    BY <2>2, <2>3 DEF CallInv, Prepared, Tell
<1> QED
  BY <1>1, Invariant, PTL DEF Spec, OnlyWanted

(* An answer stays as it is, or goes with its conversation or a source.      *)
THEOREM AnswersAreFinal == Spec => AnswerIsFinal
<1>1. IInv /\ [Next]_vars => [Final]_vars
  <2> SUFFICES ASSUME IInv, [Next]_vars, NEW r \in Requests, row[r].status = "completed"
               PROVE  \/ row'[r] = row[r]
                      \/ row'[r].status = "none"
                      \/ row'[r].status = "invalidated" /\ \E s \in Sources : source[s].alive /\ ~source'[s].alive
    BY DEF Final
  <2> USE DEF IInv, Types
  <2>1. CASE UNCHANGED <<source, row, archive, edits>>
    BY <2>1
  <2>2. ASSUME NEW q \in Requests, Reserve(q) \/ Prepare(q) \/ Commit(q) \/ CommitDropped(q)
        PROVE  row'[r] = row[r]
    <3>1. q # r
      BY <2>2, Ends DEF Reserve, Retriable, Prepare
    <3> QED
      BY <2>2, <3>1, Ends DEF Reserve, Prepare
  <2>3. ASSUME NEW q \in Requests, Settle(q) \/ CancelWrite(q) PROVE row'[r] = row[r]
    <3>1. row' \in {row, Cancelled(q), Failed(q)}
      BY <2>3 DEF Settle, CancelWrite, Settled
    <3> QED
      BY <3>1 DEF Cancelled, Failed, Cancellable, Unfinished, Retriable
  <2>4. CASE \E s \in Sources : Edit(s)
    BY <2>4 DEF Edit
  <2>5. CASE ClearWrite \/ DeleteMeeting
    BY <2>5 DEF ClearWrite, DeleteMeeting, NoRow
  <2>6. CASE DeleteDocument
    <3>1. source["document"].alive /\ ~source'["document"].alive
      BY <2>6 DEF DeleteDocument, Sources, Gone
    <3>2. row'[r] = row[r] \/ row'[r].status = "invalidated"
      BY <2>6 DEF DeleteDocument, Tombstone, NoRow
    <3> QED
      BY <3>1, <3>2 DEF Sources
  <2>7. CASE Restore
    <3>1. row[r] = NoRow
      BY <2>7 DEF Restore, SourceInv
    <3> QED
      BY <3>1 DEF NoRow
  <2>8. CASE Restart
    BY <2>8 DEF Restart, Unfinished
  <2> QED
    BY Writers, <2>1, <2>2, <2>3, <2>4, <2>5, <2>6, <2>7, <2>8
<1> QED
  BY <1>1, Invariant, PTL DEF Spec, AnswerIsFinal
=============================================================================
