-------------------------- MODULE EventPathProofs --------------------------
(***************************************************************************)
(* Proofs about EventPath: for every driver, every number of helpers,      *)
(* pieces, events and outages, the server holds one session at most, an    *)
(* open database has its query, what is reported is stored, and a login is *)
(* recorded once and as a whole.                                           *)
(***************************************************************************)
EXTENDS EventPath, SequenceLemmas

-----------------------------------------------------------------------------
(* The database thread and its driver.                                     *)

DbTypeOK ==
    /\ driver \in Drivers
    /\ phase \in {"opening", "serving", "closed"}
    /\ handle \in {"none", "live", "dead"}
    /\ query \in BOOLEAN
    /\ sessions \in Nat
    /\ reachable \in BOOLEAN
    /\ popped \in Nat
    /\ stored \in Seq(Nat) /\ buffered \in Seq(Nat)

\* A session has its handle, and db_close leaves neither.
SessionHeld ==
    /\ sessions = IF handle = "live" THEN 1 ELSE 0
    /\ phase = "closed" => handle = "none"

\* An open that failed has left nothing behind; SQLite3 and CSV files are excepted.
Prepared ==
    driver \in {"postgresql", "mysql"} =>
        /\ phase = "opening" => handle = "none"
        /\ phase = "serving" => query

\* What is stored or buffered comes in the order of the pops, and only a CSV file buffers.
Ordered ==
    /\ Increasing(stored \o buffered)
    /\ AtMost(stored \o buffered, popped)
    /\ driver # "csvfile" => buffered = <<>>

Kept == (driver = "csvfile" /\ phase = "closed") \/ reported \subseteq Range(stored \o buffered)

DbInv == DbTypeOK /\ SessionHeld /\ Prepared /\ Ordered /\ Kept

-----------------------------------------------------------------------------
\* A step of the database thread keeps what DbSession promises.
LEMMA DbInitial == Init => DbInv
<1>1. SUFFICES ASSUME Init PROVE DbInv
    OBVIOUS
<1>2. stored \o buffered = <<>>
    BY <1>1 DEF Init
<1>3. Increasing(stored \o buffered) /\ AtMost(stored \o buffered, popped)
    BY <1>2 DEF Increasing, AtMost
<1>4. reported = {}
    BY <1>1 DEF Init
<1>5. DbTypeOK
    <2>1. stored \in Seq(Nat) /\ buffered \in Seq(Nat)
        BY <1>1, EmptySeq DEF Init
    <2> QED BY <1>1, <2>1 DEF Init, DbTypeOK
<1> QED
    BY <1>1, <1>3, <1>4, <1>5 DEF Init, DbInv, SessionHeld, Prepared, Ordered, Kept

LEMMA DbSteps == DbInv /\ [Next]_vars => DbInv'
<1> SUFFICES ASSUME DbInv, [Next]_vars
             PROVE  DbInv'
    OBVIOUS
<1> USE DbSessionAssumption
<1>1. CASE UNCHANGED vars
    BY <1>1 DEF vars, server, answers, DbInv, DbTypeOK, SessionHeld, Prepared, Ordered, Kept
<1>2. CASE OpenStep \/ ServerLost \/ ServerBack
    <2>1. UNCHANGED <<driver, answers>>
        BY <1>2 DEF OpenStep, OpenAgain, OpenSucceeds, ConnectFails, PrepareFails, Opened, Refused,
           ServerLost, ServerBack
    <2>2. (phase = "closed") <=> (phase' = "closed")
        BY <1>2 DEF OpenStep, OpenAgain, OpenSucceeds, ConnectFails, PrepareFails, Opened, Refused,
           ServerLost, ServerBack
    <2>3. Ordered' /\ Kept'
        BY <2>1, <2>2 DEF DbInv, Ordered, Kept, answers
    <2>4. DbTypeOK'
        <3>1. phase' \in {"opening", "serving", "closed"} /\ reachable' \in BOOLEAN
            BY <1>2 DEF OpenStep, OpenAgain, OpenSucceeds, ConnectFails, PrepareFails, Opened, Refused,
               ServerLost, ServerBack, DbInv, DbTypeOK, server
        <3>2. handle' \in {"none", "live", "dead"} /\ sessions' \in Nat
            BY <1>2 DEF OpenStep, OpenAgain, OpenSucceeds, ConnectFails, PrepareFails, Closed,
               ServerLost, ServerBack, DbInv, DbTypeOK
        <3>3. query' \in BOOLEAN
            BY <1>2, ZenonT(30) DEF OpenStep, OpenAgain, OpenSucceeds, ConnectFails, PrepareFails,
               Closed, ServerLost, ServerBack, DbInv, DbTypeOK
        <3> QED BY <2>1, <3>1, <3>2, <3>3 DEF DbInv, DbTypeOK, answers
    <2>5. SessionHeld'
        BY <1>2, <2>1, <2>2 DEF OpenStep, OpenAgain, OpenSucceeds, ConnectFails, PrepareFails,
           Closed, Opened, Refused, ServerLost, ServerBack, DbInv, DbTypeOK, SessionHeld
    <2>6. Prepared'
        BY <1>2, <2>1 DEF OpenStep, OpenAgain, OpenSucceeds, ConnectFails, PrepareFails, Closed,
           Opened, Refused, ServerLost, ServerBack, DbInv, DbTypeOK, Prepared
    <2> QED BY <2>3, <2>4, <2>5, <2>6 DEF DbInv
<1>3. CASE LogStep
    <2>1. /\ popped' = popped + 1
          /\ UNCHANGED <<driver, phase, handle, query, sessions, server>>
        BY <1>3 DEF LogStep, LogSucceeds, LogFails, LogAnswerLost, LogNotFlushed, Pops
    <2>2. SessionHeld' /\ Prepared'
        BY <2>1 DEF DbInv, SessionHeld, Prepared
    <2> DEFINE all == stored \o buffered
    <2>3. /\ all \in Seq(Nat) /\ popped \in Nat
          /\ Increasing(all) /\ AtMost(all, popped)
        BY ConcatProperties DEF DbInv, DbTypeOK, Ordered
    <2>4. CASE UNCHANGED <<stored, buffered, reported>>
        <3>1. AtMost(all, popped + 1)
            BY <2>3 DEF AtMost
        <3> QED
            BY <2>1, <2>2, <2>4, <3>1 DEF DbInv, DbTypeOK, Ordered, Kept, server
    <2>5. CASE /\ stored' \o buffered' = Append(all, popped + 1)
               /\ reported' \subseteq reported \cup {popped + 1}
               /\ stored' \in Seq(Nat) /\ buffered' \in Seq(Nat)
               /\ driver # "csvfile" => buffered' = <<>>
        <3>1. /\ Increasing(stored' \o buffered')
              /\ AtMost(stored' \o buffered', popped + 1)
              /\ Range(stored' \o buffered') = Range(all) \cup {popped + 1}
            BY <2>3, <2>5, AppendIncreases
        <3>2. Ordered' /\ Kept'
            BY <2>1, <2>5, <3>1 DEF DbInv, Ordered, Kept
        <3>3. DbTypeOK'
            BY <2>1, <2>5 DEF DbInv, DbTypeOK, server
        <3> QED BY <2>2, <3>2, <3>3 DEF DbInv
    <2>6. CASE LogSucceeds
        <3>1. Append(buffered, popped + 1) \in Seq(Nat)
            BY DEF DbInv, DbTypeOK
        <3>2. stored \o Append(buffered, popped + 1) \in Seq(Nat)
            BY <3>1, ConcatProperties DEF DbInv, DbTypeOK
        <3>3. stored' \o buffered' = Append(all, popped + 1)
            BY <2>1, <2>6, <3>2, AppendBehind, ConcatEmptySeq DEF LogSucceeds, DbInv, DbTypeOK
        <3> QED BY <2>1, <2>5, <2>6, <3>2, <3>3 DEF LogSucceeds
    <2>7. CASE LogFails
        BY <2>4, <2>7 DEF LogFails
    <2>8. CASE LogAnswerLost
        <3>1. buffered = <<>>
            BY <2>8 DEF LogAnswerLost, DbInv, Ordered
        <3>2. stored' \in Seq(Nat) /\ all = stored
            BY <2>1, <2>8, <3>1, ConcatEmptySeq DEF LogAnswerLost, DbInv, DbTypeOK
        <3>3. stored' \o buffered' = Append(all, popped + 1)
            BY <2>1, <2>8, <3>1, <3>2, ConcatEmptySeq DEF LogAnswerLost
        <3> QED BY <2>5, <2>8, <3>1, <3>2, <3>3 DEF LogAnswerLost, DbInv, DbTypeOK
    <2>9. CASE LogNotFlushed
        <3>1. buffered' = Append(buffered, popped + 1) /\ buffered' \in Seq(Nat)
            BY <2>1, <2>9 DEF LogNotFlushed, DbInv, DbTypeOK
        <3>2. stored' \o buffered' = Append(all, popped + 1)
            BY <2>1, <2>9, <3>1, AppendBehind DEF LogNotFlushed, DbInv, DbTypeOK
        <3> QED BY <2>1, <2>5, <2>9, <3>1, <3>2 DEF LogNotFlushed, DbInv, DbTypeOK
    <2> QED BY <1>3, <2>6, <2>7, <2>8, <2>9 DEF LogStep
<1>4. CASE Close
    <2> DEFINE all == stored \o buffered
    <2>1. /\ stored \in Seq(Nat) /\ buffered \in Seq(Nat) /\ all \in Seq(Nat)
          /\ Increasing(all) /\ AtMost(all, popped)
        BY ConcatProperties DEF DbInv, DbTypeOK, Ordered
    <2>2. stored' \in {stored, all} /\ buffered' = <<>>
        BY <1>4 DEF Close
    <2>3. DbTypeOK' /\ stored' \o buffered' \in {stored, all}
        <3>1. stored' \in Seq(Nat) /\ buffered' \in Seq(Nat)
            BY <2>1, <2>2, EmptySeq
        <3>2. stored' \o buffered' = stored'
            BY <2>2, <3>1, ConcatEmptySeq
        <3>3. handle = "live" => sessions = 1
            BY DEF DbInv, SessionHeld
        <3>4. sessions' \in Nat
            BY <1>4, <3>3 DEF Close, Closed, DbInv, DbTypeOK
        <3> QED BY <1>4, <2>2, <3>1, <3>2, <3>4 DEF Close, Closed, server, DbInv, DbTypeOK
    <2>4. SessionHeld' /\ Prepared'
        BY <1>4 DEF Close, Closed, DbInv, DbTypeOK, SessionHeld, Prepared
    <2>5. Increasing(stored) /\ AtMost(stored, popped)
        <3>1. /\ DOMAIN stored \subseteq DOMAIN all
              /\ \A i \in DOMAIN stored : all[i] = stored[i]
            BY <2>1
        <3> QED BY <2>1, <3>1 DEF Increasing, AtMost
    <2>6. Ordered'
        BY <1>4, <2>1, <2>3, <2>5 DEF Close, DbInv, Ordered
    <2>7. driver # "csvfile" => stored' \o buffered' = stored \o buffered
        <3>1. driver # "csvfile" => all = stored
            BY <2>1, ConcatEmptySeq DEF DbInv, Ordered
        <3> QED BY <2>3, <3>1
    <2>8. Kept'
        BY <1>4, <2>7 DEF Close, DbInv, Kept
    <2> QED BY <2>3, <2>4, <2>6, <2>8 DEF DbInv
<1> QED BY <1>1, <1>2, <1>3, <1>4 DEF Next

-----------------------------------------------------------------------------
\* The whole way of an event has DbSession in it: what the helpers and the event thread
\* do leaves the database thread alone.
THEOREM ImplementsDbSession == PathSpec => Spec
<1>1. PathInit => Init
    BY DEF PathInit
<1>2. [PathNext]_pathVars => [Next]_vars
    <2>1. ASSUME UNCHANGED pathVars PROVE UNCHANGED vars
        BY <2>1 DEF pathVars
    <2>2. ASSUME PathNext PROVE [Next]_vars
        BY <2>2 DEF PathNext, Logs, Next
    <2> QED BY <2>1, <2>2
<1> QED BY <1>1, <1>2, PTL DEF PathSpec, Spec

\* The inductive invariant of the database thread.
THEOREM DbInvariance == PathSpec => []DbInv
<1>1. Spec => []DbInv
    BY DbInitial, DbSteps, PTL DEF Spec
<1> QED BY <1>1, ImplementsDbSession, PTL

\* The server holds the session of the handle and no other, however often the connection
\* is tried, and none after db_close (db_instance_postgresql.c:322-399).
THEOREM SessionsCounted == PathSpec => []OneSession
<1>1. DbInv => OneSession
    BY DEF DbInv, SessionHeld, OneSession
<1> QED BY <1>1, DbInvariance, PTL

\* With PostgreSQL and MySQL an open that reports success has prepared the query
\* (db_instance_postgresql.c:340-375, db_instance_mysql.c:212-280).
THEOREM QueryPrepared == PathSpec => []OpenMeansPrepared
<1>1. DbInv => OpenMeansPrepared
    BY DEF DbInv, Prepared, OpenMeansPrepared
<1> QED BY <1>1, DbInvariance, PTL

\* What is reported as logged is stored, once and in order; a closed CSV file is excepted
\* (db_instance_csvfile.c:185-224).
THEOREM ReportsAreTrue == PathSpec => []LoggedIsStored
<1>1. DbInv => LoggedIsStored
    BY DEF DbInv, Ordered, Kept, Increasing, Range, LoggedIsStored
<1> QED BY <1>1, DbInvariance, PTL

-----------------------------------------------------------------------------
(* The helpers and the event thread.                                       *)

Records == Helpers \cup {Garbled}

PathTypeOK ==
    /\ long \in LongNames
    /\ helper \in [Helpers -> {"connect", "send", "sent", "failed", "expired"}]
    /\ left \in [Helpers -> 0..Parts]
    /\ advanced \in [Helpers -> BOOLEAN]
    /\ conn \in [Helpers -> {"none", "open", "closed"}]
    /\ wire \in [Helpers -> Seq({"good", "bad"})]
    /\ backlog \in Seq(Helpers)
    /\ reading \in Helpers \cup {NoHelper}
    /\ at_close \in BOOLEAN
    /\ at_close => reading # NoHelper
    /\ queue \in Seq(Records) /\ handed \in Seq(Records)

\* A connection is in the backlog or with the event thread once, until it is closed.
Connected ==
    /\ \A i, j \in DOMAIN backlog : backlog[i] = backlog[j] => i = j
    /\ \A i \in DOMAIN backlog : conn[backlog[i]] = "open" /\ backlog[i] # reading
    /\ reading # NoHelper => conn[reading] = "open"

\* What is not left has been sent over the connection there is.
Sending ==
    \A h \in Helpers :
        /\ conn[h] = "open" => Len(wire[h]) + left[h] = Parts
        /\ helper[h] = "connect" => left[h] = Parts /\ conn[h] # "open"
        /\ helper[h] = "failed" => left[h] > 0

\* The record of a helper that has sent it all is in the queue or beyond, and the event
\* thread has done with the connection it came over.
Arrives(h) ==
    /\ left[h] = 0
    /\ h = reading => at_close
    /\ \A i \in DOMAIN backlog : backlog[i] # h

\* Each event that has come as far as the queue is what one helper sent, and no two are
\* of the same helper.
SentBy(of) ==
    /\ of \in [1..Len(Arrived) -> Helpers]
    /\ IsInjective(of)
    /\ \A i \in 1..Len(Arrived) : Arrived[i] = Record(of[i]) /\ Arrives(of[i])

ArrivedOnce == \E of : SentBy(of)

PathInv == PathTypeOK /\ Connected /\ Sending /\ ArrivedOnce

-----------------------------------------------------------------------------
\* What the seven steps of the helpers and the four of the event thread keep.
LEMMA PathInitial == PathInit => PathInv
<1>1. SUFFICES ASSUME PathInit PROVE PathInv
    OBVIOUS
<1>2. Arrived = <<>>
    BY <1>1 DEF PathInit, HelperInit, Arrived
<1>3. /\ <<>> \in Seq(Records) /\ <<>> \in Seq(Helpers) /\ <<>> \in Seq({"good", "bad"})
      /\ DOMAIN <<>> = {}
    OBVIOUS
<1>4. PathTypeOK
    <2>1. /\ wire \in [Helpers -> Seq({"good", "bad"})]
          /\ backlog \in Seq(Helpers)
          /\ queue \in Seq(Records) /\ handed \in Seq(Records)
        BY <1>1, <1>3 DEF PathInit, HelperInit
    <2>2. left \in [Helpers -> 0..Parts]
        BY <1>1, PamHelperAssumption DEF PathInit, HelperInit
    <2> QED BY <1>1, <2>1, <2>2 DEF PathInit, HelperInit, PathTypeOK
<1>5. Connected /\ Sending
    BY <1>1, <1>3, PamHelperAssumption DEF PathInit, HelperInit, Connected, Sending
<1>6. ArrivedOnce
    <2>1. Len(Arrived) = 0
        BY <1>2
    <2>2. 1..Len(Arrived) = {}
        BY <2>1
    <2>3. SentBy([i \in 1..Len(Arrived) |-> NoHelper])
        BY <2>2 DEF SentBy, IsInjective
    <2> QED BY <2>3 DEF ArrivedOnce
<1> QED BY <1>4, <1>5, <1>6 DEF PathInv

LEMMA TypeStays ==
    ASSUME PathTypeOK, HelperStep \/ ThreadStep, UNCHANGED handed
    PROVE  PathTypeOK'
<1> USE PamHelperAssumption
<1>1. ASSUME NEW h \in Helpers, HelperConnects(h) PROVE PathTypeOK'
    BY <1>1 DEF HelperConnects, Becomes, thread, PathTypeOK
<1>2. ASSUME NEW h \in Helpers, HelperSends(h) PROVE PathTypeOK'
    <2>1. PICK n \in 1..left[h] :
              /\ wire' = [wire EXCEPT ![h] =
                              @ \o [k \in 1..n |-> IF advanced[h] THEN "bad" ELSE "good"]]
              /\ left' = [left EXCEPT ![h] = @ - n]
        BY <1>2 DEF HelperSends
    <2>2. left[h] \in 0..Parts /\ n \in Nat
        BY <1>2 DEF PathTypeOK
    <2>3. left' \in [Helpers -> 0..Parts]
        BY <2>1, <2>2 DEF PathTypeOK
    <2> DEFINE sent == [k \in 1..n |-> IF advanced[h] THEN "bad" ELSE "good"]
    <2>4. sent \in Seq({"good", "bad"})
        BY <2>2, IsASeq
    <2>5. wire[h] \o sent \in Seq({"good", "bad"})
        BY <1>2, <2>4, ConcatProperties DEF PathTypeOK
    <2>6. wire' \in [Helpers -> Seq({"good", "bad"})]
        BY <2>1, <2>5 DEF PathTypeOK
    <2> QED BY <1>2, <2>3, <2>6 DEF HelperSends, thread, PathTypeOK
<1>3. ASSUME NEW h \in Helpers,
             HelperIsReset(h) \/ HelperFails(h) \/ HelperFinishes(h) \/ HelperExpires(h)
      PROVE  PathTypeOK'
    <2>1. CASE HelperIsReset(h)
        BY <1>3, <2>1 DEF HelperIsReset, Becomes, socket, thread, PathTypeOK
    <2>2. CASE HelperFails(h)
        BY <1>3, <2>2 DEF HelperFails, Becomes, socket, thread, PathTypeOK
    <2>3. CASE HelperFinishes(h)
        BY <1>3, <2>3 DEF HelperFinishes, Becomes, socket, thread, PathTypeOK
    <2>4. CASE HelperExpires(h)
        BY <1>3, <2>4 DEF HelperExpires, Becomes, socket, thread, PathTypeOK
    <2> QED BY <1>3, <2>1, <2>2, <2>3, <2>4
<1>4. CASE ThreadAccepts
    <2>1. Head(backlog) \in Helpers /\ Tail(backlog) \in Seq(Helpers)
        BY <1>4, HeadTailProperties DEF ThreadAccepts, PathTypeOK
    <2>2. backlog' \in Seq(Helpers) /\ reading' \in Helpers
        BY <1>4, <2>1 DEF ThreadAccepts
    <2> QED BY <1>4, <2>2 DEF ThreadAccepts, PathTypeOK
<1>5. CASE ThreadReceives
    <2>1. reading \in Helpers
        BY <1>5 DEF ThreadReceives, PathTypeOK
    <2>2. Record(reading) \in Records
        BY <2>1 DEF Record, Records
    <2>3. queue' \in {queue, Append(queue, Record(reading))}
        BY <1>5 DEF ThreadReceives
    <2>4. queue' \in Seq(Records)
        <3>1. queue \in Seq(Records)
            BY DEF PathTypeOK
        <3>2. Append(queue, Record(reading)) \in Seq(Records)
            BY <2>2, <3>1, AppendProperties
        <3> QED BY <2>3, <3>1, <3>2
    <2> QED BY <1>5, <2>4 DEF ThreadReceives, socket, PathTypeOK
<1>6. CASE ThreadReadsShort
    BY <1>6 DEF ThreadReadsShort, socket, PathTypeOK
<1>7. CASE ThreadCloses
    BY <1>7 DEF ThreadCloses, PathTypeOK
<1> QED
    BY <1>1, <1>2, <1>3, <1>4, <1>5, <1>6, <1>7 DEF HelperStep, ThreadStep

\* The length of what has been sent after a send() of n pieces.
LEMMA SentLength ==
    ASSUME PathTypeOK, NEW h \in Helpers, HelperSends(h)
    PROVE  /\ left'[h] < left[h]
           /\ Len(wire'[h]) + left'[h] = Len(wire[h]) + left[h]
           /\ \A g \in Helpers : g # h => left'[g] = left[g] /\ wire'[g] = wire[g]
<1>1. PICK n \in 1..left[h] :
          /\ wire' = [wire EXCEPT ![h] =
                          @ \o [k \in 1..n |-> IF advanced[h] THEN "bad" ELSE "good"]]
          /\ left' = [left EXCEPT ![h] = @ - n]
    BY DEF HelperSends
<1>2. left[h] \in Nat /\ n \in Nat \ {0} /\ wire[h] \in Seq({"good", "bad"})
    BY PamHelperAssumption DEF PathTypeOK
<1> DEFINE sent == [k \in 1..n |-> IF advanced[h] THEN "bad" ELSE "good"]
<1>3. sent \in Seq({"good", "bad"}) /\ Len(sent) = n
    BY <1>2, IsASeq
<1>4. Len(wire[h] \o sent) = Len(wire[h]) + n
    BY <1>2, <1>3, ConcatProperties
<1>5. wire'[h] = wire[h] \o sent /\ left'[h] = left[h] - n
    BY <1>1 DEF PathTypeOK
<1>6. Len(wire[h]) \in Nat
    BY <1>2
<1>7. \A g \in Helpers : g # h => left'[g] = left[g] /\ wire'[g] = wire[g]
    BY <1>1 DEF PathTypeOK
<1> QED BY <1>2, <1>4, <1>5, <1>6, <1>7

LEMMA ConnectedStays ==
    ASSUME PathTypeOK, Connected, Sending, HelperStep \/ ThreadStep
    PROVE  Connected'
<1>1. CASE UNCHANGED <<conn, backlog, reading>>
    BY <1>1 DEF Connected
<1>2. ASSUME NEW h \in Helpers, HelperConnects(h) PROVE Connected'
    <2>1. conn[h] # "open"
        BY <1>2 DEF HelperConnects, Sending
    <2>2. /\ Len(backlog) \in Nat
          /\ DOMAIN backlog = 1..Len(backlog) /\ DOMAIN backlog' = 1..Len(backlog) + 1
          /\ \A i \in DOMAIN backlog : backlog'[i] = backlog[i] /\ backlog[i] \in Helpers
          /\ backlog'[Len(backlog) + 1] = h
        BY <1>2 DEF HelperConnects, PathTypeOK
    <2>3. /\ \A i \in DOMAIN backlog : backlog[i] # h
          /\ h # reading
        BY <2>1, PamHelperAssumption DEF Connected
    <2>4. UNCHANGED reading /\ conn' = [conn EXCEPT ![h] = "open"]
        BY <1>2 DEF HelperConnects, thread
    <2>5. conn'[h] = "open" /\ \A g \in Helpers : conn[g] = "open" => conn'[g] = "open"
        BY <2>4 DEF PathTypeOK
    <2>6. \A i, j \in DOMAIN backlog' : backlog'[i] = backlog'[j] => i = j
        BY <2>2, <2>3 DEF Connected
    <2>7. \A i \in DOMAIN backlog' : conn'[backlog'[i]] = "open" /\ backlog'[i] # reading'
        BY <2>2, <2>3, <2>4, <2>5 DEF Connected
    <2>8. reading' # NoHelper => conn'[reading'] = "open"
        BY <2>4, <2>5 DEF Connected, PathTypeOK
    <2> QED BY <2>6, <2>7, <2>8 DEF Connected
<1>3. CASE ThreadAccepts
    <2>1. /\ Len(backlog) \in Nat
          /\ DOMAIN backlog = 1..Len(backlog) /\ DOMAIN backlog' = 1..Len(backlog) - 1
          /\ \A i \in DOMAIN backlog' : backlog'[i] = backlog[i + 1]
          /\ 1 \in DOMAIN backlog /\ reading' = backlog[1]
        BY <1>3, HeadTailProperties DEF ThreadAccepts, PathTypeOK
    <2>2. UNCHANGED conn
        BY <1>3 DEF ThreadAccepts
    <2>3. \A i \in DOMAIN backlog' : i + 1 \in DOMAIN backlog /\ i + 1 # 1
        BY <2>1
    <2>4. \A i, j \in DOMAIN backlog' : backlog'[i] = backlog'[j] => i = j
        <3>1. SUFFICES ASSUME NEW i \in DOMAIN backlog', NEW j \in DOMAIN backlog',
                              backlog'[i] = backlog'[j]
                       PROVE  i = j
            OBVIOUS
        <3>2. i + 1 = j + 1
            BY <2>1, <2>3, <3>1 DEF Connected
        <3> QED BY <2>1, <3>2
    <2>5. \A i \in DOMAIN backlog' : conn'[backlog'[i]] = "open" /\ backlog'[i] # reading'
        BY <2>1, <2>2, <2>3 DEF Connected
    <2> QED BY <2>1, <2>2, <2>4, <2>5 DEF Connected
<1>4. CASE ThreadCloses
    <2>1. /\ UNCHANGED backlog /\ reading' = NoHelper
          /\ \A i \in DOMAIN backlog : backlog[i] \in Helpers
        BY <1>4 DEF ThreadCloses, PathTypeOK
    <2>2. \A g \in Helpers : g # reading => conn'[g] = conn[g]
        BY <1>4 DEF ThreadCloses, PathTypeOK
    <2> QED BY <2>1, <2>2, PamHelperAssumption DEF Connected
<1>5. ASSUME NEW h \in Helpers,
             HelperSends(h) \/ HelperIsReset(h) \/ HelperFails(h) \/ HelperFinishes(h) \/ HelperExpires(h)
      PROVE  UNCHANGED <<conn, backlog, reading>>
    BY <1>5 DEF HelperSends, HelperIsReset, HelperFails, HelperFinishes, HelperExpires, socket, thread
<1>6. ASSUME ThreadReceives \/ ThreadReadsShort PROVE UNCHANGED <<conn, backlog, reading>>
    BY <1>6 DEF ThreadReceives, ThreadReadsShort, socket
<1> QED BY <1>1, <1>2, <1>3, <1>4, <1>5, <1>6 DEF HelperStep, ThreadStep

LEMMA SendingStays ==
    ASSUME PathTypeOK, Connected, Sending, HelperStep \/ ThreadStep
    PROVE  Sending'
<1> USE PamHelperAssumption
<1>1. ASSUME NEW h \in Helpers, HelperConnects(h) PROVE Sending'
    <2>1. /\ UNCHANGED left /\ left[h] = Parts
          /\ helper'[h] = "send" /\ wire'[h] = <<>>
          /\ \A g \in Helpers : g # h => /\ helper'[g] = helper[g] /\ conn'[g] = conn[g]
                                         /\ wire'[g] = wire[g]
        BY <1>1 DEF HelperConnects, Becomes, PathTypeOK, Sending
    <2>2. Len(<<>>) = 0
        OBVIOUS
    <2> QED BY <2>1, <2>2 DEF Sending
<1>2. ASSUME NEW h \in Helpers, HelperSends(h) PROVE Sending'
    <2>1. /\ Len(wire'[h]) + left'[h] = Len(wire[h]) + left[h]
          /\ \A g \in Helpers : g # h => left'[g] = left[g] /\ wire'[g] = wire[g]
        BY <1>2, SentLength
    <2>2. UNCHANGED <<helper, conn>> /\ helper[h] = "send"
        BY <1>2 DEF HelperSends
    <2> QED BY <2>1, <2>2 DEF Sending
<1>3. ASSUME NEW h \in Helpers, HelperIsReset(h) PROVE Sending'
    <2>1. /\ UNCHANGED <<conn, wire>> /\ conn[h] = "closed"
          /\ helper'[h] = "connect" /\ left'[h] = Parts
          /\ \A g \in Helpers : g # h => helper'[g] = helper[g] /\ left'[g] = left[g]
        BY <1>3 DEF HelperIsReset, Becomes, socket, PathTypeOK
    <2> QED BY <2>1 DEF Sending
<1>4. ASSUME NEW h \in Helpers, HelperFails(h) \/ HelperFinishes(h) \/ HelperExpires(h)
      PROVE  Sending'
    <2>1. /\ UNCHANGED <<conn, wire, left>>
          /\ helper'[h] \in {"sent", "failed", "expired"}
          /\ helper'[h] = "failed" => left[h] > 0
          /\ \A g \in Helpers : g # h => helper'[g] = helper[g]
        BY <1>4 DEF HelperFails, HelperFinishes, HelperExpires, Becomes, socket, PathTypeOK
    <2> QED BY <2>1 DEF Sending
<1>5. CASE ThreadStep
    <2>1. UNCHANGED <<helper, left, wire>>
        BY <1>5 DEF ThreadStep, ThreadAccepts, ThreadReceives, ThreadReadsShort, ThreadCloses, socket
    <2>2. \A h \in Helpers : conn'[h] = "open" => conn[h] = "open"
        BY <1>5 DEF ThreadStep, ThreadAccepts, ThreadReceives, ThreadReadsShort, ThreadCloses, socket,
           PathTypeOK
    <2> QED BY <2>1, <2>2 DEF Sending
<1> QED BY <1>1, <1>2, <1>3, <1>4, <1>5 DEF HelperStep

\* A record that has arrived stays as it is: a helper with nothing left neither sends nor
\* starts again.
LEMMA ArrivesStays ==
    ASSUME PathInv, HelperStep \/ ThreadStep, NEW b \in Helpers, Arrives(b)
    PROVE  Arrives(b)' /\ Record(b)' = Record(b)
<1> USE PamHelperAssumption
<1>1. PathTypeOK /\ Connected /\ Sending
    BY DEF PathInv
<1>2. /\ left[b] = 0
      /\ b = reading => at_close
      /\ \A i \in DOMAIN backlog : backlog[i] # b
    BY DEF Arrives
<1>3. SUFFICES /\ left'[b] = 0 /\ wire'[b] = wire[b]
               /\ b = reading' => at_close'
               /\ \A i \in DOMAIN backlog' : backlog'[i] # b
    BY DEF Arrives, Record
<1>4. ASSUME NEW h \in Helpers, HelperConnects(h)
      PROVE  left'[b] = 0 /\ wire'[b] = wire[b] /\ \A i \in DOMAIN backlog' : backlog'[i] # b
    <2>1. h # b
        BY <1>1, <1>2, <1>4 DEF HelperConnects, Sending
    <2>2. /\ Len(backlog) \in Nat
          /\ DOMAIN backlog = 1..Len(backlog) /\ DOMAIN backlog' = 1..Len(backlog) + 1
          /\ \A i \in DOMAIN backlog : backlog'[i] = backlog[i]
          /\ backlog'[Len(backlog) + 1] = h
        <3>1. backlog \in Seq(Helpers) /\ backlog' = Append(backlog, h)
            BY <1>1, <1>4 DEF HelperConnects, PathTypeOK
        <3> QED BY <3>1, LenProperties
    <2>3. left'[b] = 0 /\ wire'[b] = wire[b]
        BY <1>1, <1>2, <1>4, <2>1 DEF HelperConnects, PathTypeOK
    <2> QED BY <1>2, <2>1, <2>2, <2>3
<1>5. ASSUME NEW h \in Helpers, HelperSends(h)
      PROVE  left'[b] = 0 /\ wire'[b] = wire[b] /\ UNCHANGED backlog
    <2>1. h # b
        BY <1>2, <1>5 DEF HelperSends
    <2> QED BY <1>1, <1>2, <1>5, <2>1, SentLength DEF HelperSends
<1>6. ASSUME NEW h \in Helpers,
             HelperIsReset(h) \/ HelperFails(h) \/ HelperFinishes(h) \/ HelperExpires(h)
      PROVE  left'[b] = 0 /\ wire'[b] = wire[b] /\ UNCHANGED backlog
    BY <1>1, <1>2, <1>6
       DEF HelperIsReset, HelperFails, HelperFinishes, HelperExpires, socket, PathTypeOK
<1>7. CASE HelperStep
    <2>1. UNCHANGED <<reading, at_close>>
        BY <1>7 DEF HelperStep, HelperConnects, HelperSends, HelperIsReset, HelperFails,
           HelperFinishes, HelperExpires, thread
    <2> QED BY <1>2, <1>4, <1>5, <1>6, <1>7, <2>1 DEF HelperStep
<1>8. CASE ThreadAccepts
    <2>1. /\ DOMAIN backlog' = 1..Len(backlog) - 1 /\ Len(backlog) \in Nat
          /\ DOMAIN backlog = 1..Len(backlog)
          /\ \A i \in DOMAIN backlog' : backlog'[i] = backlog[i + 1]
          /\ 1 \in DOMAIN backlog /\ reading' = backlog[1]
        BY <1>1, <1>8, HeadTailProperties DEF ThreadAccepts, PathTypeOK
    <2>2. \A i \in DOMAIN backlog' : i + 1 \in DOMAIN backlog
        BY <2>1
    <2> QED BY <1>2, <1>8, <2>1, <2>2 DEF ThreadAccepts
<1>9. CASE ThreadReceives \/ ThreadReadsShort
    BY <1>2, <1>9 DEF ThreadReceives, ThreadReadsShort, socket
<1>10. CASE ThreadCloses
    BY <1>2, <1>10 DEF ThreadCloses
<1> QED BY <1>7, <1>8, <1>9, <1>10 DEF ThreadStep

\* The event thread puts a record into the queue that is not there yet: it has not read
\* from this connection before, and a helper has one connection at a time.
LEMMA ReceiptIsNew ==
    ASSUME PathInv, ThreadReceives, NEW b \in Helpers, b = reading
    PROVE  Arrives(b)' /\ ~Arrives(b) /\ Record(b)' = Record(b)
<1>1. /\ PathTypeOK /\ Connected /\ Sending
      /\ ~at_close /\ Len(wire[b]) = Parts
      /\ at_close' = TRUE
      /\ UNCHANGED <<left, wire, backlog>>
    BY DEF PathInv, ThreadReceives, socket
<1>2. left[b] = 0
    BY <1>1, PamHelperAssumption DEF Connected, Sending, PathTypeOK
<1>3. \A i \in DOMAIN backlog : backlog[i] # b
    BY <1>1 DEF Connected
<1> QED BY <1>1, <1>2, <1>3 DEF Arrives, Record

LEMMA ArrivedOnceStays ==
    ASSUME PathInv, HelperStep \/ ThreadStep, UNCHANGED handed
    PROVE  ArrivedOnce'
<1>1. /\ queue \in Seq(Records) /\ handed \in Seq(Records)
      /\ Arrived \in Seq(Records) /\ Len(Arrived) \in Nat
    BY ConcatProperties, LenProperties DEF PathInv, PathTypeOK, Arrived
<1>2. PICK of : SentBy(of)
    BY DEF PathInv, ArrivedOnce
<1>3. /\ of \in [1..Len(Arrived) -> Helpers] /\ IsInjective(of)
      /\ \A i \in 1..Len(Arrived) : Arrived[i] = Record(of[i])
      /\ \A i \in 1..Len(Arrived) : Arrives(of[i])
    BY <1>2 DEF SentBy
<1>4. ASSUME NEW i \in 1..Len(Arrived), NEW b, b = of[i]
      PROVE  b \in Helpers /\ Arrives(b)' /\ Record(b)' = Arrived[i]
    <2>1. b \in Helpers /\ Arrives(b) /\ Arrived[i] = Record(b)
        BY <1>3, <1>4
    <2> QED BY <2>1, ArrivesStays
<1>5. CASE UNCHANGED queue
    <2>1. Arrived' = Arrived
        BY <1>5 DEF Arrived
    <2>2. \A i \in 1..Len(Arrived) : Arrived[i] = Record(of[i])' /\ Arrives(of[i])'
        BY <1>4
    <2>3. SentBy(of)'
        BY <1>3, <2>1, <2>2 DEF SentBy
    <2> QED BY <2>3 DEF ArrivedOnce
<1>6. ASSUME ThreadReceives, NEW b, b = reading, queue' = Append(queue, Record(b))
      PROVE  ArrivedOnce'
    <2>1. b \in Helpers /\ Record(b) \in Records
        BY <1>6 DEF ThreadReceives, PathInv, PathTypeOK, Record, Records
    <2>2. Arrives(b)' /\ ~Arrives(b) /\ Record(b)' = Record(b)
        BY <1>6, <2>1, ReceiptIsNew
    <2>3. Arrived' = Append(Arrived, Record(b))
        BY <1>1, <1>6, <2>1, AppendBehind DEF Arrived
    <2>4. /\ Len(Arrived') = Len(Arrived) + 1
          /\ \A i \in 1..Len(Arrived) : Arrived'[i] = Arrived[i]
          /\ Arrived'[Len(Arrived) + 1] = Record(b)
        BY <1>1, <2>1, <2>3, AppendProperties
    <2> DEFINE now == [i \in 1..Len(Arrived) + 1 |-> IF i = Len(Arrived) + 1 THEN b ELSE of[i]]
    <2>5. PICK to : to = now
        OBVIOUS
    <2>6. /\ to \in [1..Len(Arrived) + 1 -> Helpers]
          /\ to[Len(Arrived) + 1] = b
          /\ \A i \in 1..Len(Arrived) : to[i] = of[i]
        BY <1>1, <1>3, <2>1, <2>5
    <2>7. \A i \in 1..Len(Arrived) : of[i] # b
        BY <1>3, <2>2
    <2>8. IsInjective(to)
        BY <1>1, <1>3, <2>6, <2>7 DEF IsInjective
    <2>9. ASSUME NEW i \in 1..Len(Arrived) + 1, NEW c, c = to[i]
          PROVE  Arrived'[i] = Record(c)' /\ Arrives(c)'
        <3>1. CASE i = Len(Arrived) + 1
            BY <2>2, <2>4, <2>6, <2>9, <3>1
        <3>2. CASE i \in 1..Len(Arrived)
            BY <1>4, <2>4, <2>6, <2>9, <3>2
        <3> QED BY <1>1, <3>1, <3>2
    <2>10. \A i \in 1..Len(Arrived) + 1 : Arrived'[i] = Record(to[i])' /\ Arrives(to[i])'
        BY <2>9
    <2>11. SentBy(to)'
        BY <2>4, <2>6, <2>8, <2>10 DEF SentBy
    <2> QED BY <2>11 DEF ArrivedOnce
<1>7. UNCHANGED queue \/ (ThreadReceives /\ queue' = Append(queue, Record(reading)))
    BY DEF HelperStep, HelperConnects, HelperSends, HelperIsReset, HelperFails, HelperFinishes,
       HelperExpires, thread, ThreadStep, ThreadAccepts, ThreadReceives, ThreadReadsShort, ThreadCloses
<1>8. PICK b : b = reading
    OBVIOUS
<1> QED BY <1>5, <1>6, <1>7, <1>8

\* The database thread takes from the queue what has arrived, and adds nothing.
LEMMA LogsStays == PathInv /\ Logs => PathInv'
<1>1. SUFFICES ASSUME PathInv, Logs PROVE PathInv'
    OBVIOUS
<1>2. /\ queue # <<>> /\ queue \in Seq(Records) /\ handed \in Seq(Records)
      /\ handed' = Append(handed, Head(queue)) /\ queue' = Tail(queue)
      /\ UNCHANGED <<long, helper, left, advanced, conn, wire, backlog, reading, at_close>>
    BY <1>1 DEF Logs, PathInv, PathTypeOK, socket
<1>3. Arrived' = Arrived
    BY <1>2, HandedOn DEF Arrived
<1>4. handed' \in Seq(Records) /\ queue' \in Seq(Records)
    BY <1>2, HeadTailProperties, AppendProperties
<1>5. PathTypeOK' /\ Connected' /\ Sending'
    BY <1>1, <1>2, <1>4 DEF PathInv, PathTypeOK, Connected, Sending
<1>6. ArrivedOnce'
    <2>1. PICK of : SentBy(of)
        BY <1>1 DEF PathInv, ArrivedOnce
    <2>2. SentBy(of)'
        BY <1>2, <1>3, <2>1 DEF SentBy, Arrives, Record
    <2> QED BY <2>2 DEF ArrivedOnce
<1> QED BY <1>5, <1>6 DEF PathInv

LEMMA PathSteps == PathInv /\ [PathNext]_pathVars => PathInv'
<1> SUFFICES ASSUME PathInv, [PathNext]_pathVars
             PROVE  PathInv'
    OBVIOUS
<1>1. CASE UNCHANGED <<helperVars, handed>>
    <2>1. UNCHANGED <<long, helper, left, advanced, conn, wire, backlog, reading, at_close, queue,
                      handed>>
        BY <1>1 DEF helperVars, socket, thread
    <2>2. PathTypeOK' /\ Connected' /\ Sending'
        BY <2>1 DEF PathInv, PathTypeOK, Connected, Sending
    <2>3. UNCHANGED Arrived
        BY <2>1 DEF Arrived
    <2>4. PICK of : SentBy(of)
        BY DEF PathInv, ArrivedOnce
    <2>5. SentBy(of)'
        BY <2>1, <2>3, <2>4 DEF SentBy, Arrives, Record
    <2> QED BY <2>2, <2>5 DEF PathInv, ArrivedOnce
<1>2. CASE (HelperStep \/ ThreadStep) /\ UNCHANGED handed
    BY <1>2, TypeStays, ConnectedStays, SendingStays, ArrivedOnceStays DEF PathInv
<1>3. CASE Logs
    BY <1>3, LogsStays
<1> QED BY <1>1, <1>2, <1>3 DEF PathNext, pathVars

\* The inductive invariant of the helpers, the event thread and the queue.
THEOREM PathInvariance == PathSpec => []PathInv
BY PathInitial, PathSteps, PTL DEF PathSpec

\* A login is recorded once at most, whole or not, and only if all of it has been sent,
\* whatever is reset, cut short or out of time
\* (iptracking-pam-callback.c:204-232, iptracking-pamd.c:221-236).
THEOREM LoginsRecordedOnce == PathSpec => []RecordedOnce
<1>1. ASSUME PathInv PROVE RecordedOnce
    <2>1. PICK of : SentBy(of)
        BY <1>1 DEF PathInv, ArrivedOnce
    <2>2. \A i \in 1..Len(Arrived) : left[of[i]] = 0 /\ of[i] \in Helpers
        BY <2>1 DEF SentBy, Arrives
    <2>3. \A h \in Helpers : left[h] = 0 => helper[h] # "failed"
        BY <1>1 DEF PathInv, Sending
    <2> QED BY <2>1, <2>2, <2>3 DEF SentBy, RecordedOnce
<1> QED BY <1>1, PathInvariance, PTL

-----------------------------------------------------------------------------
(* From the login to the row.                                              *)

\* The rows and the lines held back are of events that have been taken from the queue.
Numbered ==
    /\ popped = Len(handed)
    /\ stored \in Seq(Nat \ {0}) /\ buffered \in Seq(Nat \ {0})

\* An event gets its number when it is taken, and is stored or held back under it.
LEMMA NumberedStays == PathInv /\ Numbered /\ [PathNext]_pathVars => Numbered'
<1>1. SUFFICES ASSUME PathInv, Numbered, PathNext \/ UNCHANGED pathVars PROVE Numbered'
    OBVIOUS
<1>2. /\ popped = Len(handed) /\ Len(handed) \in Nat /\ handed \in Seq(Records)
      /\ stored \in Seq(Nat \ {0}) /\ buffered \in Seq(Nat \ {0})
    BY <1>1, LenProperties DEF Numbered, PathInv, PathTypeOK
<1>3. CASE UNCHANGED <<popped, stored, buffered, handed>>
    BY <1>2, <1>3 DEF Numbered
<1>4. CASE UNCHANGED <<popped, handed>> /\ Close
    <2>1. stored \o buffered \in Seq(Nat \ {0})
        BY <1>2, ConcatProperties
    <2>2. stored' \in Seq(Nat \ {0}) /\ buffered' \in Seq(Nat \ {0})
        BY <1>2, <1>4, <2>1, EmptySeq DEF Close
    <2> QED BY <1>2, <1>4, <2>2 DEF Numbered
<1>5. CASE Logs
    <2>1. /\ popped' = popped + 1 /\ handed' = Append(handed, Head(queue))
          /\ queue # <<>> /\ LogStep
        BY <1>5 DEF Logs, LogStep, LogSucceeds, LogFails, LogAnswerLost, LogNotFlushed, Pops
    <2>2. popped + 1 \in Nat \ {0}
        BY <1>2
    <2>3. /\ Append(buffered, popped + 1) \in Seq(Nat \ {0})
          /\ Append(stored, popped + 1) \in Seq(Nat \ {0})
        BY <1>2, <2>2, AppendProperties
    <2>4. stored \o Append(buffered, popped + 1) \in Seq(Nat \ {0})
        BY <1>2, <2>3, ConcatProperties
    <2>5. stored' \in Seq(Nat \ {0}) /\ buffered' \in Seq(Nat \ {0})
        BY <1>2, <2>1, <2>3, <2>4, EmptySeq
           DEF LogStep, LogSucceeds, LogFails, LogAnswerLost, LogNotFlushed
    <2>6. Head(queue) \in Records
        BY <1>1, <2>1, HeadTailProperties DEF PathInv, PathTypeOK
    <2>7. popped' = Len(handed')
        BY <1>2, <2>1, <2>6, AppendProperties
    <2> QED BY <2>5, <2>7 DEF Numbered
<1>6. CASE UNCHANGED vars /\ UNCHANGED handed
    BY <1>3, <1>6 DEF vars, answers
<1>7. (OpenStep \/ ServerLost \/ ServerBack) => UNCHANGED <<popped, stored, buffered>>
    BY DEF OpenStep, OpenAgain, OpenSucceeds, ConnectFails, PrepareFails, Opened, Refused,
       ServerLost, ServerBack, answers
<1>8. Close => UNCHANGED popped
    BY DEF Close
<1> QED BY <1>1, <1>3, <1>4, <1>5, <1>6, <1>7, <1>8 DEF PathNext, pathVars

\* Which row is of which event: the one with the number that is stored in its place.
RowsKnown ==
    /\ stored \in Seq(Nat \ {0}) /\ DOMAIN stored = 1..Len(stored) /\ Len(stored) \in Nat
    /\ Rows \in Seq(Records) /\ Len(Rows) = Len(stored)
    /\ \A i \in 1..Len(stored) : stored[i] \in 1..Len(handed) /\ Rows[i] = handed[stored[i]]
    /\ \A i, j \in 1..Len(stored) : stored[i] = stored[j] => i = j

LEMMA RowsOfEvents == PathInv /\ DbInv /\ Numbered => RowsKnown
<1>1. SUFFICES ASSUME PathInv, DbInv, Numbered PROVE RowsKnown
    OBVIOUS
<1>2. /\ stored \in Seq(Nat \ {0}) /\ Len(stored) \in Nat /\ DOMAIN stored = 1..Len(stored)
      /\ stored \in Seq(Nat) /\ buffered \in Seq(Nat)
      /\ handed \in Seq(Records) /\ popped = Len(handed) /\ Len(handed) \in Nat
    BY <1>1, LenProperties DEF PathInv, PathTypeOK, DbInv, DbTypeOK, Numbered
<1>3. \A i \in 1..Len(stored) : stored[i] \in Nat \ {0}
    BY <1>2
<1>4. /\ DOMAIN stored \subseteq DOMAIN (stored \o buffered)
      /\ \A i \in DOMAIN stored : (stored \o buffered)[i] = stored[i]
    <2>1. /\ Len(stored \o buffered) = Len(stored) + Len(buffered)
          /\ stored \o buffered \in Seq(Nat)
          /\ \A i \in 1..Len(stored) : (stored \o buffered)[i] = stored[i]
        BY <1>2, ConcatProperties
    <2>2. DOMAIN (stored \o buffered) = 1..Len(stored \o buffered) /\ Len(buffered) \in Nat
        BY <1>2, <2>1, LenProperties
    <2>3. 1..Len(stored) \subseteq 1..Len(stored \o buffered)
        BY <1>2, <2>1, <2>2
    <2> QED BY <1>2, <2>1, <2>2, <2>3
<1>5. Increasing(stored) /\ AtMost(stored, popped)
    BY <1>1, <1>4 DEF DbInv, Ordered, Increasing, AtMost
<1>6. \A i \in 1..Len(stored) : stored[i] \in 1..Len(handed)
    BY <1>2, <1>3, <1>5 DEF AtMost
<1>7. \A i, j \in 1..Len(stored) : stored[i] = stored[j] => i = j
    <2>1. \A i, j \in 1..Len(stored) : i < j => stored[i] < stored[j]
        BY <1>2, <1>5 DEF Increasing
    <2>2. ASSUME NEW i \in 1..Len(stored), NEW j \in 1..Len(stored), stored[i] = stored[j]
          PROVE  i = j
        <3>1. ~(stored[i] < stored[j]) /\ ~(stored[j] < stored[i])
            BY <1>3, <2>2
        <3>2. ~(i < j) /\ ~(j < i)
            BY <2>1, <2>2, <3>1
        <3> QED BY <3>2
    <2> QED BY <2>2
<1>8. \A i \in 1..Len(stored) : handed[stored[i]] \in Records
    BY <1>2, <1>6, ElementOfSeq
<1>9. Rows = [i \in 1..Len(stored) |-> handed[stored[i]]]
    BY <1>2 DEF Rows
<1>10. Rows \in Seq(Records) /\ Len(Rows) = Len(stored)
    BY <1>2, <1>8, <1>9, IsASeq
<1> QED BY <1>2, <1>6, <1>7, <1>9, <1>10 DEF RowsKnown

\* Each row is of a login of its own, all of which has been sent.
RowsOfLogins == Log!RowsOf(Rows, {h \in Helpers : left[h] = 0})

LEMMA LoginsOfRows == PathInv /\ RowsKnown => RowsOfLogins
<1>1. SUFFICES ASSUME PathInv, RowsKnown PROVE RowsOfLogins
    OBVIOUS
<1>2. PICK of : SentBy(of)
    BY <1>1 DEF PathInv, ArrivedOnce
<1>3. /\ handed \in Seq(Records) /\ queue \in Seq(Records)
      /\ Len(handed) \in Nat /\ Len(Arrived) \in Nat /\ Len(handed) <= Len(Arrived)
      /\ \A n \in 1..Len(handed) : Arrived[n] = handed[n]
    BY <1>1, ConcatProperties, LenProperties DEF PathInv, PathTypeOK, Arrived
<1>4. /\ \A n \in 1..Len(handed) : of[n] \in {h \in Helpers : left[h] = 0}
      /\ \A n \in 1..Len(handed) : handed[n] \in {of[n], Garbled}
      /\ \A n, m \in 1..Len(handed) : of[n] = of[m] => n = m
    <2>1. /\ of \in [1..Len(Arrived) -> Helpers]
          /\ \A n, m \in 1..Len(Arrived) : of[n] = of[m] => n = m
          /\ \A n \in 1..Len(Arrived) : Arrived[n] = Record(of[n]) /\ left[of[n]] = 0
        BY <1>2 DEF SentBy, IsInjective, Arrives
    <2>2. \A n \in 1..Len(handed) : n \in 1..Len(Arrived)
        BY <1>3
    <2>3. \A h : Record(h) \in {h, Garbled}
        BY DEF Record
    <2> QED BY <1>3, <2>1, <2>2, <2>3
<1> DEFINE by == [i \in 1..Len(Rows) |-> of[stored[i]]]
<1>5. PICK to : to = by
    OBVIOUS
<1>6. /\ to \in [1..Len(Rows) -> {h \in Helpers : left[h] = 0}]
      /\ \A i \in 1..Len(Rows) : to[i] = of[stored[i]]
    BY <1>1, <1>4, <1>5 DEF RowsKnown
<1>7. Log!IsInjective(to)
    BY <1>1, <1>4, <1>6 DEF Log!IsInjective, RowsKnown
<1>8. \A i \in 1..Len(Rows) : Rows[i] \in {to[i], Garbled}
    BY <1>1, <1>4, <1>6 DEF RowsKnown
<1> QED BY <1>6, <1>7, <1>8 DEF RowsOfLogins, Log!RowsOf

\* What is in the database stays, and what has been taken from the queue keeps its number.
LEMMA RowsStay ==
    ASSUME PathInv, DbInv, Numbered, [PathNext]_pathVars
    PROVE  /\ Len(stored) <= Len(stored')
           /\ \A i \in 1..Len(stored) : stored'[i] = stored[i]
           /\ \A n \in 1..Len(handed) : handed'[n] = handed[n]
           /\ UNCHANGED stored \/ UNCHANGED left
<1>1. /\ stored \in Seq(Nat) /\ buffered \in Seq(Nat) /\ handed \in Seq(Records)
      /\ popped \in Nat /\ Len(stored) \in Nat
    BY LenProperties DEF PathInv, PathTypeOK, DbInv, DbTypeOK
<1>2. \A n \in 1..Len(handed) : handed'[n] = handed[n]
    <2>1. CASE Logs
        <3>1. queue # <<>> /\ handed' = Append(handed, Head(queue)) /\ queue \in Seq(Records)
            BY <2>1 DEF Logs, PathInv, PathTypeOK
        <3>2. Head(queue) \in Records
            BY <3>1, HeadTailProperties
        <3> QED BY <1>1, <3>1, <3>2, AppendProperties
    <2> QED BY <2>1 DEF PathNext, pathVars
<1>3. UNCHANGED stored \/ UNCHANGED left
    BY DEF PathNext, pathVars, vars, answers, Logs, OpenStep, OpenAgain, OpenSucceeds,
       ConnectFails, PrepareFails, Opened, Refused, ServerLost, ServerBack, Close, helperVars
<1>4. CASE UNCHANGED stored
    BY <1>1, <1>2, <1>3, <1>4
<1>5. CASE \E t \in Seq(Nat) : stored' = stored \o t
    <2>1. PICK t \in Seq(Nat) : stored' = stored \o t
        BY <1>5
    <2>2. /\ Len(stored') = Len(stored) + Len(t) /\ Len(t) \in Nat
          /\ \A i \in 1..Len(stored) : stored'[i] = stored[i]
        BY <1>1, <2>1, ConcatProperties, LenProperties
    <2> QED BY <1>1, <1>2, <1>3, <2>2
<1>6. CASE Close
    BY <1>1, <1>4, <1>5, <1>6 DEF Close
<1>7. CASE LogStep
    <2>1. popped' = popped + 1
        BY <1>7 DEF LogStep, LogSucceeds, LogFails, LogAnswerLost, LogNotFlushed, Pops
    <2>2. <<popped + 1>> \in Seq(Nat) /\ Append(buffered, popped + 1) \in Seq(Nat)
        BY <1>1, AppendProperties
    <2>3. Append(stored, popped + 1) = stored \o <<popped + 1>>
        BY <1>1, AppendIsConcat
    <2> QED BY <1>4, <1>5, <1>7, <2>1, <2>2, <2>3
            DEF LogStep, LogSucceeds, LogFails, LogAnswerLost, LogNotFlushed
<1>8. UNCHANGED stored \/ Close \/ LogStep
    BY DEF PathNext, pathVars, vars, answers, Logs, OpenStep, OpenAgain, OpenSucceeds,
       ConnectFails, PrepareFails, Opened, Refused, ServerLost, ServerBack
<1> QED BY <1>4, <1>6, <1>7, <1>8

LogInv == PathInv /\ DbInv /\ Numbered /\ RowsKnown /\ RowsOfLogins

\* No login has two rows, none has one before all of it has been sent, and no row is
\* changed or taken away, whatever is reset, cut short, refused or lost between the login
\* and the database (iptracking-pam-callback.c:204-232, iptracking-pamd.c:221-236, db_instance_csvfile.c:185-224).
THEOREM LoginsReachTheLog == PathSpec => ImplementsLoginLog
<1> DEFINE sent == {h \in Helpers : left[h] = 0}
<1>1. PathInit => Log!Init
    <2>1. SUFFICES ASSUME PathInit PROVE sent = {} /\ Rows = <<>>
        BY DEF Log!Init
    <2>2. sent = {}
        BY <2>1, PamHelperAssumption DEF PathInit, HelperInit
    <2>3. stored = <<>>
        BY <2>1 DEF PathInit, Init
    <2> QED BY <2>2, <2>3 DEF Rows
<1>2. PathInit => Numbered
    BY EmptySeq DEF PathInit, Init, Numbered
<1>3. LogInv /\ LogInv' /\ [PathNext]_pathVars => [Log!Next]_<<sent, Rows>>
    <2>1. SUFFICES ASSUME LogInv, LogInv', [PathNext]_pathVars
                   PROVE  [Log!Next]_<<sent, Rows>>
        OBVIOUS
    <2>2. /\ Len(stored) <= Len(stored')
          /\ \A i \in 1..Len(stored) : stored'[i] = stored[i]
          /\ \A n \in 1..Len(handed) : handed'[n] = handed[n]
          /\ UNCHANGED stored \/ UNCHANGED left
        BY <2>1, RowsStay DEF LogInv
    <2>3. /\ Rows \in Seq(Records) /\ Len(Rows) = Len(stored) /\ Len(stored) \in Nat
          /\ \A i \in 1..Len(stored) : stored[i] \in 1..Len(handed) /\ Rows[i] = handed[stored[i]]
        BY <2>1 DEF LogInv, RowsKnown
    <2>4. /\ Rows' \in Seq(Records) /\ Len(Rows') = Len(stored') /\ Len(stored') \in Nat
          /\ \A i \in 1..Len(stored') : Rows'[i] = handed'[stored'[i]]
        BY <2>1 DEF LogInv, RowsKnown
    <2>5. \A i \in 1..Len(Rows) : Rows'[i] = Rows[i]
        BY <2>2, <2>3, <2>4
    <2>6. CASE UNCHANGED left /\ Len(stored) < Len(stored')
        <3>1. UNCHANGED sent
            BY <2>6
        <3>2. Log!IsPrefix(Rows, Rows')
            <4>1. SubSeq(Rows, 1, Len(Rows)) = SubSeq(Rows', 1, Len(Rows))
                BY <2>2, <2>3, <2>4, <2>5
            <4> QED BY <2>2, <2>3, <2>4, <4>1 DEF Log!IsPrefix
        <3>3. Rows' # Rows
            BY <2>3, <2>4, <2>6
        <3>4. Log!RowsOf(Rows', sent)
            BY <2>1, <2>6 DEF LogInv, RowsOfLogins, Log!RowsOf
        <3>5. Log!Record
            BY <3>1, <3>2, <3>3, <3>4 DEF Log!Record
        <3> QED BY <3>5 DEF Log!Next
    <2>7. CASE Len(stored') = Len(stored)
        <3>1. UNCHANGED Rows
            BY <2>3, <2>4, <2>5, <2>7, SeqEqual
        <3>2. CASE UNCHANGED left
            BY <3>1, <3>2
        <3>3. ASSUME NEW h \in Helpers, HelperSends(h) PROVE [Log!Next]_<<sent, Rows>>
            <4>1. /\ left[h] > 0
                  /\ left'[h] >= 0
                  /\ \A g \in Helpers : g # h => left'[g] = left[g]
                <5>1. PathTypeOK /\ PathTypeOK'
                    BY <2>1 DEF LogInv, PathInv
                <5>2. left \in [Helpers -> 0..Parts] /\ left' \in [Helpers -> 0..Parts]
                    BY <5>1 DEF PathTypeOK
                <5>3. left[h] \in Nat /\ left'[h] \in Nat
                    BY <5>2, PamHelperAssumption
                <5> QED BY <3>3, <5>1, <5>3, SentLength
            <4>2. CASE left'[h] = 0
                <5>1. h \notin sent
                    BY <4>1
                <5>2. sent' = sent \cup {h}
                    <6>1. \A g \in Helpers : left'[g] = 0 <=> (left[g] = 0 \/ g = h)
                        BY <4>1, <4>2
                    <6> QED BY <6>1
                <5> QED BY <3>1, <5>1, <5>2 DEF Log!Send, Log!Next
            <4>3. CASE left'[h] # 0
                <5>1. UNCHANGED sent
                    BY <4>1, <4>3
                <5> QED BY <3>1, <5>1
            <4> QED BY <4>2, <4>3
        <3>4. ASSUME NEW h \in Helpers, HelperIsReset(h) PROVE UNCHANGED sent
            BY <2>1, <3>4, PamHelperAssumption DEF HelperIsReset, LogInv, PathInv, PathTypeOK
        <3>5. UNCHANGED left \/ \E h \in Helpers : HelperSends(h) \/ HelperIsReset(h)
            BY <2>1 DEF PathNext, pathVars, helperVars, Logs, HelperStep, HelperConnects, HelperFails,
               HelperFinishes, HelperExpires, ThreadStep, ThreadAccepts, ThreadReceives,
               ThreadReadsShort, ThreadCloses
        <3> QED BY <3>1, <3>2, <3>3, <3>4, <3>5
    <2> QED BY <2>2, <2>3, <2>4, <2>6, <2>7
<1>4. PathSpec => []Numbered
    BY <1>2, NumberedStays, PathInvariance, PTL DEF PathSpec
<1>5. LogInv <=> PathInv /\ DbInv /\ Numbered
    BY RowsOfEvents, LoginsOfRows DEF LogInv
<1> QED
    BY <1>1, <1>3, <1>4, <1>5, PathInvariance, DbInvariance, PTL
    DEF PathSpec, ImplementsLoginLog, Log!Spec
=============================================================================
