----------------------------- MODULE BlockList -----------------------------
(***************************************************************************)
(* The firewall tables of the PostgreSQL database: firewall-daemon/        *)
(* psql-db.schema, with the counts of pam-daemon/psql-db.schema it reads.  *)
(* Each logged event fires a trigger that counts the recent events of its  *)
(* address and networks and blocks them; the view block_now is the list    *)
(* that the firewall daemon, the agent, copies into the kernel: when it is *)
(* notified, and at the latest a period after it last did.  The script     *)
(* iptracking-maint.py deletes old events.                                 *)
(*                                                                         *)
(* A CIDR is the set of addresses it covers, so <<= is \subseteq.  A       *)
(* statement with its rules and triggers is one step: one transaction.     *)
(***************************************************************************)
EXTENDS Integers, Sequences, FiniteSets

CONSTANTS
    Addresses,
    Net24, Net16,       \* the /24 and the /16 of each address
    IpLimits, Net24Limits, Net16Limits,  \* sequences of limits, narrowest window first:
                        \* [window, count, block]: so many events within the window
                        \* block for so long
    Day,                \* events older than this are not counted
    PurgeDays,          \* the script deletes events older than so many days
    Period,             \* check-interval of the agent
    Filtered,           \* addresses within pam.inet_filter
    StaticNets,         \* entities a static rule is made for
    Prepared,           \* what administrators may have put into block_raw
    NULL,
    MaxTime, MaxEvents  \* bounds of the model

Times == 0..MaxTime
Entities == SUBSET Addresses
\* The n-th event of an address at a date.
AuthEvents == [src_ipaddr : Addresses, log_date : Times, n : Nat \ {0}]
Limits == [window : 0..Day, count : Nat \ {0}, block : Nat \ {0}]
Dates == Int \cup {NULL}
Rows == [ip_entity : Entities, start_date : Dates, end_date : Dates, modification_date : Int]
Rules == [ip_entity : StaticNets, disposition : {"deny", "allow"}]

\* The primary key of both tables.
Keyed(rows) == \A r, q \in rows : r.ip_entity = q.ip_entity => r = q

ASSUME BlockListAssumption ==
    /\ IsFiniteSet(Addresses)
    /\ Net24 \in [Addresses -> Entities] /\ Net16 \in [Addresses -> Entities]
    /\ \A a \in Addresses : a \in Net24[a] /\ Net24[a] \subseteq Net16[a]
    /\ \A s \in {IpLimits, Net24Limits, Net16Limits} : s \in Seq(Limits)
    /\ Day \in Nat \ {0} /\ PurgeDays \in Nat \ {0} /\ Period \in Nat \ {0}
    /\ Filtered \subseteq Addresses
    /\ StaticNets \subseteq Entities
    /\ \A rows \in Prepared : rows \subseteq Rows /\ Keyed(rows)
    /\ NULL \notin Int
    /\ MaxTime \in Nat /\ MaxEvents \in Nat

VARIABLES
    now,                \* now(): the time of the transaction
    inet_log,           \* the auth events of pam.inet_log
    block_raw,
    static_rules_raw,
    checksum,           \* block_now_checksum: NULL, or the list it is the checksum of
    refresh,            \* when the notification was sent that waits for the agent, or NULL
    installed,          \* the list the agent read last
    timer_abstime       \* when the agent reads at the latest

db == <<inet_log, block_raw, static_rules_raw, checksum>>
agent == <<installed, timer_abstime>>
vars == <<now, db, refresh, agent>>

Init ==
    /\ now = 0
    /\ inet_log = {}
    /\ block_raw \in Prepared
    /\ static_rules_raw = {}
    /\ checksum = NULL
    /\ refresh = NULL
    /\ installed = {}
    /\ timer_abstime = now     \* a second after its start

-----------------------------------------------------------------------------
(* The views.                                                              *)

\* A block whose time is now; one that starts in this very transaction is not.
Active(r) == /\ r.start_date = NULL \/ r.start_date < now
             /\ r.end_date = NULL \/ r.end_date > now

static_rules_parent_count(target_ip, target_disposition) ==
    Cardinality({r \in static_rules_raw : /\ target_ip \subseteq r.ip_entity
                                          /\ r.disposition = target_disposition})

static_rules == {r \in static_rules_raw :
                    static_rules_parent_count(r.ip_entity, r.disposition) = 0}

Static(ip, disposition) ==
    \E r \in static_rules : r.disposition = disposition /\ ip \subseteq r.ip_entity

\* Mutants: every parent counts; none does.
BlockParents_Ended(rows, ip) ==
    {r \in rows : ip \subseteq r.ip_entity /\ ip # r.ip_entity}
BlockParents_None(rows, ip) == {}

\* The rows that block_parent_count counts.
BlockParents(rows, ip) ==
    {r \in rows : /\ ip \subseteq r.ip_entity /\ ip # r.ip_entity
                  /\ Active(r)}

block_raw_minus_allow(rows) == {r \in rows : ~Static(r.ip_entity, "allow")}

\* The view firewall.block_now, over the rows of the table.
block_now(rows) ==
    {r.ip_entity : r \in {q \in block_raw_minus_allow(rows) :
                            /\ ~Static(q.ip_entity, "deny")
                            /\ BlockParents(rows, q.ip_entity) = {}
                            /\ Active(q)}}
    \cup {r.ip_entity : r \in {q \in static_rules : q.disposition = "deny"}}

-----------------------------------------------------------------------------
(* The trigger pam_ratebased_firewall_filter.                              *)

\* The auth events from a network within a window of time (the *_per_interval views).
Within(log, net, window) ==
    {e \in log : e.src_ipaddr \in net /\ e.log_date >= now - window}

Found(log, net) == Within(log, net, Day) # {}

Exceeded(log, net, limits) ==
    {i \in DOMAIN limits : Cardinality(Within(log, net, limits[i].window)) >= limits[i].count}

\* The first limit that is exceeded gives the length of the block.
BlockIntervals(log, net, limits) ==
    {limits[i].block : i \in {k \in Exceeded(log, net, limits) :
                                 \A j \in Exceeded(log, net, limits) : k <= j}}

Ended(r) == r.end_date # NULL /\ r.end_date <= now

\* Mutant: rows inside the network.
RowsFor_Inside(rows, net, exact) ==
    {r \in rows : IF exact THEN r.ip_entity = net ELSE r.ip_entity \subseteq net}

\* What SELECT ... INTO block may find: the address itself, or any row that
\* covers the network.
RowsFor(rows, net, exact) ==
    {r \in rows : IF exact THEN r.ip_entity = net ELSE net \subseteq r.ip_entity}

NewRow(net, interval) ==
    [ip_entity |-> net, start_date |-> now, end_date |-> now + interval, modification_date |-> now]

Extended(r, interval) == [r EXCEPT !.end_date = now + interval, !.modification_date = now]

\* A tuple that is there is extended if it has ended, else one is inserted: what
\* the table may be after that.
Blocked(rows, net, exact, interval) ==
    IF RowsFor(rows, net, exact) = {}
    THEN {rows \cup {NewRow(net, interval)}}
    ELSE {IF Ended(r) THEN (rows \ {r}) \cup {Extended(r, interval)} ELSE rows :
             r \in RowsFor(rows, net, exact)}

CheckedFor(rows, log, net, exact, limits) ==
    IF Found(log, net) /\ Exceeded(log, net, limits) # {}
    THEN UNION {Blocked(rows, net, exact, interval) :
                   interval \in BlockIntervals(log, net, limits)}
    ELSE {rows}

\* The /24 is looked at only when there is no event from the /16.
NetChecked(rows, log, a) ==
    IF Found(log, Net16[a])
    THEN CheckedFor(rows, log, Net16[a], FALSE, Net16Limits)
    ELSE CheckedFor(rows, log, Net24[a], FALSE, Net24Limits)

\* The checksum is made when a row has been inserted or extended.
Announced(rows) ==
    IF rows # block_raw /\ checksum # block_now(rows)
    THEN checksum' = block_now(rows) /\ refresh' = now
    ELSE UNCHANGED <<checksum, refresh>>

pam_ratebased_firewall_filter(a, log) ==
    \E one \in CheckedFor(block_raw, log, {a}, TRUE, IpLimits) :
        \E rows \in NetChecked(one, log, a) :
            /\ block_raw' = rows
            /\ Announced(rows)

-----------------------------------------------------------------------------
(* Statements.                                                             *)

\* pam.log_one_event of an auth event that may have waited in the daemon's
\* queue: its date is the client's.
log_one_event(a, d) ==
    /\ a \notin Filtered
    /\ Cardinality(inet_log) < MaxEvents
    /\ LET same == {e \in inet_log : e.src_ipaddr = a /\ e.log_date = d}
       IN inet_log' = inet_log \cup
                        {[src_ipaddr |-> a, log_date |-> d, n |-> Cardinality(same) + 1]}
    /\ pam_ratebased_firewall_filter(a, inet_log')
    /\ UNCHANGED <<now, static_rules_raw, agent>>

\* An event of another kind is not counted, but fires the trigger.
log_other_event(a) ==
    /\ a \notin Filtered
    /\ pam_ratebased_firewall_filter(a, inet_log)
    /\ UNCHANGED <<now, inet_log, static_rules_raw, agent>>

\* Mutant: blocks that end within the hour are removed, too.
cleanup_block_table_Early ==
    /\ block_raw' = {r \in block_raw : ~(r.end_date # NULL /\ r.end_date <= now + 1)}
    /\ UNCHANGED <<now, inet_log, static_rules_raw, checksum, refresh, agent>>

cleanup_block_table ==
    /\ block_raw' = {r \in block_raw : ~Ended(r)}
    /\ UNCHANGED <<now, inet_log, static_rules_raw, checksum, refresh, agent>>

\* A rule notifies whoever listens of each of these.
StaticRulesBecome(rules) ==
    /\ static_rules_raw' = rules
    /\ refresh' = now
    /\ UNCHANGED <<now, inet_log, block_raw, checksum, agent>>

static_rules_raw_insert(r) ==
    /\ \A q \in static_rules_raw : q.ip_entity # r.ip_entity
    /\ StaticRulesBecome(static_rules_raw \cup {r})

static_rules_raw_update(r, disposition) ==
    StaticRulesBecome((static_rules_raw \ {r}) \cup {[r EXCEPT !.disposition = disposition]})

static_rules_raw_delete(r) == StaticRulesBecome(static_rules_raw \ {r})

Kept(log, date) == {e \in log : e.log_date >= date}

\* Mutant: today's events are not kept.
purge_Today ==
    \E CURRENT_DATE \in (now - Day + 1)..now :
        /\ inet_log' = Kept(inet_log, CURRENT_DATE)
        /\ UNCHANGED <<now, block_raw, static_rules_raw, checksum, refresh, agent>>

\* The script deletes the events before a midnight; midnight is within the last day.
purge ==
    \E CURRENT_DATE \in (now - Day + 1)..now :
        /\ inet_log' = Kept(inet_log, CURRENT_DATE - PurgeDays * Day)
        /\ UNCHANGED <<now, block_raw, static_rules_raw, checksum, refresh, agent>>

-----------------------------------------------------------------------------
(* The agent.                                                              *)

AgentReads ==
    /\ installed' = block_now(block_raw)
    /\ timer_abstime' = now + Period
    /\ UNCHANGED <<now, db>>

\* It takes a notification; its query is a later transaction.
AgentNotified ==
    /\ refresh # NULL /\ refresh < now
    /\ refresh' = NULL
    /\ AgentReads

\* Mutant: the list is read only when a change has been notified.
AgentTimesOut_Notified ==
    /\ timer_abstime = now
    /\ timer_abstime' = now + Period
    /\ UNCHANGED <<now, db, refresh, installed>>

\* It was not notified for a period.
AgentTimesOut ==
    /\ timer_abstime = now
    /\ UNCHANGED refresh
    /\ AgentReads

\* The timer of the agent is exact.
Tick ==
    /\ now < MaxTime /\ now < timer_abstime
    /\ now' = now + 1
    /\ UNCHANGED <<db, refresh, agent>>

Next ==
    \/ \E a \in Addresses : \/ \E d \in {now - 1, now} \cap Times : log_one_event(a, d)
                            \/ log_other_event(a)
    \/ cleanup_block_table
    \/ \E r \in Rules : static_rules_raw_insert(r)
    \/ \E r \in static_rules_raw : \/ \E d \in {"deny", "allow"} : static_rules_raw_update(r, d)
                                   \/ static_rules_raw_delete(r)
    \/ purge
    \/ AgentNotified
    \/ AgentTimesOut
    \/ Tick

Spec == Init /\ [][Next]_vars

-----------------------------------------------------------------------------
(* Properties.                                                             *)

\* Every variable has its type, and each table one row for each ip_entity.
TypeOK ==
    /\ now \in Times
    /\ inet_log \subseteq AuthEvents /\ IsFiniteSet(inet_log)
    /\ block_raw \subseteq Rows /\ Keyed(block_raw)
    /\ static_rules_raw \subseteq Rules /\ IsFiniteSet(static_rules_raw)
    /\ Keyed(static_rules_raw)
    /\ checksum = NULL \/ checksum \subseteq Entities
    /\ refresh \in Times \cup {NULL}
    /\ installed \subseteq Entities
    /\ timer_abstime \in now..now + Period

\* Each block whose time is now is on the list, or within an entry of the list,
\* or allowed by a static rule; and the list has nothing else but denials.  A
\* wider block that has ended or not begun hides nothing (psql-db.schema:98-124).
ListMatches ==
    /\ \A r \in block_raw : Active(r) => \/ Static(r.ip_entity, "allow")
                                         \/ \E e \in block_now(block_raw) : r.ip_entity \subseteq e
    /\ \A e \in block_now(block_raw) : \/ \E r \in block_raw : r.ip_entity = e /\ Active(r)
                                       \/ Static(e, "deny")

\* No block on the list lies within another block on the list: the kernel's set
\* stays as small as it can be (psql-db.schema:98-102, 115).
NoOverlap ==
    LET blocks == block_now(block_raw) \cap {r.ip_entity : r \in block_raw}
    IN \A e, f \in blocks : e \subseteq f => e = f

\* A block for all of the network that has not ended; it may be one that an
\* administrator has scheduled for later.
HasBlock(rows, net) == \E r \in rows : net \subseteq r.ip_entity /\ ~Ended(r)

\* After each event of an address, the address and its /16 have a block if they
\* have reached a limit, whatever blocks there were before, ended or not, wider
\* or narrower (psql-db.schema:169-232).
ThresholdBlocks ==
    [][\A a \in Addresses :
          (\E e \in inet_log' \ inet_log : e.src_ipaddr = a) =>
              /\ Exceeded(inet_log', {a}, IpLimits) # {} => HasBlock(block_raw', {a})
              /\ Exceeded(inet_log', Net16[a], Net16Limits) # {} => HasBlock(block_raw', Net16[a])]_vars

\* Scrubbing the table of blocks that have ended changes nothing on the list,
\* and deleting old events changes no count that a limit is compared with, so
\* neither lifts, delays or brings forward a block (psql-db.schema:128-139 and
\* iptracking-maint.py:286-290).
MaintenanceInvisible ==
    [][now' = now =>
          /\ block_raw' \subseteq block_raw /\ static_rules_raw' = static_rules_raw
                => block_now(block_raw') = block_now(block_raw)
          /\ inet_log' \subseteq inet_log
                => \A a \in Addresses :
                      /\ Exceeded(inet_log', {a}, IpLimits) = Exceeded(inet_log, {a}, IpLimits)
                      /\ Exceeded(inet_log', Net24[a], Net24Limits) = Exceeded(inet_log, Net24[a], Net24Limits)
                      /\ Exceeded(inet_log', Net16[a], Net16Limits) = Exceeded(inet_log, Net16[a], Net16Limits)]_vars

\* Whatever notifications are missed: past the instant in which the agent starts, a
\* block that has begun and was set more than a period ago is in force in the
\* kernel, by itself or within a wider one, and one that ended more than a period
\* ago is not (psql-db.schema:267-277 leaves a change unannounced when the list
\* without the new row has the old checksum; iptracking-firewalld.c:291-330 reads
\* the list all the same).
InForce ==
    now > 0 =>
        \A r \in block_raw :
            LET before(t) == t = NULL \/ t < now - Period
            IN /\ (Active(r) /\ ~Static(r.ip_entity, "allow")
                     /\ before(r.start_date) /\ before(r.modification_date))
                     => \E e \in installed : r.ip_entity \subseteq e
               /\ (Ended(r) /\ r.end_date < now - Period) => r.ip_entity \notin installed

\* When the agent read the list last.
LastRead == timer_abstime - Period

\* Why InForce holds: what was on the list, or had ended, when the agent read it is
\* still in the table as it was then, or has been set since.
ReadSound ==
    /\ timer_abstime = 0 \/ LastRead >= 0
    /\ \A r \in block_raw :
          /\ (/\ LastRead >= 0 /\ r.modification_date < LastRead
              /\ r.start_date = NULL \/ r.start_date < LastRead
              /\ r.end_date = NULL \/ r.end_date > LastRead)
                => \E e \in installed : r.ip_entity \subseteq e
          /\ (r.end_date # NULL /\ r.end_date <= LastRead) => r.ip_entity \notin installed

IInv == TypeOK /\ ReadSound

\* What the comment of the table says: a block that a rule allows is not on the
\* list, and what a rule denies is (psql-db.schema:9-13).
StaticRulesApply ==
    \A q \in static_rules_raw :
        IF q.disposition = "allow"
        THEN \A e \in block_now(block_raw) : ~(e \subseteq q.ip_entity)
        ELSE \E e \in block_now(block_raw) : q.ip_entity \subseteq e
=============================================================================
