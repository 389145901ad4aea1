-------------------------- MODULE BlockListProofs --------------------------
(***************************************************************************)
(* Proofs about BlockList for any addresses and networks, limits, static   *)
(* rules and prepared tables, and any number of events.                    *)
(***************************************************************************)
EXTENDS BlockList, FiniteSetTheorems, TLAPS

-----------------------------------------------------------------------------
(* What the trigger does to the table.                                     *)

\* A row the trigger has just written.
Fresh(r) == r.modification_date = now /\ r.end_date \in Int /\ r.end_date > now

\* The table out may follow the table rows in one run of the trigger: it has rows
\* and a key, what is new is fresh, and each entity, and each network with a block,
\* still has one.
Follows(rows, out) ==
    /\ out \subseteq Rows /\ Keyed(out)
    /\ \A q \in out : q \in rows \/ Fresh(q)
    /\ \A r \in rows : \E q \in out : q.ip_entity = r.ip_entity
    /\ \A net \in Entities : HasBlock(rows, net) => HasBlock(out, net)

\* A table follows itself.
LEMMA FollowsItself ==
    ASSUME NEW rows \in SUBSET Rows, Keyed(rows)
    PROVE  Follows(rows, rows)
BY DEF Follows

\* What follows a table that follows the first, follows the first.
LEMMA FollowsOn ==
    ASSUME NEW rows, NEW one, NEW out, Follows(rows, one), Follows(one, out)
    PROVE  Follows(rows, out)
<1>1. \A r \in rows : \E q \in out : q.ip_entity = r.ip_entity
    BY DEF Follows
<1> QED
    BY <1>1 DEF Follows

\* A key makes a table that grows out of rows and stays within them the same table.
LEMMA FollowsWithin ==
    ASSUME NEW rows, NEW out, Keyed(rows), Follows(rows, out), out \subseteq rows
    PROVE  out = rows
<1>1. ASSUME NEW r \in rows PROVE r \in out
    <2>1. PICK q \in out : q.ip_entity = r.ip_entity
        BY DEF Follows
    <2>2. q = r
        BY <2>1 DEF Keyed
    <2> QED BY <2>2
<1> QED BY <1>1

\* A row that is made or extended has its entity, and has not ended.
LEMMA NewAndExtended ==
    ASSUME now \in Times, NEW interval \in Nat \ {0}
    PROVE  /\ \A net \in Entities : /\ NewRow(net, interval) \in Rows
                                    /\ NewRow(net, interval).ip_entity = net
                                    /\ ~Ended(NewRow(net, interval))
                                    /\ Fresh(NewRow(net, interval))
           /\ \A r \in Rows : /\ Extended(r, interval) \in Rows
                              /\ Extended(r, interval).ip_entity = r.ip_entity
                              /\ ~Ended(Extended(r, interval))
                              /\ Fresh(Extended(r, interval))
<1>1. now \in Int /\ now + interval \in Int /\ ~(now + interval <= now) /\ now + interval > now
    BY BlockListAssumption DEF Times
<1> QED
    BY <1>1 DEF NewRow, Extended, Rows, Dates, Ended, Fresh

\* A row is inserted, or one that covers the network is extended unless it has not
\* ended: the network has a block then, and nobody has lost one.
LEMMA BlockedFollows ==
    ASSUME now \in Times, NEW rows \in SUBSET Rows, Keyed(rows),
           NEW net \in Entities, NEW exact \in BOOLEAN, NEW interval \in Nat \ {0},
           NEW out \in Blocked(rows, net, exact, interval)
    PROVE  Follows(rows, out) /\ HasBlock(out, net)
<1>1. CASE RowsFor(rows, net, exact) = {}
    <2> DEFINE new == NewRow(net, interval)
    <2>1. out = rows \cup {new}
        BY <1>1 DEF Blocked
    <2>2. new \in Rows /\ new.ip_entity = net /\ ~Ended(new) /\ Fresh(new)
        BY NewAndExtended
    <2>3. \A r \in rows : r.ip_entity # net
        BY <1>1 DEF RowsFor
    <2>4. Keyed(out)
        BY <2>1, <2>2, <2>3 DEF Keyed
    <2>5. HasBlock(out, net)
        BY <2>1, <2>2 DEF HasBlock
    <2>6. \A n \in Entities : HasBlock(rows, n) => HasBlock(out, n)
        BY <2>1 DEF HasBlock
    <2> HIDE DEF new
    <2> QED
        BY <2>1, <2>2, <2>4, <2>5, <2>6 DEF Follows
<1>2. CASE RowsFor(rows, net, exact) # {}
    <2>1. PICK r \in RowsFor(rows, net, exact) :
              out = IF Ended(r) THEN (rows \ {r}) \cup {Extended(r, interval)} ELSE rows
        BY <1>2 DEF Blocked
    <2>2. r \in rows /\ net \subseteq r.ip_entity
        BY DEF RowsFor
    <2>3. CASE ~Ended(r)
        <3>1. out = rows /\ HasBlock(out, net)
            BY <2>1, <2>2, <2>3 DEF HasBlock
        <3> QED BY <3>1, FollowsItself
    <2>4. CASE Ended(r)
        <3> DEFINE x == Extended(r, interval)
        <3>1. out = (rows \ {r}) \cup {x}
            BY <2>1, <2>4
        <3>2. x \in Rows /\ x.ip_entity = r.ip_entity /\ ~Ended(x) /\ Fresh(x)
            BY <2>2, NewAndExtended
        <3> HIDE DEF x
        <3>3. Keyed(out)
            BY <2>2, <3>1, <3>2 DEF Keyed
        <3>4. HasBlock(out, net)
            BY <2>2, <3>1, <3>2 DEF HasBlock
        <3>5. \A n \in Entities : HasBlock(rows, n) => HasBlock(out, n)
            BY <2>4, <3>1 DEF HasBlock
        <3>6. \A q \in rows : \E p \in out : p.ip_entity = q.ip_entity
            BY <2>2, <3>1, <3>2
        <3> QED
            BY <3>1, <3>2, <3>3, <3>4, <3>5, <3>6 DEF Follows
    <2> QED BY <2>3, <2>4
<1> QED BY <1>1, <1>2

\* Each interval of a sequence of limits is a positive number.
LEMMA Intervals ==
    ASSUME NEW log, NEW net, NEW limits \in {IpLimits, Net24Limits, Net16Limits}
    PROVE  BlockIntervals(log, net, limits) \subseteq Nat \ {0}
<1>1. limits \in Seq(Limits)
    BY BlockListAssumption
<1>2. \A i \in DOMAIN limits : limits[i].block \in Nat \ {0}
    <2>1. \A i \in DOMAIN limits : limits[i] \in Limits
        BY <1>1
    <2> QED BY <2>1 DEF Limits
<1>3. ASSUME NEW interval \in BlockIntervals(log, net, limits)
      PROVE  interval \in Nat \ {0}
    <2>1. PICK i \in Exceeded(log, net, limits) : interval = limits[i].block
        BY DEF BlockIntervals
    <2>2. i \in DOMAIN limits
        BY DEF Exceeded
    <2> QED BY <1>2, <2>1, <2>2
<1> QED BY <1>3

\* A network is checked: the table follows, and a limit that is reached has led to
\* a block.
LEMMA CheckedFollows ==
    ASSUME now \in Times, NEW rows \in SUBSET Rows, Keyed(rows), NEW log,
           NEW net \in Entities, NEW exact \in BOOLEAN,
           NEW limits \in {IpLimits, Net24Limits, Net16Limits},
           NEW out \in CheckedFor(rows, log, net, exact, limits)
    PROVE  /\ Follows(rows, out)
           /\ Found(log, net) /\ Exceeded(log, net, limits) # {} => HasBlock(out, net)
<1>1. CASE Found(log, net) /\ Exceeded(log, net, limits) # {}
    <2>1. PICK interval \in BlockIntervals(log, net, limits) :
              out \in Blocked(rows, net, exact, interval)
        BY <1>1 DEF CheckedFor
    <2>2. interval \in Nat \ {0}
        BY Intervals
    <2> QED
        BY <2>1, <2>2, BlockedFollows
<1>2. CASE ~(Found(log, net) /\ Exceeded(log, net, limits) # {})
    <2>1. out = rows
        BY <1>2 DEF CheckedFor
    <2> QED BY <1>2, <2>1, FollowsItself
<1> QED BY <1>1, <1>2

\* The trigger: the table follows, and the address and its /16 have their block if
\* they have an event and have reached a limit.
LEMMA TriggerFollows ==
    ASSUME TypeOK, NEW a \in Addresses, NEW log, pam_ratebased_firewall_filter(a, log)
    PROVE  /\ Follows(block_raw, block_raw')
           /\ Found(log, {a}) /\ Exceeded(log, {a}, IpLimits) # {} => HasBlock(block_raw', {a})
           /\ Found(log, Net16[a]) /\ Exceeded(log, Net16[a], Net16Limits) # {}
                => HasBlock(block_raw', Net16[a])
<1>1. {a} \in Entities /\ Net16[a] \in Entities /\ Net24[a] \in Entities
    BY BlockListAssumption DEF Entities
<1>2. PICK one \in CheckedFor(block_raw, log, {a}, TRUE, IpLimits) :
          block_raw' \in NetChecked(one, log, a)
    BY DEF pam_ratebased_firewall_filter
<1>3. now \in Times /\ block_raw \in SUBSET Rows /\ Keyed(block_raw)
    BY DEF TypeOK
<1>4. /\ Follows(block_raw, one)
      /\ Found(log, {a}) /\ Exceeded(log, {a}, IpLimits) # {} => HasBlock(one, {a})
    BY <1>1, <1>3, CheckedFollows
<1>5. one \in SUBSET Rows /\ Keyed(one)
    BY <1>4 DEF Follows
<1>6. /\ Follows(one, block_raw')
      /\ Found(log, Net16[a]) /\ Exceeded(log, Net16[a], Net16Limits) # {}
           => HasBlock(block_raw', Net16[a])
    <2>1. CASE Found(log, Net16[a])
        <3>1. block_raw' \in CheckedFor(one, log, Net16[a], FALSE, Net16Limits)
            BY <1>2, <2>1 DEF NetChecked
        <3> QED BY <1>1, <1>3, <1>5, <3>1, CheckedFollows
    <2>2. CASE ~Found(log, Net16[a])
        <3>1. block_raw' \in CheckedFor(one, log, Net24[a], FALSE, Net24Limits)
            BY <1>2, <2>2 DEF NetChecked
        <3>2. Follows(one, block_raw')
            BY <1>1, <1>3, <1>5, <3>1, CheckedFollows
        <3> QED BY <2>2, <3>2
    <2> QED BY <2>1, <2>2
<1>7. Follows(block_raw, block_raw')
    BY <1>4, <1>6, FollowsOn
<1>8. HasBlock(one, {a}) => HasBlock(block_raw', {a})
    BY <1>1, <1>6 DEF Follows
<1> QED
    BY <1>4, <1>6, <1>7, <1>8

-----------------------------------------------------------------------------
(* Types.                                                                  *)

\* The list is a set of entities.
LEMMA ListedAreEntities ==
    ASSUME TypeOK, NEW rows \in SUBSET Rows
    PROVE  block_now(rows) \subseteq Entities
<1>1. \A r \in rows : r.ip_entity \in Entities
    BY DEF Rows
<1>2. \A r \in static_rules_raw : r.ip_entity \in Entities
    BY BlockListAssumption DEF TypeOK, Rules
<1> QED
    BY <1>1, <1>2 DEF block_now, block_raw_minus_allow, static_rules

\* An announcement writes a list of entities and the time.
LEMMA AnnouncedTyped ==
    ASSUME TypeOK, NEW rows \in SUBSET Rows, Announced(rows)
    PROVE  /\ checksum' = NULL \/ checksum' \subseteq Entities
           /\ refresh' \in Times \cup {NULL}
BY ListedAreEntities DEF Announced, TypeOK

\* The log with one more auth event.
LEMMA LogTyped ==
    ASSUME TypeOK, NEW a \in Addresses, NEW d \in Times,
           NEW same \in SUBSET inet_log,
           NEW log, log = inet_log \cup {[src_ipaddr |-> a, log_date |-> d, n |-> Cardinality(same) + 1]}
    PROVE  log \subseteq AuthEvents /\ IsFiniteSet(log)
<1>1. IsFiniteSet(same) /\ IsFiniteSet(inet_log)
    BY FS_Subset DEF TypeOK
<1>2. Cardinality(same) \in Nat
    BY <1>1, FS_CardinalityType
<1>3. [src_ipaddr |-> a, log_date |-> d, n |-> Cardinality(same) + 1] \in AuthEvents
    BY <1>2 DEF AuthEvents
<1>4. IsFiniteSet(log)
    BY <1>1, FS_AddElement
<1> QED
    BY <1>3, <1>4 DEF TypeOK

\* Types are kept by each statement, each read of the agent and the clock.
LEMMA TypesKept == TypeOK /\ [Next]_vars => TypeOK'
<1> SUFFICES ASSUME TypeOK, [Next]_vars PROVE TypeOK'
    OBVIOUS
<1> USE DEF db, agent
<1>n. now \in Int /\ Period \in Nat \ {0} /\ (NULL \notin Int) /\ MaxTime \in Nat
    BY BlockListAssumption DEF TypeOK, Times
<1>1. ASSUME NEW a \in Addresses, NEW d \in {now - 1, now} \cap Times, log_one_event(a, d)
      PROVE  TypeOK'
    <2>1. inet_log' \subseteq AuthEvents /\ IsFiniteSet(inet_log')
        <3> DEFINE same == {e \in inet_log : e.src_ipaddr = a /\ e.log_date = d}
        <3>1. inet_log' = inet_log \cup
                            {[src_ipaddr |-> a, log_date |-> d, n |-> Cardinality(same) + 1]}
            BY <1>1 DEF log_one_event
        <3>2. same \in SUBSET inet_log /\ d \in Times
            OBVIOUS
        <3> HIDE DEF same
        <3> QED BY <3>1, <3>2, LogTyped
    <2>2. pam_ratebased_firewall_filter(a, inet_log')
        BY <1>1 DEF log_one_event
    <2>3. block_raw' \subseteq Rows /\ Keyed(block_raw')
        BY <2>2, TriggerFollows DEF Follows
    <2>4. Announced(block_raw')
        BY <2>2 DEF pam_ratebased_firewall_filter
    <2>5. (checksum' = NULL \/ checksum' \subseteq Entities) /\ refresh' \in Times \cup {NULL}
        BY <2>3, <2>4, AnnouncedTyped
    <2> QED
        BY <1>1, <2>1, <2>3, <2>5 DEF log_one_event, TypeOK, Keyed
<1>2. ASSUME NEW a \in Addresses, log_other_event(a)
      PROVE  TypeOK'
    <2>1. pam_ratebased_firewall_filter(a, inet_log)
        BY <1>2 DEF log_other_event
    <2>2. block_raw' \subseteq Rows /\ Keyed(block_raw')
        BY <2>1, TriggerFollows DEF Follows
    <2>3. Announced(block_raw')
        BY <2>1 DEF pam_ratebased_firewall_filter
    <2>4. (checksum' = NULL \/ checksum' \subseteq Entities) /\ refresh' \in Times \cup {NULL}
        BY <2>2, <2>3, AnnouncedTyped
    <2> QED
        BY <1>2, <2>2, <2>4 DEF log_other_event, TypeOK, Keyed
<1>3. CASE cleanup_block_table
    <2>1. block_raw' \subseteq block_raw
        BY <1>3 DEF cleanup_block_table
    <2> QED BY <1>3, <2>1 DEF cleanup_block_table, TypeOK, Keyed
<1>4. ASSUME NEW rules \in SUBSET Rules, IsFiniteSet(rules), Keyed(rules), StaticRulesBecome(rules)
      PROVE  TypeOK'
    BY <1>4 DEF StaticRulesBecome, TypeOK, Keyed
<1>5. ASSUME NEW r \in Rules, static_rules_raw_insert(r)
      PROVE  TypeOK'
    <2> DEFINE rules == static_rules_raw \cup {r}
    <2>1. StaticRulesBecome(rules) /\ \A q \in static_rules_raw : q.ip_entity # r.ip_entity
        BY <1>5 DEF static_rules_raw_insert
    <2>2. Keyed(rules)
        BY <2>1 DEF TypeOK, Keyed
    <2>3. IsFiniteSet(rules)
        BY FS_AddElement DEF TypeOK
    <2>4. rules \in SUBSET Rules
        BY DEF TypeOK
    <2> QED BY <1>4, <2>1, <2>2, <2>3, <2>4
<1>6. ASSUME NEW r \in static_rules_raw, NEW d \in {"deny", "allow"},
             static_rules_raw_update(r, d)
      PROVE  TypeOK'
    <2> DEFINE x == [r EXCEPT !.disposition = d]
               rules == (static_rules_raw \ {r}) \cup {x}
    <2>1. StaticRulesBecome(rules)
        BY <1>6 DEF static_rules_raw_update
    <2>2. x \in Rules /\ x.ip_entity = r.ip_entity
        BY DEF TypeOK, Rules
    <2> HIDE DEF x
    <2>3. Keyed(rules)
        BY <2>2 DEF TypeOK, Keyed
    <2>4. IsFiniteSet(rules)
        <3>1. IsFiniteSet(static_rules_raw \ {r})
            BY FS_RemoveElement DEF TypeOK
        <3> QED BY <3>1, FS_AddElement
    <2>5. rules \in SUBSET Rules
        BY <2>2 DEF TypeOK
    <2> QED BY <1>4, <2>1, <2>3, <2>4, <2>5
<1>7. ASSUME NEW r \in static_rules_raw, static_rules_raw_delete(r)
      PROVE  TypeOK'
    <2>1. IsFiniteSet(static_rules_raw \ {r})
        BY FS_RemoveElement DEF TypeOK
    <2>2. Keyed(static_rules_raw \ {r}) /\ static_rules_raw \ {r} \in SUBSET Rules
        BY DEF TypeOK, Keyed
    <2> QED BY <1>4, <1>7, <2>1, <2>2 DEF static_rules_raw_delete
<1>8. CASE purge
    <2>1. inet_log' \subseteq inet_log
        BY <1>8 DEF purge, Kept
    <2>2. inet_log' \subseteq AuthEvents /\ IsFiniteSet(inet_log')
        BY <2>1, FS_Subset DEF TypeOK
    <2> QED BY <1>8, <2>2 DEF purge, TypeOK, Keyed
<1>9. ASSUME AgentReads, refresh' \in {refresh, NULL}
      PROVE  TypeOK'
    <2>1. installed' \subseteq Entities
        BY <1>9, ListedAreEntities DEF AgentReads, TypeOK
    <2>2. timer_abstime' \in now..now + Period
        BY <1>9, <1>n DEF AgentReads
    <2> QED BY <1>9, <2>1, <2>2 DEF AgentReads, TypeOK, Keyed
<1>10. CASE AgentNotified
    BY <1>9, <1>10 DEF AgentNotified
<1>11. CASE AgentTimesOut
    BY <1>9, <1>11 DEF AgentTimesOut
<1>12. CASE Tick
    <2>1. now' \in Times /\ timer_abstime' \in now'..now' + Period
        BY <1>12, <1>n DEF Tick, TypeOK, Times
    <2> QED BY <1>12, <2>1 DEF Tick, TypeOK, Keyed
<1>13. CASE UNCHANGED vars
    BY <1>13 DEF vars, TypeOK, Keyed
<1> QED
    BY <1>1, <1>2, <1>3, <1>5, <1>6, <1>7, <1>8, <1>10, <1>11, <1>12, <1>13 DEF Next

\* Every variable keeps its type, and each table its key.
THEOREM Typed == Spec => []TypeOK
<1>1. Init => TypeOK
    <2> SUFFICES ASSUME Init PROVE TypeOK
        OBVIOUS
    <2>1. now \in Times /\ timer_abstime \in now..now + Period
        BY BlockListAssumption DEF Init, Times
    <2>2. block_raw \subseteq Rows /\ Keyed(block_raw)
        BY BlockListAssumption DEF Init
    <2>3. IsFiniteSet({})
        BY FS_EmptySet
    <2> QED
        BY <2>1, <2>2, <2>3 DEF Init, TypeOK, Keyed
<1> QED
    BY <1>1, TypesKept, PTL DEF Spec

-----------------------------------------------------------------------------
(* The list.                                                               *)

\* A static rule of the list lies within no other of its disposition, itself
\* included.
LEMMA NoStaticRule ==
    ASSUME TypeOK
    PROVE  static_rules = {}
<1>1. ASSUME NEW r \in static_rules PROVE FALSE
    <2> DEFINE parents == {q \in static_rules_raw : /\ r.ip_entity \subseteq q.ip_entity
                                                    /\ q.disposition = r.disposition}
    <2>1. r \in parents /\ Cardinality(parents) = 0
        BY DEF static_rules, static_rules_parent_count
    <2>2. IsFiniteSet(parents)
        BY FS_Subset DEF TypeOK
    <2> QED
        BY <2>1, <2>2, FS_EmptySet
<1> QED BY <1>1

\* The kernel's list never has a block within another one (psql-db.schema:98-102, 115).
THEOREM NeverOverlaps == Spec => []NoOverlap
<1>1. TypeOK => NoOverlap
    <2> SUFFICES ASSUME TypeOK,
                        NEW e \in block_now(block_raw), NEW f \in block_now(block_raw),
                        e \subseteq f
                 PROVE  e = f
        BY DEF NoOverlap
    <2>1. PICK q \in block_raw : q.ip_entity = e /\ BlockParents(block_raw, e) = {}
        BY NoStaticRule DEF block_now, block_raw_minus_allow
    <2>2. PICK r \in block_raw : r.ip_entity = f /\ Active(r)
        BY NoStaticRule DEF block_now, block_raw_minus_allow
    <2> QED
        BY <2>1, <2>2 DEF BlockParents
<1> QED
    BY <1>1, Typed, PTL

\* No static rule ever applies, whatever rules there are: each is its own parent
\* (psql-db.schema:35-57).
THEOREM StaticRulesNeverApply == Spec => [](static_rules = {})
BY Typed, NoStaticRule, PTL

-----------------------------------------------------------------------------
(* The list has what is blocked, and the kernel has the list.              *)

\* Of the active rows that cover an entity one is within no other: the addresses
\* are finitely many, and what the row leaves out cannot grow smaller for ever.
LEMMA WidestRow ==
    ASSUME TypeOK, NEW r \in block_raw, Active(r)
    PROVE  \E w \in block_raw : /\ Active(w) /\ r.ip_entity \subseteq w.ip_entity
                                /\ BlockParents(block_raw, w.ip_entity) = {}
<1> DEFINE covers == {q \in block_raw : Active(q) /\ r.ip_entity \subseteq q.ip_entity}
           T == {Addresses \ q.ip_entity : q \in covers}
<1>1. \A q \in block_raw : q.ip_entity \subseteq Addresses
    BY DEF TypeOK, Rows, Entities
<1>2. T \subseteq FiniteSubsetsOf(Addresses) /\ T # {}
    <2>1. FiniteSubsetsOf(Addresses) = SUBSET Addresses
        BY FS_FiniteSubsetsOfFinite, BlockListAssumption
    <2>2. T \subseteq SUBSET Addresses
        OBVIOUS
    <2>3. r \in covers
        OBVIOUS
    <2>4. Addresses \ r.ip_entity \in T
        BY <2>3
    <2> HIDE DEF T
    <2> QED BY <2>1, <2>2, <2>4
<1> HIDE DEF T
<1>3. PICK x \in T : \A y \in T : <<y, x>> \notin StrictSubsetOrdering(Addresses)
    BY <1>2, WFMin, FS_StrictSubsetOrderingWellFounded
<1>4. PICK w \in covers : x = Addresses \ w.ip_entity
    BY DEF T
<1>5. BlockParents(block_raw, w.ip_entity) = {}
    <2> SUFFICES ASSUME NEW q \in BlockParents(block_raw, w.ip_entity)
                 PROVE  FALSE
        OBVIOUS
    <2>1. q \in block_raw /\ Active(q) /\ w.ip_entity \subseteq q.ip_entity /\ w.ip_entity # q.ip_entity
        BY DEF BlockParents
    <2> DEFINE y == Addresses \ q.ip_entity
    <2>2. q \in covers
        BY <2>1, <1>4
    <2>3. y \in T
        BY <2>2 DEF T
    <2>4. y \subseteq x /\ y # x /\ y \in SUBSET Addresses /\ x \in SUBSET Addresses
        BY <1>1, <1>4, <2>1
    <2>5. <<y, x>> \in StrictSubsetOrdering(Addresses)
        BY <2>4 DEF StrictSubsetOrdering
    <2> QED BY <1>3, <2>3, <2>5
<1> QED
    BY <1>4, <1>5

\* No row covers the list's entry, so it is on the list.
LEMMA OnTheList ==
    ASSUME TypeOK, NEW w \in block_raw, Active(w), BlockParents(block_raw, w.ip_entity) = {}
    PROVE  w.ip_entity \in block_now(block_raw)
BY NoStaticRule DEF block_now, block_raw_minus_allow, Static

\* An active row is on the list or within an entry of it.
LEMMA Covered ==
    ASSUME TypeOK, NEW r \in block_raw, Active(r)
    PROVE  \E e \in block_now(block_raw) : r.ip_entity \subseteq e
BY WidestRow, OnTheList

\* The list is what is to be blocked now and nothing else (psql-db.schema:98-124).
THEOREM ListIsBlocks == Spec => []ListMatches
<1>1. TypeOK => ListMatches
    <2> SUFFICES ASSUME TypeOK PROVE ListMatches
        OBVIOUS
    <2>1. \A r \in block_raw : Active(r) => \E e \in block_now(block_raw) : r.ip_entity \subseteq e
        BY Covered
    <2>2. \A e \in block_now(block_raw) : \E r \in block_raw : r.ip_entity = e /\ Active(r)
        BY NoStaticRule DEF block_now, block_raw_minus_allow
    <2> QED BY <2>1, <2>2 DEF ListMatches
<1> QED
    BY <1>1, Typed, PTL

\* The agent reads: what is active is covered by what it reads, and what has ended
\* is not in it.
LEMMA ReadsSound ==
    ASSUME TypeOK, TypeOK', AgentReads
    PROVE  ReadSound'
<1>1. LastRead' = now /\ now \in Nat /\ block_raw' = block_raw /\ installed' = block_now(block_raw)
    BY BlockListAssumption DEF AgentReads, db, LastRead, TypeOK, Times
<1>2. ASSUME NEW r \in block_raw, r.start_date = NULL \/ r.start_date < now,
             r.end_date = NULL \/ r.end_date > now
      PROVE  \E e \in installed' : r.ip_entity \subseteq e
    <2>1. Active(r)
        BY <1>2 DEF Active
    <2> QED BY <1>1, <2>1, Covered
<1>3. ASSUME NEW r \in block_raw, r.end_date # NULL, r.end_date <= now
      PROVE  r.ip_entity \notin installed'
    <2> SUFFICES ASSUME r.ip_entity \in block_now(block_raw) PROVE FALSE
        BY <1>1
    <2>1. PICK q \in block_raw : q.ip_entity = r.ip_entity /\ Active(q)
        BY NoStaticRule DEF block_now, block_raw_minus_allow
    <2>2. q = r
        BY <2>1 DEF TypeOK, Keyed
    <2>3. r.end_date \in Int /\ now \in Int
        BY <1>1, <1>3 DEF TypeOK, Rows, Dates
    <2> QED BY <1>3, <2>1, <2>2, <2>3 DEF Active
<1> QED
    BY <1>1, <1>2, <1>3 DEF ReadSound

\* The agent does not read, and the table has what it had, or less, or fresh rows.
LEMMA WritesSound ==
    ASSUME TypeOK, TypeOK', ReadSound, UNCHANGED agent, now' \in {now, now + 1},
           \A q \in block_raw' : q \in block_raw \/ Fresh(q)
    PROVE  ReadSound'
<1>1. LastRead' = LastRead /\ LastRead \in Int /\ now \in Int /\ LastRead <= now
    BY BlockListAssumption DEF agent, LastRead, TypeOK, Times
<1>2. ASSUME NEW r \in block_raw', r \notin block_raw
      PROVE  ~(r.modification_date < LastRead) /\ ~(r.end_date <= LastRead)
    BY <1>1, <1>2 DEF Fresh
<1> QED
    BY <1>1, <1>2 DEF ReadSound, agent

\* ReadSound is kept by every step.
LEMMA ReadKept == TypeOK /\ TypeOK' /\ ReadSound /\ [Next]_vars => ReadSound'
<1> SUFFICES ASSUME TypeOK, TypeOK', ReadSound, [Next]_vars PROVE ReadSound'
    OBVIOUS
<1>1. ASSUME NEW a \in Addresses, NEW log, pam_ratebased_firewall_filter(a, log),
             UNCHANGED agent, now' = now
      PROVE  ReadSound'
    <2>1. \A q \in block_raw' : q \in block_raw \/ Fresh(q)
        BY <1>1, TriggerFollows DEF Follows
    <2> QED BY <1>1, <2>1, WritesSound
<1>2. CASE AgentNotified
    BY <1>2, ReadsSound DEF AgentNotified
<1>3. CASE AgentTimesOut
    BY <1>3, ReadsSound DEF AgentTimesOut
<1>4. CASE cleanup_block_table
    BY <1>4, WritesSound DEF cleanup_block_table
<1>5. CASE UNCHANGED <<block_raw, agent>> /\ now' \in {now, now + 1}
    BY <1>5, WritesSound
<1> QED
    BY <1>1, <1>2, <1>3, <1>4, <1>5 DEF Next, vars, db, log_one_event, log_other_event,
       StaticRulesBecome, static_rules_raw_insert, static_rules_raw_update,
       static_rules_raw_delete, purge, Tick

\* A period after a block was set, or has ended, the kernel knows, whatever
\* notifications were sent (psql-db.schema:267-277, iptracking-firewalld.c:291-330).
THEOREM KernelFollows == Spec => []InForce
<1>1. Init => ReadSound
    <2> SUFFICES ASSUME Init PROVE ReadSound
        OBVIOUS
    <2>1. timer_abstime = 0 /\ ~(LastRead >= 0) /\ installed = {}
        BY BlockListAssumption DEF Init, LastRead
    <2> QED BY <2>1 DEF ReadSound
<1>2. IInv => InForce
    <2> SUFFICES ASSUME TypeOK, ReadSound, now > 0, NEW r \in block_raw
                 PROVE  /\ (/\ Active(r)
                            /\ r.start_date = NULL \/ r.start_date < now - Period
                            /\ r.modification_date = NULL \/ r.modification_date < now - Period)
                              => \E e \in installed : r.ip_entity \subseteq e
                        /\ Ended(r) /\ r.end_date < now - Period => r.ip_entity \notin installed
        BY DEF IInv, InForce
    <2>1. /\ now \in Nat /\ Period \in Nat \ {0} /\ NULL \notin Int
          /\ timer_abstime \in Int /\ now <= timer_abstime /\ timer_abstime <= now + Period
        BY BlockListAssumption DEF TypeOK, Times
    <2>2. LastRead \in Int /\ LastRead >= 0 /\ now - Period <= LastRead /\ LastRead <= now
        BY <2>1 DEF ReadSound, LastRead
    <2>3. /\ r.modification_date \in Int
          /\ r.start_date = NULL \/ r.start_date \in Int
          /\ r.end_date = NULL \/ r.end_date \in Int
        BY DEF TypeOK, Rows, Dates
    <2>4. ASSUME Active(r), r.start_date = NULL \/ r.start_date < now - Period,
                 r.modification_date = NULL \/ r.modification_date < now - Period
          PROVE  \E e \in installed : r.ip_entity \subseteq e
        <3>1. r.modification_date < LastRead
            BY <2>1, <2>2, <2>3, <2>4
        <3>2. r.start_date = NULL \/ r.start_date < LastRead
            BY <2>1, <2>2, <2>3, <2>4
        <3>3. r.end_date = NULL \/ r.end_date > LastRead
            BY <2>1, <2>2, <2>3, <2>4 DEF Active
        <3> QED BY <2>2, <3>1, <3>2, <3>3 DEF ReadSound
    <2>5. ASSUME Ended(r), r.end_date < now - Period
          PROVE  r.ip_entity \notin installed
        <3>1. r.end_date # NULL /\ r.end_date <= LastRead
            BY <2>1, <2>2, <2>3, <2>5 DEF Ended
        <3> QED BY <3>1 DEF ReadSound
    <2> QED BY <2>4, <2>5
<1>3. TypeOK /\ ReadSound => IInv
    BY DEF IInv
<1> QED
    BY <1>1, <1>2, <1>3, ReadKept, Typed, PTL DEF Spec

-----------------------------------------------------------------------------
(* Thresholds and maintenance.                                             *)

\* An event that has just been logged is found on its day.
LEMMA JustLogged ==
    ASSUME TypeOK, NEW log, NEW e \in log, NEW net, e.src_ipaddr \in net,
           e.log_date \in {now - 1, now} \cap Times
    PROVE  Found(log, net)
<1>1. now \in Int /\ Day \in Nat \ {0} /\ e.log_date \in Int
    BY BlockListAssumption DEF TypeOK, Times
<1>2. e.log_date >= now - Day
    BY <1>1
<1> QED
    BY <1>2 DEF Found, Within

\* An address that reaches a limit is blocked, and so is its /16, at once and
\* whatever the table held (psql-db.schema:169-232).
THEOREM LimitsBlock == Spec => ThresholdBlocks
<1>1. ASSUME TypeOK, Next, NEW b \in Addresses,
             NEW e \in inet_log' \ inet_log, e.src_ipaddr = b
      PROVE  /\ Exceeded(inet_log', {b}, IpLimits) # {} => HasBlock(block_raw', {b})
             /\ Exceeded(inet_log', Net16[b], Net16Limits) # {} => HasBlock(block_raw', Net16[b])
    <2>1. \E a \in Addresses, d \in {now - 1, now} \cap Times : log_one_event(a, d)
        <3>1. inet_log' # inet_log
            BY <1>1
        <3>2. ~(inet_log' \subseteq inet_log)
            BY <1>1
        <3>3. ~purge
            BY <3>2 DEF purge, Kept
        <3> QED
            BY <1>1, <3>1, <3>3 DEF Next, db, log_other_event, cleanup_block_table, StaticRulesBecome,
               static_rules_raw_insert, static_rules_raw_update, static_rules_raw_delete,
               AgentReads, AgentNotified, AgentTimesOut, Tick
    <2>2. PICK a \in Addresses, d \in {now - 1, now} \cap Times : log_one_event(a, d)
        BY <2>1
    <2>3. e.src_ipaddr = a /\ e.log_date = d
        BY <1>1, <2>2 DEF log_one_event
    <2>4. pam_ratebased_firewall_filter(a, inet_log')
        BY <2>2 DEF log_one_event
    <2>5. a = b /\ a \in Net16[a]
        BY <1>1, <2>3, BlockListAssumption
    <2>6. Found(inet_log', {a}) /\ Found(inet_log', Net16[a])
        BY <1>1, <2>3, <2>5, JustLogged
    <2> QED
        BY <1>1, <2>4, <2>5, <2>6, TriggerFollows
<1>2. TypeOK /\ [Next]_vars =>
          [\A a \in Addresses :
              (\E e \in inet_log' \ inet_log : e.src_ipaddr = a) =>
                  /\ Exceeded(inet_log', {a}, IpLimits) # {} => HasBlock(block_raw', {a})
                  /\ Exceeded(inet_log', Net16[a], Net16Limits) # {} => HasBlock(block_raw', Net16[a])]_vars
    BY <1>1
<1> QED
    BY <1>2, Typed, PTL DEF Spec, ThresholdBlocks

\* What is deleted is older than any window.
LEMMA PurgeSound ==
    ASSUME TypeOK, purge, NEW net, NEW limits \in {IpLimits, Net24Limits, Net16Limits}
    PROVE  Exceeded(inet_log', net, limits) = Exceeded(inet_log, net, limits)
<1>1. PICK CURRENT_DATE \in (now - Day + 1)..now :
          inet_log' = Kept(inet_log, CURRENT_DATE - PurgeDays * Day)
    BY DEF purge
<1>2. now \in Int /\ Day \in Nat \ {0} /\ PurgeDays \in Nat \ {0} /\ CURRENT_DATE \in Int
    BY BlockListAssumption DEF TypeOK, Times
<1>3. PurgeDays * Day \in Int /\ PurgeDays * Day >= Day
    BY <1>2
<1>4. \A i \in DOMAIN limits : limits[i].window \in 0..Day
    <2>1. \A i \in DOMAIN limits : limits[i] \in Limits
        BY BlockListAssumption
    <2> QED BY <2>1 DEF Limits
<1>5. ASSUME NEW window \in 0..Day
      PROVE  Within(inet_log', net, window) = Within(inet_log, net, window)
    <2>1. \A e \in inet_log : e.log_date \in Int
        BY DEF TypeOK, AuthEvents, Times
    <2>2. now - window >= CURRENT_DATE - PurgeDays * Day
        BY <1>2, <1>3
    <2>3. \A e \in inet_log : e.log_date >= now - window => e.log_date >= CURRENT_DATE - PurgeDays * Day
        BY <1>2, <1>3, <2>1, <2>2
    <2> QED
        BY <1>1, <2>3 DEF Within, Kept
<1> QED
    BY <1>4, <1>5 DEF Exceeded

\* Neither the removal of blocks that have ended nor the deletion of old events
\* changes the list or a count (psql-db.schema:128-139, iptracking-maint.py:286-290).
THEOREM MaintenanceUnseen == Spec => MaintenanceInvisible
<1>1. ASSUME TypeOK, Next, now' = now, block_raw' \subseteq block_raw,
             static_rules_raw' = static_rules_raw
      PROVE  block_now(block_raw') = block_now(block_raw)
    <2>1. CASE block_raw' = block_raw
        BY <1>1, <2>1
    <2>2. CASE cleanup_block_table
        <3>1. \A r \in block_raw : Active(r) => r \in block_raw'
            <4>1. \A r \in block_raw : r.end_date \in Int \cup {NULL} /\ now \in Int
                BY <1>1 DEF TypeOK, Rows, Dates, Times
            <4>2. \A r \in block_raw : Active(r) => ~Ended(r)
                BY <4>1 DEF Active, Ended
            <4> QED BY <2>2, <4>2 DEF cleanup_block_table
        <3>2. \A ip : BlockParents(block_raw', ip) = BlockParents(block_raw, ip)
            BY <1>1, <3>1 DEF BlockParents
        <3> QED
            BY <1>1, <3>1, <3>2 DEF block_now, block_raw_minus_allow
    <2>3. CASE \E a \in Addresses : \E log : pam_ratebased_firewall_filter(a, log)
        <3>1. Follows(block_raw, block_raw')
            BY <1>1, <2>3, TriggerFollows
        <3>2. block_raw' = block_raw
            BY <1>1, <3>1, FollowsWithin DEF TypeOK
        <3> QED BY <3>2
    <2> QED
        BY <1>1, <2>1, <2>2, <2>3 DEF Next, db, log_one_event, log_other_event, StaticRulesBecome,
           static_rules_raw_insert, static_rules_raw_update, static_rules_raw_delete, purge,
           AgentReads, AgentNotified, AgentTimesOut, Tick
<1>2. ASSUME TypeOK, Next, now' = now, inet_log' \subseteq inet_log,
             NEW net, NEW limits \in {IpLimits, Net24Limits, Net16Limits}
      PROVE  Exceeded(inet_log', net, limits) = Exceeded(inet_log, net, limits)
    <2>1. CASE purge
        BY <1>2, <2>1, PurgeSound
    <2>2. CASE inet_log' = inet_log
        BY <2>2
    <2>3. CASE \E a \in Addresses, d \in Times : log_one_event(a, d)
        <3>1. inet_log \subseteq inet_log'
            BY <2>3 DEF log_one_event
        <3> QED BY <1>2, <3>1
    <2> QED
        BY <1>2, <2>1, <2>2, <2>3 DEF Next, db, log_other_event, cleanup_block_table,
           StaticRulesBecome, static_rules_raw_insert, static_rules_raw_update,
           static_rules_raw_delete, AgentReads, AgentNotified, AgentTimesOut, Tick
<1>3. TypeOK /\ [Next]_vars =>
          [now' = now =>
              /\ block_raw' \subseteq block_raw /\ static_rules_raw' = static_rules_raw
                    => block_now(block_raw') = block_now(block_raw)
              /\ inet_log' \subseteq inet_log
                    => \A a \in Addresses :
                          /\ Exceeded(inet_log', {a}, IpLimits) = Exceeded(inet_log, {a}, IpLimits)
                          /\ Exceeded(inet_log', Net24[a], Net24Limits)
                                = Exceeded(inet_log, Net24[a], Net24Limits)
                          /\ Exceeded(inet_log', Net16[a], Net16Limits)
                                = Exceeded(inet_log, Net16[a], Net16Limits)]_vars
    BY <1>1, <1>2
<1> QED
    BY <1>3, Typed, PTL DEF Spec, MaintenanceInvisible
=============================================================================
