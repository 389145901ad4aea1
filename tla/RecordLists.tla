----------------------------- MODULE RecordLists -----------------------------
(***************************************************************************)
(* The linked lists inside the event queue: what __log_queue_add_pool,     *)
(* __log_queue_alloc_record and __log_queue_dealloc_record of              *)
(* pam-daemon/log_queue.c do to the records' link fields and to the heads  *)
(* and the tail.  Records are numbered as they are allocated.              *)
(***************************************************************************)
EXTENDS Naturals, Sequences

CONSTANT NoEvent

NULL == 0

VARIABLES link, event,   \* fields of the records
          free_head, used_head, used_tail

ListsInit == /\ link = <<>> /\ event = <<>>
             /\ free_head = NULL /\ used_head = NULL /\ used_tail = NULL

-----------------------------------------------------------------------------
\* Mutant: next_pool is not advanced past the first record.
AddPool_FirstOnly(n) ==
    LET old == Len(link)
    IN [link |-> link \o [k \in 1..n |-> IF k = 1 THEN free_head ELSE old + k - 1],
        event |-> event \o [k \in 1..n |-> NoEvent],
        free_head |-> old + 1]

\* The lists as a new pool of n records leaves them: the records go one by one
\* in front of the free list, so its last record is taken first.
AddPool(n) ==
    LET old == Len(link)
    IN [link |-> link \o [k \in 1..n |-> IF k = 1 THEN free_head ELSE old + k - 1],
        event |-> event \o [k \in 1..n |-> NoEvent],
        free_head |-> old + n]

\* The record at free_head of the lists q becomes the tail of the used list, and
\* log_queue_push copies its event into it.
AllocRecord(q, e) ==
    LET new_rec == q.free_head
        linked  == [q.link EXCEPT ![new_rec] = NULL]
    IN /\ free_head' = q.link[new_rec]
       /\ link' = IF used_tail # NULL THEN [linked EXCEPT ![used_tail] = new_rec] ELSE linked
       /\ used_head' = IF used_tail # NULL THEN used_head ELSE new_rec
       /\ used_tail' = new_rec
       /\ event' = [q.event EXCEPT ![new_rec] = e]

PushReused(e) == AllocRecord([link |-> link, event |-> event, free_head |-> free_head], e)

PushPooled(e, n) == AllocRecord(AddPool(n), e)

\* Mutant: the tail still points to a record given back.
DeallocRecord_KeepsTail(old_rec) ==
    /\ used_tail' = used_tail
    /\ used_head' = link[old_rec]
    /\ link' = [link EXCEPT ![old_rec] = free_head]
    /\ free_head' = old_rec
    /\ UNCHANGED event

\* The only caller passes the head of the used list: the search for old_rec ends
\* at once and leaves last_rec NULL.
DeallocRecord(old_rec) ==
    /\ used_tail' = IF old_rec = used_tail THEN NULL ELSE used_tail
    /\ used_head' = link[old_rec]
    /\ link' = [link EXCEPT ![old_rec] = free_head]
    /\ free_head' = old_rec
    /\ UNCHANGED event

PopUsed == DeallocRecord(used_head)

-----------------------------------------------------------------------------
Records == 1..Len(link)

\* s is the list that begins at h: its first record is at h, each record's link
\* leads to the next one, and the last one's is NULL.
IsList(h, s) ==
    /\ h = IF s = <<>> THEN NULL ELSE s[1]
    /\ \A k \in 1..Len(s) : link[s[k]] = IF k = Len(s) THEN NULL ELSE s[k + 1]
=============================================================================
