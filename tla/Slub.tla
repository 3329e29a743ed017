-------------------------------- MODULE Slub --------------------------------
(* One kmem_cache of the slab allocator: kmem_cache_alloc, kmem_cache_free,  *)
(* new_slab and kmem_freepages.  A slab is a number, its objects are         *)
(* 1 .. PerSlab in the order of their addresses, 0 is a null pointer.  The   *)
(* allocator runs on one CPU and no interrupt handler calls it, so that a    *)
(* call is one step.  The pages below are those of PageAlloc, seen as a pool.*)
EXTENDS Integers, Sequences, FiniteSets, Functions

CONSTANTS
  Slab,        \* page blocks the cache can get from __alloc_pages
  PerSlab,     \* objects that new_slab carves out of one
  CpuPartial,  \* cpu_partial: the limit of objects on the CPU's partial list
  MinPartial,  \* min_partial: slabs a node keeps
  Word,        \* 2^32: where an unsigned sum or difference wraps
  Word0        \* what the test of the word at address 0 against NULL may give

ASSUME SlubAssumption ==
  /\ IsFiniteSet(Slab) /\ 0 \notin Slab
  /\ PerSlab \in Nat \ {0} /\ PerSlab < 32768
  /\ CpuPartial \in Nat /\ MinPartial \in Nat /\ Word \in Nat \ {0}
  /\ Word0 \subseteq BOOLEAN

Null == 0
Obj  == 1 .. PerSlab

VARIABLES
  link,      \* the free pointer behind every object: the next free one
  freeList,  \* page->free_list
  inuse,     \* page->inuse, 15 bits
  pobjects,  \* page->pobjects
  frozen,    \* page->frozen
  next,      \* page->next, where the slab is on the CPU's partial list
  cpu,       \* cpu_slab: its page, freelist and partial
  node,      \* node[0]->partial, as a sequence
  nrPartial, \* node[0]->nr_partial
  pool,      \* slabs whose pages the page allocator has
  live,      \* the objects clients hold
  word0,     \* the word at address 0 is zero
  fate       \* "ok", or how the cache has left its own memory

slabs == <<link, freeList, inuse, pobjects, frozen, next, pool>>
lists == <<cpu, node, nrPartial>>
vars  == <<slabs, lists, live, word0, fate>>

-----------------------------------------------------------------------------
(* The chain of free objects of slab s that starts at o, and where a walk    *)
(* from o stops, in at most PerSlab steps; a longer one never ends.          *)
Walk(s, o) ==
  LET w[n \in 0 .. PerSlab] ==
        IF n = 0 THEN o ELSE IF w[n - 1] = Null THEN Null ELSE link[s][w[n - 1]]
  IN  w
Chain(s, o) == Range(Walk(s, o)) \ {Null}
Ends(s, o)  == Walk(s, o)[PerSlab] = Null

(* kmem_cache_free keeps its chains in address order from the second on: it  *)
(* stops at the first entry with no next one, or with a next slot beyond the *)
(* object's first byte (its own slot is).                                    *)
Stops(s, x, o) == link[s][x] = Null \/ link[s][x] >= o
StopsSomewhere(s, head, o) ==
  \E n \in 0 .. PerSlab - 1 :
    Walk(s, head)[n] # Null /\ Stops(s, Walk(s, head)[n], o)
Place(s, head, o) ==
  LET n == CHOOSE n \in 0 .. PerSlab - 1 :
             /\ Walk(s, head)[n] # Null /\ Stops(s, Walk(s, head)[n], o)
             /\ \A m \in 0 .. n - 1 : ~Stops(s, Walk(s, head)[m], o)
  IN  Walk(s, head)[n]

(* Mutant of Insert: the object keeps the link it was handed out with.       *)
InsertKeepsLink(s, head, o) == [link EXCEPT ![s][Place(s, head, o)] = o]

(* *head = slot; head = slot; *head = next: the second store comes after the *)
(* first when the object is the entry itself.                                *)
Insert(s, head, o) ==
  LET x == Place(s, head, o) IN [link EXCEPT ![s][x] = o, ![s][o] = link[s][x]]

(* Mutant of Alone: its link is not cleared.                                 *)
AloneKeepsLink(s, o) == link

(* The only free object of its slab.                                         *)
Alone(s, o) == [link EXCEPT ![s][o] = Null]

(* The free list that new_slab lays out.                                     *)
Fresh == [o \in Obj |-> IF o = PerSlab THEN Null ELSE o + 1]

-----------------------------------------------------------------------------
Init ==
  /\ link = [s \in Slab |-> [o \in Obj |-> Null]]
  /\ freeList = [s \in Slab |-> Null]
  /\ inuse = [s \in Slab |-> 0]
  /\ pobjects = [s \in Slab |-> 0]
  /\ frozen = [s \in Slab |-> FALSE]
  /\ next = [s \in Slab |-> Null]
  /\ cpu = [page |-> Null, freelist |-> Null, partial |-> Null]
  /\ node = <<>>
  /\ nrPartial = 0
  /\ pool = Slab
  /\ live = {}
  /\ word0 \in Word0
  /\ fate = "ok"

(* Whether a slab whose free list has become rest is given up: *freelist ==  *)
(* NULL asks for the link of its first object and, where it has none, for    *)
(* the word at address 0.                                                    *)
GivesUp(links, rest) == IF rest = Null THEN word0 ELSE links[rest] = Null

(* Taking the first object of slab s, whose free list is fl, under the links *)
(* lk.  c->page is null by the time that the slab would be marked as given   *)
(* up, so that its descriptor keeps frozen and pobjects.                     *)
Take(s, fl, lk, partial) ==
  IF fl = Null
  THEN /\ fate' = "bogus"
       /\ cpu' = [page |-> s, freelist |-> Null, partial |-> partial]
       /\ UNCHANGED live
  ELSE LET rest   == lk[s][fl]
           retire == GivesUp(lk[s], rest)
       IN /\ live' = live \cup {<<s, fl>>}
          /\ cpu' = [page |-> IF retire THEN Null ELSE s,
                     freelist |-> IF retire THEN Null ELSE rest,
                     partial |-> partial]
          /\ UNCHANGED fate

AllocFront ==
  /\ fate = "ok" /\ cpu.page # Null
  /\ Take(cpu.page, cpu.freelist, link, cpu.partial)
  /\ UNCHANGED <<slabs, node, nrPartial, word0>>

(* Mutant of AllocPartial: the slab stays on the CPU's partial list.         *)
AllocPartialKeeps ==
  /\ fate = "ok" /\ cpu.page = Null /\ cpu.partial # Null
  /\ Take(cpu.partial, freeList[cpu.partial], link, cpu.partial)
  /\ UNCHANGED <<slabs, node, nrPartial, word0>>

AllocPartial ==
  /\ fate = "ok" /\ cpu.page = Null /\ cpu.partial # Null
  /\ Take(cpu.partial, freeList[cpu.partial], link, next[cpu.partial])
  /\ UNCHANGED <<slabs, node, nrPartial, word0>>

(* new_slab, with kmem_getpages.  It leaves free_list and pobjects alone.    *)
AllocNew ==
  /\ fate = "ok" /\ cpu.page = Null /\ cpu.partial = Null /\ node = <<>>
  /\ \E s \in pool :
       /\ pool' = pool \ {s}
       /\ link' = [link EXCEPT ![s] = Fresh]
       /\ inuse' = [inuse EXCEPT ![s] = PerSlab]
       /\ frozen' = [frozen EXCEPT ![s] = TRUE]
       /\ Take(s, 1, link', Null)
  /\ UNCHANGED <<freeList, pobjects, next, node, nrPartial, word0>>

(* __alloc_pages has none: it returns -1, which is taken for a descriptor.    *)
AllocStarves ==
  /\ fate = "ok" /\ cpu.page = Null /\ cpu.partial = Null /\ node = <<>>
  /\ pool = {}
  /\ fate' = "starved"
  /\ UNCHANGED <<slabs, lists, live, word0>>

(* A slab leaves the node's list.  list_entry is told the wrong member, so   *)
(* pg is not its descriptor but one word further: pg->free_list is lru.prev, *)
(* which list_add made the list's head, and the object returned lies there.  *)
AllocNode ==
  /\ fate = "ok" /\ cpu.page = Null /\ cpu.partial = Null /\ node # <<>>
  /\ node' = Tail(node)
  /\ fate' = "bogus"
  /\ UNCHANGED <<slabs, cpu, nrPartial, live, word0>>

-----------------------------------------------------------------------------
(* A free into the slab at the front.  With no second object nothing is done *)
(* but a message; with no first one either, what is done depends on the word *)
(* at address 0.                                                             *)
FreeFront(s, o) ==
  /\ fate = "ok" /\ cpu.page = s
  /\ live' = live \ {<<s, o>>}
  /\ LET head == IF cpu.freelist = Null THEN Null ELSE link[s][cpu.freelist] IN
       \/ /\ cpu.freelist = Null /\ ~word0
          /\ fate' = "astray"
          /\ UNCHANGED link
       \/ /\ head = Null /\ (cpu.freelist = Null => word0)
          /\ UNCHANGED <<link, fate>>
       \/ /\ head # Null
          /\ IF StopsSomewhere(s, head, o)
             THEN link' = Insert(s, head, o) /\ UNCHANGED fate
             ELSE fate' = "loop" /\ UNCHANGED link
  /\ UNCHANGED <<freeList, inuse, pobjects, frozen, next, pool, lists, word0>>

Less1(n) == (n - 1) % 32768

(* The first object freed of a full slab: it goes on the CPU's partial list, *)
(* or on the node's when that list would reach its limit of objects.         *)
FreeRevives(s, o) ==
  /\ fate = "ok" /\ cpu.page # s /\ freeList[s] = Null
  /\ live' = live \ {<<s, o>>}
  /\ freeList' = [freeList EXCEPT ![s] = o]
  /\ link' = Alone(s, o)
  /\ inuse' = [inuse EXCEPT ![s] = Less1(@)]
  /\ LET total == (pobjects[s] + 1 +
                   (IF cpu.partial = Null THEN 0 ELSE pobjects[cpu.partial])) % Word
     IN /\ pobjects' = [pobjects EXCEPT ![s] = total]
        /\ IF cpu.partial = Null \/ total < CpuPartial
           THEN /\ next' = [next EXCEPT ![s] = cpu.partial]
                /\ cpu' = [cpu EXCEPT !.partial = s]
                /\ UNCHANGED <<node, nrPartial>>
           ELSE /\ node' = <<s>> \o node
                /\ nrPartial' = nrPartial + 1
                /\ UNCHANGED <<next, cpu>>
  /\ UNCHANGED <<frozen, pool, word0, fate>>

(* The slabs on the CPU's partial list, in order.                            *)
PartialList ==
  LET walk[n \in 0 .. Cardinality(Slab)] ==
        IF n = 0 THEN cpu.partial
        ELSE IF walk[n - 1] = Null THEN Null ELSE next[walk[n - 1]]
  IN  Range(walk) \ {Null}

(* kmem_freepages of a slab that counts no object in use.  A frozen slab is  *)
(* looked for on the CPU's list, and every slab is frozen.                   *)
Discard(s) ==
  IF frozen[s] /\ s \notin PartialList
  THEN /\ fate' = "astray"
       /\ UNCHANGED <<next, cpu, node, nrPartial, pobjects, pool>>
  ELSE /\ pool' = pool \cup {s}
       /\ IF frozen[s]
          THEN /\ IF cpu.partial = s
                  THEN cpu' = [cpu EXCEPT !.partial = next[s]] /\ UNCHANGED next
                  ELSE /\ next' = [t \in Slab |-> IF t \in PartialList /\ next[t] = s
                                                  THEN next[s] ELSE next[t]]
                       /\ UNCHANGED cpu
               /\ pobjects' = IF cpu.page = Null THEN pobjects
                              ELSE [pobjects EXCEPT ![cpu.page] = (@ + 1 - PerSlab) % Word]
               /\ UNCHANGED <<node, nrPartial>>
          ELSE /\ node' = SelectSeq(node, LAMBDA t : t # s)
               /\ nrPartial' = nrPartial - 1
               /\ UNCHANGED <<next, cpu, pobjects>>
       /\ UNCHANGED fate

(* Any other free: the object joins the chain of its slab.                   *)
FreeJoins(s, o) ==
  /\ fate = "ok" /\ cpu.page # s /\ freeList[s] # Null
  /\ live' = live \ {<<s, o>>}
  /\ IF StopsSomewhere(s, freeList[s], o)
     THEN /\ link' = Insert(s, freeList[s], o)
          /\ inuse' = [inuse EXCEPT ![s] = Less1(@)]
          /\ IF inuse'[s] = 0 /\ MinPartial < nrPartial
             THEN Discard(s)
             ELSE /\ pobjects' = IF frozen[s] /\ cpu.partial # Null
                                 THEN [pobjects EXCEPT ![cpu.partial] = (@ + 1) % Word]
                                 ELSE pobjects
                  /\ UNCHANGED <<next, cpu, node, nrPartial, pool, fate>>
     ELSE /\ fate' = "loop"
          /\ UNCHANGED <<link, inuse, pobjects, next, cpu, node, nrPartial, pool>>
  /\ UNCHANGED <<freeList, frozen, word0>>

(* Clients free what they hold, once.                                        *)
Free == \E h \in live : FreeFront(h[1], h[2]) \/ FreeRevives(h[1], h[2])
                        \/ FreeJoins(h[1], h[2])

Alloc == AllocFront \/ AllocPartial \/ AllocNew \/ AllocStarves \/ AllocNode

Next == Alloc \/ Free
Spec == Init /\ [][Next]_vars

-----------------------------------------------------------------------------
Ok == fate = "ok"

(* The slabs that the cache could still hand out from, with the free list it *)
(* would use for each.                                                       *)
Waiting == PartialList \cup Range(node)
FreeIn(s) ==
  (IF s = cpu.page THEN Chain(s, cpu.freelist) ELSE {}) \cup
  (IF s \in Waiting THEN Chain(s, freeList[s]) ELSE {})

(* While the cache is intact no object that a client holds is on a free list *)
(* an allocation can reach, whatever the order of allocations and frees and  *)
(* however stale the free list of a slab out of the cache's sight.           *)
FreeNotLive == Ok => \A h \in live : h[2] \notin FreeIn(h[1])

(* A slab is in one place: the CPU's front, its partial list, the node's     *)
(* list, or the page allocator, and nowhere twice.                           *)
SlabOnce == Ok =>
  /\ cpu.page \notin Waiting \cup pool
  /\ PartialList \cap Range(node) = {}
  /\ Waiting \cap pool = {}
  /\ IsInjective(node)

ReachableEnd ==
  Ok => /\ cpu.page # Null => Ends(cpu.page, cpu.freelist)
        /\ \A s \in Waiting : Ends(s, freeList[s])

(* After every step the lists an allocation can reach end, and the insertion *)
(* of an object into one of them has ended, although they are only ordered   *)
(* by address from their second entry on.  What may not end is a free into a *)
(* slab that is neither at the front nor on a list and was not full: the     *)
(* stale free list has objects that are in use, and one that finds itself    *)
(* there becomes a ring of its own.                                          *)
ChainsEnd ==
  [][/\ ReachableEnd'
     /\ Ok /\ fate' = "loop" =>
          \E h \in live : /\ live' = live \ {h} /\ freeList[h[1]] # Null
                          /\ h[1] \notin Waiting \cup {cpu.page}]_vars
=============================================================================
