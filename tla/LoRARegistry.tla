---------------------------- MODULE LoRARegistry ----------------------------
(***************************************************************************)
(* engine/lora/registry.py: adapters live in host memory under a stable id *)
(* and are copied, on demand, into a few slots of the GPU buffers of       *)
(* engine/lora/layers.py, the least recently used one giving way.          *)
(*                                                                         *)
(* The registry belongs to the engine's step loop.  activate() is cut      *)
(* between the adapters it loads, because a load may raise.  A row of a    *)
(* projection's buffers is modelled by the adapter each of its `MaxRank`   *)
(* columns belongs to, 0 for a column of zeros.                            *)
(***************************************************************************)
EXTENDS Integers, Sequences, FiniteSets, SequencesExt, Functions

CONSTANTS
  MaxAdapters,  \* bound on the adapters that are registered
  NumSlots,     \* max_gpu_adapters
  NumLayers,    \* the wrapped projections
  MaxRank,      \* max_lora_rank
  Rank,         \* the rank of each adapter
  Targets,      \* the projections each adapter has factors for
  MaxTokens,    \* bound on the tokens of a step
  Faults        \* whether a copy to the device may raise

Adapter == 1 .. MaxAdapters
Slot == 1 .. NumSlots
Layer == 1 .. NumLayers
NoLora == 0

\* LoRAOptions: slots and columns, something to wrap, an adapter to serve.
LoRAOptionsValid == {NumSlots, MaxRank, NumLayers, MaxAdapters} \subseteq Nat \ {0}

ASSUME LoRASizes == LoRAOptionsValid /\ MaxTokens \in Nat \ {0}
ASSUME LoRAAdapters == /\ Rank \in [Adapter -> 1 .. MaxRank]
                       /\ Targets \in [Adapter -> SUBSET Layer]
ASSUME LoRAFaults == Faults \in BOOLEAN

VARIABLES
  registered,   \* _next_id - 1: ids are given in order
  slotOf,       \* _slot_of: adapter -> slot
  adapterOf,    \* _adapter_of: slot -> adapter
  freeSlots,    \* _free_slots
  lru,          \* _lru, least recently used first
  pinned,       \* _pinned
  rows,         \* the stacked buffers, by slot and projection
  phase,        \* "idle", inside activate() ("loading"), or in a forward pass ("step")
  ids,          \* the adapter ids of the step's tokens; of pin(), the one it pins
  pinning,      \* whether pin() called activate()
  misses,       \* the adapters activate() has still to load
  mapping,      \* what activate() will return
  lost          \* slots whose load raised: in no index of the registry any more

slotVars == <<slotOf, adapterOf, freeSlots, lru, rows>>
callVars == <<phase, ids, pinning, misses, mapping>>
vars == <<registered, slotVars, pinned, callVars, lost>>

Empty == [x \in {} |-> x]
Column == 1 .. MaxRank
Zeros == [k \in Column |-> NoLora]

\* The maps are between adapters and slots, and every column belongs to someone.
TypeOK ==
  /\ registered \in 0 .. MaxAdapters
  /\ DOMAIN slotOf \subseteq Adapter /\ slotOf \in [DOMAIN slotOf -> Slot]
  /\ DOMAIN adapterOf \subseteq Slot /\ adapterOf \in [DOMAIN adapterOf -> Adapter]
  /\ freeSlots \in Seq(Slot) /\ lru \in Seq(Adapter)
  /\ pinned \subseteq Adapter
  /\ rows \in [Slot -> [Layer -> [Column -> Adapter \cup {NoLora}]]]
  /\ phase \in {"idle", "loading", "step"}
  /\ ids \in Seq(Adapter \cup {NoLora}) /\ pinning \in BOOLEAN
  /\ misses \in Seq(Adapter)
  /\ DOMAIN mapping \subseteq Adapter /\ mapping \in [DOMAIN mapping -> Slot]
  /\ lost \subseteq Slot

AllSlots == [s \in Slot |-> s]
CleanRows == [s \in Slot |-> [l \in Layer |-> Zeros]]

Init ==
  /\ registered = 0
  /\ slotOf = Empty /\ adapterOf = Empty /\ freeSlots = AllSlots /\ lru = << >>
  /\ pinned = {}
  /\ rows = CleanRows
  /\ phase = "idle" /\ ids = << >> /\ pinning = FALSE /\ misses = << >> /\ mapping = Empty
  /\ lost = {}

----------------------------------------------------------------------------
(* engine/lora/layers.py                                                   *)

\* A slip: the columns beyond the rank keep what was there.
LoadedStale(a, l, row) == [k \in Column |-> IF k <= Rank[a] THEN a ELSE row[k]]

\* load_slot: the adapter's columns, zeros up to the width of the pool.
Loaded(a, l, row) == [k \in Column |-> IF k <= Rank[a] THEN a ELSE NoLora]

\* One projection's part of _load: load_slot, or clear_slot if the adapter does not
\* target it.
LayerLoad(a, l, row) == IF l \in Targets[a] THEN Loaded(a, l, row) ELSE Zeros

WantedAdapters == ToSet(ids) \ {NoLora}

\* sorted() on a set of numbers.
Sorted(S) ==
  CHOOSE q \in [1 .. Cardinality(S) -> S] : \A i, j \in DOMAIN q : i < j => q[i] < q[j]

\* LoRABatch.from_token_slots: the positions of the tokens of each slot, slot by
\* slot, and where in that list each slot's are.
TokenSlots == [p \in DOMAIN ids |-> IF ids[p] = NoLora THEN NoLora ELSE mapping[ids[p]]]
ActiveSlots == Sorted(ToSet(TokenSlots) \ {NoLora})
Bucket(s) == Sorted({p \in DOMAIN ids : TokenSlots[p] = s})

\* `order` after the buckets of the first n slots.
Grouped[n \in 0 .. Len(ActiveSlots)] ==
  IF n = 0 THEN << >> ELSE Grouped[n - 1] \o Bucket(ActiveSlots[n])
Order == Grouped[Len(ActiveSlots)]
Segments ==
  [i \in DOMAIN ActiveSlots |->
     [slot |-> ActiveSlots[i], start |-> Len(Grouped[i - 1]), end |-> Len(Grouped[i])]]

\* _add_delta over the segments: the rows that are added to a token's output, the
\* slots without factors for the projection left out.
GroupedRows(p, l) ==
  {rows[g.slot][l] : g \in {h \in ToSet(Segments) :
     /\ rows[h.slot][l] # Zeros
     /\ \E i \in h.start + 1 .. h.end : Order[i] = p}}

\* _add_delta with the bgmv kernel, which reads every column of the token's slot.
KernelRows(p, l) ==
  IF TokenSlots[p] = NoLora THEN {} ELSE {rows[TokenSlots[p]][l]} \ {Zeros}

----------------------------------------------------------------------------
(* Registration, pins, and the start of activate()                         *)

Register ==
  /\ phase = "idle" /\ registered < MaxAdapters
  /\ registered' = registered + 1
  /\ UNCHANGED <<slotVars, pinned, callVars, lost>>

Resident(S) == S \cap DOMAIN slotOf

\* What is left of the LRU order without some of it.
Without(S) ==
  LET kept[n \in 0 .. Len(lru)] ==
        IF n = 0 THEN << >>
        ELSE IF lru[n] \in S THEN kept[n - 1] ELSE Append(kept[n - 1], lru[n])
  IN  kept[Len(lru)]

\* _lru.move_to_end for each of them, in the order of their ids
Refreshed(S) == Without(S) \o Sorted(S)

\* Unknown ids, and more of them than there are slots, raise and change nothing.
Activate(tokens, pin) ==
  /\ phase = "idle"
  /\ LET wanted == ToSet(tokens) \ {NoLora}
     IN  /\ wanted # {} /\ Cardinality(wanted) <= NumSlots
         /\ lru' = Refreshed(Resident(wanted))
         /\ mapping' = Restrict(slotOf, Resident(wanted))
         /\ misses' = Sorted(wanted \ DOMAIN slotOf)
  /\ phase' = "loading" /\ ids' = tokens /\ pinning' = pin
  /\ UNCHANGED <<registered, slotOf, adapterOf, freeSlots, rows, pinned, lost>>

BuildContext(tokens) == Activate(tokens, FALSE)
Pin(a) == Activate(<<a>>, TRUE)

Unpin(a) ==
  /\ phase = "idle" /\ a \in pinned
  /\ pinned' = pinned \ {a}
  /\ UNCHANGED <<registered, slotVars, callVars, lost>>

----------------------------------------------------------------------------
(* The loop of activate() over its misses                                  *)

\* Whom _take_slot may evict.
Victims == {i \in DOMAIN lru : lru[i] \notin WantedAdapters \cup pinned}

\* The least recently used of them.
Victim == lru[CHOOSE i \in Victims : \A j \in Victims : i <= j]

\* The maps with `a` in slot s, and whoever was there forgotten.
Moved(a, s) ==
  /\ slotOf' = [b \in {c \in DOMAIN slotOf : slotOf[c] # s} \cup {a} |->
                  IF b = a THEN s ELSE slotOf[b]]
  /\ adapterOf' = [t \in DOMAIN adapterOf \cup {s} |-> IF t = s THEN a ELSE adapterOf[t]]

\* _take_slot: a free slot, or that of the victim, which leaves the LRU order.
TakesSlot(s) ==
  \/ /\ freeSlots # << >>
     /\ s = Head(freeSlots)
     /\ freeSlots' = Tail(freeSlots)
  \/ /\ freeSlots = << >> /\ Victims # {}
     /\ s = slotOf[Victim]
     /\ UNCHANGED freeSlots

StillThere(s) == Without({a \in DOMAIN slotOf : slotOf[a] = s})

\* A miss: take a slot, _load.
LoadMiss ==
  /\ phase = "loading" /\ misses # << >>
  /\ LET a == Head(misses)
     IN  \E s \in Slot :
           /\ TakesSlot(s)
           /\ rows' = [rows EXCEPT ![s] = [l \in Layer |-> LayerLoad(a, l, rows[s][l])]]
           /\ Moved(a, s)
           /\ lru' = Append(StillThere(s), a)
           /\ mapping' = [b \in DOMAIN mapping \cup {a} |-> IF b = a THEN s ELSE mapping[b]]
  /\ misses' = Tail(misses)
  /\ UNCHANGED <<registered, pinned, phase, ids, pinning, lost>>

LoadRaises == /\ phase' = "idle" /\ ids' = << >> /\ pinning' = FALSE
         /\ misses' = << >> /\ mapping' = Empty

\* The device copy of some projection raises: the slot is taken, the projections
\* before it are overwritten, and the maps know nothing of it.
LoadFails(upTo) ==
  /\ Faults /\ phase = "loading" /\ misses # << >>
  /\ LET a == Head(misses)
     IN  \E s \in Slot :
           /\ TakesSlot(s)
           /\ rows' = [rows EXCEPT ![s] =
                [l \in Layer |-> IF l < upTo THEN LayerLoad(a, l, rows[s][l]) ELSE rows[s][l]]]
           /\ slotOf' = Restrict(slotOf, {b \in DOMAIN slotOf : slotOf[b] # s})
           /\ adapterOf' = Restrict(adapterOf, DOMAIN adapterOf \ {s})
           /\ lru' = StillThere(s)
           /\ lost' = lost \cup {s}
  /\ LoadRaises
  /\ UNCHANGED <<registered, pinned>>

\* LoRACapacityError in the middle: what has been loaded stays.
NoSlot ==
  /\ phase = "loading" /\ misses # << >> /\ freeSlots = << >> /\ Victims = {}
  /\ LoadRaises
  /\ UNCHANGED <<registered, slotVars, pinned, lost>>

\* activate() returns to pin(), or to build_context() and the forward pass.
EndActivate ==
  /\ phase = "loading" /\ misses = << >>
  /\ IF pinning THEN LoadRaises /\ pinned' = pinned \cup WantedAdapters
                ELSE phase' = "step" /\ UNCHANGED <<pinned, ids, pinning, misses, mapping>>
  /\ UNCHANGED <<registered, slotVars, lost>>

EndStep ==
  /\ phase = "step" /\ LoadRaises
  /\ UNCHANGED <<registered, slotVars, pinned, lost>>

\* deactivate refuses a pinned adapter.
Deactivate(a) ==
  /\ phase = "idle" /\ a \in DOMAIN slotOf \ pinned
  /\ freeSlots' = Append(freeSlots, slotOf[a])
  /\ adapterOf' = Restrict(adapterOf, DOMAIN adapterOf \ {slotOf[a]})
  /\ slotOf' = Restrict(slotOf, DOMAIN slotOf \ {a})
  /\ lru' = Without({a})
  /\ UNCHANGED <<registered, rows, pinned, callVars, lost>>

\* Everything is evicted, pins included, and a lost slot is found again.
ResetSlots ==
  /\ phase = "idle"
  /\ slotOf' = Empty /\ adapterOf' = Empty /\ lru' = << >> /\ pinned' = {}
  /\ freeSlots' = AllSlots /\ rows' = CleanRows /\ lost' = {}
  /\ UNCHANGED <<registered, callVars>>

Next ==
  \/ Register
  \/ \E n \in 1 .. MaxTokens : \E tokens \in [1 .. n -> 0 .. registered] : BuildContext(tokens)
  \/ \E a \in 1 .. registered : Pin(a) \/ Unpin(a) \/ Deactivate(a)
  \/ LoadMiss \/ (\E l \in Layer : LoadFails(l)) \/ NoSlot
  \/ EndActivate \/ EndStep \/ ResetSlots

Spec == Init /\ [][Next]_vars

----------------------------------------------------------------------------
(* Properties                                                              *)

\* check_invariants, with the slots of loads that raised accounted for: the two
\* maps are inverse, a slot is occupied, free or lost and never two of them, the
\* LRU order lists what is resident, and what is pinned is resident.
RegistryInv ==
  /\ \A a \in DOMAIN slotOf : slotOf[a] \in DOMAIN adapterOf /\ adapterOf[slotOf[a]] = a
  /\ \A s \in DOMAIN adapterOf : adapterOf[s] \in DOMAIN slotOf /\ slotOf[adapterOf[s]] = s
  /\ IsInjective(freeSlots) /\ IsInjective(lru)
  /\ ToSet(lru) = DOMAIN slotOf
  /\ DOMAIN adapterOf \cap ToSet(freeSlots) = {}
  /\ lost \cap (DOMAIN adapterOf \cup ToSet(freeSlots)) = {}
  /\ DOMAIN adapterOf \cup ToSet(freeSlots) \cup lost = Slot
  /\ pinned \subseteq DOMAIN slotOf

\* What a token of adapter a must be given in projection l.
RowsDue(a, l) == IF a # NoLora /\ l \in Targets[a]
               THEN {[k \in Column |-> IF k <= Rank[a] THEN a ELSE NoLora]} ELSE {}

\* Each token of a step gets the factors of the adapter its request named, whole
\* and nobody else's, on either path through the layers; the base model's tokens
\* get none.  Slots move, and slots given out early in activate() must survive
\* the evictions that follow.
OwnAdapter ==
  phase = "step" => \A p \in DOMAIN ids : \A l \in Layer :
    GroupedRows(p, l) = RowsDue(ids[p], l) /\ KernelRows(p, l) = RowsDue(ids[p], l)

\* A step is refused only if its adapters and the pinned ones together need more
\* slots than are left: a smaller step always finds its slots, whatever the order.
RefusedOnlyWhenFull ==
  phase = "loading" /\ misses # << >> /\ freeSlots = << >> /\ Victims = {}
    => Cardinality(WantedAdapters \cup pinned) > NumSlots - Cardinality(lost)

\* A token is multiplied with the rows of its own adapter, through evictions and loads that
\* raise, and an adapter is refused only when there is no slot left for it.
LoRAInv == TypeOK /\ RegistryInv /\ OwnAdapter /\ RefusedOnlyWhenFull
=============================================================================
