---------------------------- MODULE LocalBackend ----------------------------
(***************************************************************************)
(* Starting the engine of a local backend (backends/local_engine.py): the   *)
(* first request loads it, in a thread and under a lock, while others wait  *)
(* and the backend may be closed; and the size of its KV pool, decided from *)
(* what the device has left once the weights are on it (runtime/memory.py). *)
(* Memory is in small units; an engine is the number of the load that built *)
(* it.  A call is: idle, queued (for the lock), weights, sizing, allocate   *)
(* (the load in its thread), serving, or raised.                            *)
(***************************************************************************)
EXTENDS Integers, FiniteSets

CONSTANTS
  Caller,     \* the requests that arrive
  Configs     \* [total, util, others, weights, activations, layers, perLayer, explicit,
              \*  maxLen, maxSeqs, blockSize]: the device and the configuration; util is in tenths

Positive == Nat \ {0}

ASSUME LocalBounds ==
  \A c \in Configs : /\ c.util \in 1 .. 10 /\ {c.layers, c.perLayer, c.blockSize, c.maxSeqs} \subseteq Positive
                     /\ {c.total, c.weights, c.activations, c.explicit, c.maxLen} \subseteq Nat
                     /\ c.others \in 0 .. c.total
ASSUME CallerAssumption == "nobody" \notin Caller

VARIABLES
  config, call,
  lock,       \* the caller inside `async with self._lock`, or Nobody
  engine,     \* LocalEngineBackend._engine, 0 for None
  loads,      \* the loads begun
  alive,      \* the engines that run, whoever refers to them, and the memory of each
  closed,
  closing,    \* the engine close() is waiting for, 0 for none
  closedInLoad,  \* history: close() came while a request was loading the engine, or about to
  used,       \* memory in use on the device
  sizing      \* LLMEngine.sizing of the last load: [blocks, budget, reason]

localVars == <<config, call, lock, engine, loads, alive, closed, closing, closedInLoad, used, sizing>>

Nobody == "nobody"
NoSizing == [blocks |-> 0, budget |-> 0, reason |-> "none"]

LocalInit ==
  /\ config \in Configs
  /\ call = [c \in Caller |-> "idle"] /\ lock = Nobody /\ engine = 0 /\ loads = 0
  /\ alive = {} /\ closed = FALSE /\ closing = 0 /\ closedInLoad = FALSE
  /\ used = config.others /\ sizing = NoSizing

----------------------------------------------------------------------------
(* size_kv_cache                                                             *)

At0(n) == IF n < 0 THEN 0 ELSE n

\* The share of the whole device, less what is in use and a step's activations.
Budget(inUse) == At0((config.total * config.util) \div 10 - inUse - config.activations)

\* _max_useful_blocks
MaxUseful ==
  LET perSeq == (config.maxLen + config.blockSize - 1) \div config.blockSize
      blocks == perSeq * config.maxSeqs
  IN IF blocks < 1 THEN 1 ELSE blocks

\* bytes_per_block: a block id stands for a block of every layer.
BytesPerBlock == config.layers * config.perLayer

\* blocks_for_memory: one block too many would be out of memory under load.
BlocksForMemory(bytes) == bytes \div BytesPerBlock

\* total_bytes, all of which allocate takes.
PoolBytes(blocks) == blocks * BytesPerBlock

\* Explicit first, then memory, capped by what the sequences can use; no block at all is a
\* MemoryProfileError.
Sizing(inUse) ==
  LET fits == BlocksForMemory(Budget(inUse))
  IN CASE config.explicit > 0 ->
            [blocks |-> config.explicit, budget |-> Budget(inUse), reason |-> "explicit"]
       [] config.explicit = 0 /\ fits < 1 -> [blocks |-> 0, budget |-> Budget(inUse), reason |-> "error"]
       [] config.explicit = 0 /\ fits >= 1 /\ config.maxLen > 0 /\ MaxUseful < fits ->
            [blocks |-> MaxUseful, budget |-> Budget(inUse), reason |-> "max_model_len"]
       [] OTHER -> [blocks |-> fits, budget |-> Budget(inUse), reason |-> "memory"]

----------------------------------------------------------------------------
(* _ensure_engine                                                            *)

Sees(c, at) == call' = [call EXCEPT ![c] = at]

\* asyncio.Lock: held, or with waiters that come first.
Contended == lock # Nobody \/ \E c \in Caller : call[c] = "queued"

\* A slip: a caller that waited for the lock loads an engine of its own.
LoadsAgain(c) == lock' = c /\ loads' = loads + 1 /\ Sees(c, "weights")

\* What a caller does with the lock it got: another one may have built the engine.
EnterLock(c) ==
  \/ /\ engine # 0
     /\ Sees(c, "serving") /\ UNCHANGED <<lock, loads>>
  \/ /\ engine = 0
     /\ lock' = c /\ loads' = loads + 1 /\ Sees(c, "weights")

\* A request arrives.
Call(c) ==
  /\ call[c] = "idle"
  /\ \/ closed /\ Sees(c, "raised") /\ UNCHANGED <<lock, loads>>
     \/ ~closed /\ engine # 0 /\ Sees(c, "serving") /\ UNCHANGED <<lock, loads>>
     \/ ~closed /\ engine = 0 /\ ~Contended /\ EnterLock(c)
     \/ ~closed /\ engine = 0 /\ Contended /\ Sees(c, "queued") /\ UNCHANGED <<lock, loads>>
  /\ UNCHANGED <<config, engine, alive, closed, closing, closedInLoad, used, sizing>>

\* A caller that waited gets the lock.
Dequeue(c) ==
  /\ call[c] = "queued" /\ lock = Nobody
  /\ EnterLock(c)
  /\ UNCHANGED <<config, engine, alive, closed, closing, closedInLoad, used, sizing>>

\* The load ends with an exception: what it had taken is given back.
Fails(c, taken) ==
  /\ lock' = Nobody /\ Sees(c, "raised") /\ used' = used - taken
  /\ UNCHANGED <<engine, alive>>

\* CausalLM.from_pretrained puts the weights on the device.
LoadWeights(c) ==
  /\ call[c] = "weights"
  /\ \/ /\ used + config.weights <= config.total
        /\ used' = used + config.weights /\ Sees(c, "sizing")
        /\ UNCHANGED <<lock, engine, alive>>
     \/ Fails(c, 0)
  /\ UNCHANGED <<config, loads, closed, closing, closedInLoad, sizing>>

\* probe_memory and size_kv_cache.
Size(c) ==
  /\ call[c] = "sizing"
  /\ sizing' = Sizing(used)
  /\ \/ /\ sizing'.reason # "error" /\ Sees(c, "allocate")
        /\ UNCHANGED <<lock, engine, alive, used>>
     \/ sizing'.reason = "error" /\ Fails(c, config.weights)
  /\ UNCHANGED <<config, loads, closed, closing, closedInLoad>>

\* build_kv_cache, then, back on the event loop, the step loop is started and the engine
\* published.
Allocate(c) ==
  LET pool == PoolBytes(sizing.blocks)
  IN /\ call[c] = "allocate"
     /\ \/ /\ used + pool <= config.total
           /\ used' = used + pool
           /\ engine' = loads /\ alive' = alive \cup {[load |-> loads, memory |-> config.weights + pool]}
           /\ lock' = Nobody /\ Sees(c, "serving")
        \/ used + pool > config.total /\ Fails(c, config.weights)
     /\ UNCHANGED <<config, loads, closed, closing, closedInLoad, sizing>>

\* close(): the engine is let go of at once, and closed in an await.
CloseBackend ==
  /\ ~closed /\ closed' = TRUE /\ closedInLoad' = Contended
  /\ engine' = 0 /\ closing' = engine
  /\ UNCHANGED <<config, call, lock, loads, alive, used, sizing>>

\* Its loop has stopped and its memory is released.
EngineClosed ==
  /\ closing' = 0
  /\ \E e \in alive : e.load = closing /\ alive' = alive \ {e} /\ used' = used - e.memory
  /\ UNCHANGED <<config, call, lock, engine, loads, closed, closedInLoad, sizing>>

LocalNext ==
  \/ \E c \in Caller : Call(c) \/ Dequeue(c) \/ LoadWeights(c) \/ Size(c) \/ Allocate(c)
  \/ CloseBackend
  \/ EngineClosed

LocalSpec == LocalInit /\ [][LocalNext]_localVars

----------------------------------------------------------------------------
(* Properties.                                                               *)

Loading == {c \in Caller : call[c] \in {"weights", "sizing", "allocate"}}

\* Until the backend is closed the weights are never on the device twice: at most one engine
\* runs or is being loaded, however many requests arrive while it loads (_ensure_engine).
OneEngine == ~closed => Cardinality(alive) + Cardinality(Loading) <= 1

\* An engine whose pool was sized from memory leaves a step's activations, and stays within
\* its share of the whole device, other processes' memory counted.
WithinShare ==
  engine # 0 /\ sizing.reason # "explicit"
    => used + config.activations <= (config.total * config.util) \div 10

\* The pool takes all it is allowed, unless fewer blocks already hold max_num_seqs sequences
\* of max_model_len tokens.
PoolNotWasted ==
  engine # 0 /\ sizing.reason # "explicit"
    => \/ PoolBytes(sizing.blocks + 1) > sizing.budget
       \/ \A tokens \in 1 .. config.maxLen :
            sizing.blocks >= config.maxSeqs * ((tokens + config.blockSize - 1) \div config.blockSize)

\* Closing the backend gives the device back, unless a request was loading the engine or
\* about to: the load goes on, and what it builds is never closed (the second close() does
\* nothing).
CloseReleases == closed /\ ~closedInLoad /\ closing = 0 => alive = {} /\ used = config.others

\* The device holds one engine, of the size it was given, until the backend is closed.
DeviceShared == OneEngine /\ WithinShare /\ PoolNotWasted /\ CloseReleases
=============================================================================
