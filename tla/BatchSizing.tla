----------------------------- MODULE BatchSizing -----------------------------
(***************************************************************************)
(* How many chunks are embedded at once on a GPU, and how much of its      *)
(* memory the process may hold: the functions at the top of                *)
(* embeddings/embedder.py and the place in embed_chunks that uses them.    *)
(*                                                                         *)
(* Memory is in MiB, the cost of a chunk in KiB, a fraction in percent.    *)
(* What the GPU reports is the input: all of its memory ("total"), what no *)
(* process holds ("free") and what this one holds ("us").  A cost of 0 is  *)
(* one nobody knows.                                                       *)
(***************************************************************************)
EXTENDS Integers, FiniteSetsExt

CONSTANTS Floor,     \* cost of a chunk, at least: 0.04 GiB
          Gated      \* types of models whose feed-forward part is gated

\* What there is of the GPU, the model and the configuration.
Gpus == {gpu \in [total : Nat, us : Nat, free : Nat] : gpu.us + gpu.free <= gpu.total}
Archs == {arch \in [hidden : Nat, heads : Nat, kv : Nat, head : Nat, inner : Nat, type : STRING,
                    wide : BOOLEAN] : arch.hidden > 0 => arch.heads > 0}
Inputs == [gpu : Gpus, cuda : BOOLEAN, fraction : 5 .. 100, fallback : BOOLEAN,
           override : {"none", "on", "off"}, measured : Nat, arch : Archs,
           min : Nat \ {0}, max : Nat \ {0}, dynamic : BOOLEAN, fixed : Nat]

Between(low, x, high) == Max({low, Min({x, high})})

\* estimate_activation_gb_from_config: the memory of the widest step of one layer, for
\* 2048 tokens, 15 times over for what the allocator keeps.
EstimatedCost(arch) ==
  LET head    == IF arch.head = 0 THEN arch.hidden \div arch.heads ELSE arch.head
      inner   == IF arch.inner = 0 THEN 4 * arch.hidden ELSE arch.inner
      attends == 3 * arch.hidden + 2 * arch.kv * head
      feeds   == 2 * arch.hidden + (IF arch.type \in Gated THEN 2 ELSE 1) * inner
      bytes   == (Max({attends, feeds}) + arch.hidden) * (IF arch.wide THEN 4 ELSE 2)
  IN Max({30 * bytes, Floor})

\* The cost measured when the model was loaded, else the estimate, else the floor.
Cost(in) == IF in.measured > 0 THEN in.measured
            ELSE IF in.arch.hidden > 0 THEN EstimatedCost(in.arch) ELSE Floor

-----------------------------------------------------------------------------
(* The ceiling (compute_effective_vram_cap, set_vram_limit).                *)

Headroom(in) == in.gpu.total - (in.fraction * in.gpu.total) \div 100

EffectiveCap_NoHeadroom(in) ==
  LET cap == Max({Min({(in.fraction * in.gpu.total) \div 100, in.gpu.us + in.gpu.free}), in.gpu.us})
  IN Between((5 * in.gpu.total) \div 100, cap, (in.fraction * in.gpu.total) \div 100)

\* What the user allows, less what other processes hold of it; never less than what is
\* held already or 5 %, and never more than the user allows.
EffectiveCap(in) ==
  LET user     == (in.fraction * in.gpu.total) \div 100
      physical == in.gpu.us + in.gpu.free - Headroom(in)
      cap      == Max({Min({user, physical}), in.gpu.us})
  IN Max({(5 * in.gpu.total) \div 100, Min({cap, user})})

\* The override of a running indexing goes before the configuration.
Spills(in) == IF in.override # "none" THEN in.override = "on" ELSE in.fallback
Limited(in) == in.cuda /\ ~Spills(in)

\* _check_vram_status: beyond this no further batch is begun.
Exhausted(in, held) == in.cuda /\ 100 * held > 95 * in.gpu.total

-----------------------------------------------------------------------------
(* The batch (calculate_optimal_batch_size).                                *)

\* A share of the free memory: 0.8125 of the fraction, less 18 % for fragmentation.
Target(in) ==
  LET share == Between(500, (in.fraction * 8125) \div 100, 9500)
  IN (((in.gpu.free * share) \div 10000) * 82) \div 100

\* Small GPUs lower both bounds, little free memory the upper one.
Limits(in) ==
  LET small  == in.gpu.total <= 6 * 1024
      laptop == ~small /\ in.gpu.total <= 10 * 1024
      high   == IF small THEN 16 ELSE IF laptop THEN 32 ELSE in.max
      low    == IF small THEN 2 ELSE IF laptop THEN 4 ELSE in.min
      scarce == IF in.gpu.free < 4 * 1024 THEN 8 ELSE IF in.gpu.free < 6 * 1024 THEN 16 ELSE in.max
  IN [min |-> Min({in.min, low}), max |-> Min({in.max, high, scarce})]

OptimalBatch_AllFree(in) ==
  Between(Limits(in).min, (in.gpu.free * 1024) \div Cost(in), Limits(in).max)

OptimalBatch(in) ==
  IF in.cuda THEN Between(Limits(in).min, (Target(in) * 1024) \div Cost(in), Limits(in).max)
  ELSE in.min

\* embed_chunks: sized for the GPU if that is asked for, else as configured.
BatchSize(in) == IF in.dynamic /\ in.cuda THEN OptimalBatch(in) ELSE in.fixed

-----------------------------------------------------------------------------
\* A sized batch fits.  Above its lower bound it takes no more than its share of the free
\* memory, and if half of the GPU is free it stays below the ceiling on top of what is
\* held already, although the two are computed apart and from different quantities; of two
\* states of a GPU the one with more free memory never gets a smaller batch; and the
\* ceiling leaves what other processes hold, and the headroom, alone, unless this process
\* holds more already or the rest is less than 5 % (embedder.py:196-252, 339-431, 1320-1336).
Fits(in) ==
  LET size  == OptimalBatch(in)
      taken == (size * Cost(in)) \div 1024
  IN /\ size >= 1 /\ size <= Max({in.min, in.max})
     /\ size > Limits(in).min =>
          /\ taken <= Target(in)
          /\ in.fraction >= 75 /\ 2 * in.gpu.free >= in.gpu.total =>
               /\ in.gpu.us + taken <= EffectiveCap(in)
               /\ ~Exhausted(in, in.gpu.us + taken)
     /\ \A more \in 0 .. (in.gpu.total - in.gpu.us - in.gpu.free) \div 1024 :
          size <= OptimalBatch([in EXCEPT !.gpu.free = @ + 1024 * more])

CapSparesOthers(in) ==
  LET others == in.gpu.total - in.gpu.free - in.gpu.us
  IN \/ EffectiveCap(in) + others + Headroom(in) <= in.gpu.total
     \/ EffectiveCap(in) <= Max({in.gpu.us, (5 * in.gpu.total) \div 100})

BatchesFit(in) == in.cuda => Fits(in) /\ (Limited(in) => CapSparesOthers(in))
=============================================================================
