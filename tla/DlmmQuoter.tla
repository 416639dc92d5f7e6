----------------------------- MODULE DlmmQuoter -----------------------------
(***************************************************************************)
(* The Meteora DLMM quoter: quote_exact_in and quote_exact_out walking the *)
(* bins of a pool snapshot.                                                *)
(*                                                                         *)
(* Liquidity lies in bins, each with a fixed price and a reserve of both   *)
(* tokens; bins are kept in arrays of BinsPerArray, and a bitmap (a word   *)
(* in the pool account, the pages of an extension account beyond it) flags *)
(* the arrays that hold liquidity.  A quote alternates two loops: find the *)
(* next flagged array from the active bin on, then cross its bins one by   *)
(* one.  One action is one turn of either loop.  After an exact-out quote  *)
(* the caller may put the quoted input, or one unit less, through the      *)
(* exact-in quoter: the two quoters ought to agree.                        *)
(*                                                                         *)
(* A bitmap is the set of the indices it flags; every error that says a    *)
(* number does not fit is "Overflow".  128-bit intermediates are unbounded.*)
(***************************************************************************)
EXTENDS Integers, SequencesExt

CONSTANTS
    BinsPerArray,     \* MAX_BIN_PER_ARRAY (70)
    BitmapSize,       \* BIN_ARRAY_BITMAP_SIZE (512): the pool's word flags -512 .. 511
    ExtensionPages,   \* EXTENSION_BIN_ARRAY_BITMAP_SIZE (12)
    MinBinId, MaxBinId,
    Price,            \* get_price_from_id: the price of each bin, over PriceScale
    PriceScale,       \* 2^64
    FeePrecision,     \* FEE_PRECISION (10^9)
    MaxFeeRate,       \* MAX_FEE_RATE (10^8)
    BaseFeeUnit,      \* 10
    VariableUnit,     \* 10^11, the divisor of the variable fee
    BasisPointMax,    \* BASIS_POINT_MAX (10^4)
    U32, U64,         \* 2^32, 2^64
    Pools,            \* the snapshots a caller may quote
    Amounts,          \* the amounts asked for
    Clocks            \* the clocks a caller may pass: [timestamp, slot]

ASSUME FeeAssumption ==
    /\ FeePrecision \in Nat /\ MaxFeeRate \in Nat /\ MaxFeeRate < FeePrecision
    /\ PriceScale \in Nat \ {0} /\ BasisPointMax \in Nat \ {0} /\ VariableUnit \in Nat \ {0}

ASSUME BinAssumption ==
    /\ BinsPerArray \in Nat \ {0} /\ BitmapSize \in Nat \ {0} /\ ExtensionPages \in Nat \ {0, 1}
    /\ MinBinId \in Int /\ MaxBinId \in Int
    /\ Price \in [MinBinId .. MaxBinId -> Nat \ {0}]

VARIABLES
    pool,     \* the snapshot: pair, bin arrays and bitmaps
    call,     \* the quote under way: [mode, forY, amount, clock], or NoCall
    walk,     \* its local variables
    promised  \* the exact-out quote now replayed: [want, amountIn, fee, short], or NoPromise

vars == <<pool, call, walk, promised>>

NoCall    == [mode |-> "none"]
NoPromise == [want |-> 0]
NoArray   == MaxBinId + 1

-----------------------------------------------------------------------------
(* Fees, in FeePrecision.                                                  *)

CeilDiv(a, b) == (a + b - 1) \div b

TotalFeeRate(p, vacc) ==
    LET base     == p.baseFactor * p.binStep * BaseFeeUnit * 10 ^ p.feePower
        travel   == vacc * p.binStep
        variable == CeilDiv(p.variableFeeControl * travel * travel, VariableUnit)
    IN  IF base + variable > MaxFeeRate THEN MaxFeeRate ELSE base + variable

\* compute_fee: what to add to an input so that the fee is covered.
FeeOnTop(rate, amount) == CeilDiv(amount * rate, FeePrecision - rate)

\* compute_fee_from_amount: what an input that already holds its fee pays.
FeeWithin(rate, amount) == CeilDiv(amount * rate, FeePrecision)

\* update_references: the reference decays after filter_period and is dropped
\* after decay_period.
UpdateReferences(p, timestamp) ==
    LET elapsed == timestamp - p.lastUpdate
    IN  CASE elapsed < p.filterPeriod -> [iref |-> p.iref, vref |-> p.vref]
          [] elapsed >= p.filterPeriod /\ elapsed < p.decayPeriod ->
                [iref |-> p.active, vref |-> (p.vacc * p.reduction) \div BasisPointMax]
          [] OTHER -> [iref |-> p.active, vref |-> 0]

\* A decayed reference is computed in a u32, and fits.
ReferencesFit(p, timestamp) ==
    timestamp - p.lastUpdate \in p.filterPeriod .. p.decayPeriod - 1 => p.vacc * p.reduction < U32

\* update_volatility_accumulator.
Volatility(p, iref, vref, active) ==
    LET distance == IF iref > active THEN iref - active ELSE active - iref
    IN  Min({vref + distance * BasisPointMax, p.maxVolatility})

-----------------------------------------------------------------------------
(* Bins.                                                                   *)

\* Mutant: a negative bin id is divided towards zero.
ArrayOfTruncated(bin) ==
    IF bin < 0 THEN -((-bin) \div BinsPerArray) ELSE bin \div BinsPerArray

\* bin_id_to_bin_array_index: division that rounds down for negative ids too.
ArrayOf(bin) == bin \div BinsPerArray

BinsOf(index) == index * BinsPerArray .. (index + 1) * BinsPerArray - 1

Reserve(p, bin, forY) == IF forY THEN p.bins[bin].y ELSE p.bins[bin].x

\* Mutant: one is added whether or not there is a remainder.
InputForPlusOne(amount, price, forY) ==
    (IF forY THEN (amount * PriceScale) \div price ELSE (amount * price) \div PriceScale) + 1

\* max_amount_in and get_amount_in.
InputFor(amount, price, forY) ==
    IF forY THEN CeilDiv(amount * PriceScale, price) ELSE CeilDiv(amount * price, PriceScale)

\* get_amount_out.
OutputFor(amount, price, forY) ==
    IF forY THEN (amount * price) \div PriceScale ELSE (amount * PriceScale) \div price

Fits(n) == n < U64
BinError == [ok |-> FALSE]

\* bin_swap: one bin's part of an exact-in swap.  "grown" is what the inbound
\* reserve becomes, which must fit too.
BinSwap(p, bin, amount, rate, forY) ==
    LET price  == Price[bin]
        most   == Reserve(p, bin, forY)
        maxIn  == InputFor(most, price, forY)
        maxFee == FeeOnTop(rate, maxIn)
        fee    == FeeWithin(rate, amount)
        out    == OutputFor(amount - fee, price, forY)
        swap   == IF amount > maxIn + maxFee
                  THEN [ok |-> TRUE, in |-> maxIn + maxFee, out |-> most, fee |-> maxFee]
                  ELSE [ok |-> TRUE, in |-> amount, out |-> Min({out, most}), fee |-> fee]
        grown  == Reserve(p, bin, ~forY) + swap.in - swap.fee
        small  == amount > maxIn + maxFee \/ Fits(out)
    IN  IF Fits(maxIn + maxFee) /\ small /\ Fits(grown) THEN swap ELSE BinError

\* Mutant: a bin asked for its whole reserve charges no fee for it.
BinSwapOutFree(p, bin, want, rate, forY) ==
    LET out == Min({want, Reserve(p, bin, forY)})
        in  == InputFor(out, Price[bin], forY)
    IN  [ok |-> TRUE, in |-> in, out |-> out,
         fee |-> IF want >= Reserve(p, bin, forY) THEN 0 ELSE FeeOnTop(rate, in)]

\* One bin's part of an exact-out quote: the input, before its fee, of all or
\* a part of the reserve.  Only a part runs bin_swap_exact_out on the bin.
BinSwapOut(p, bin, want, rate, forY) ==
    LET most == Reserve(p, bin, forY)
        out  == Min({want, most})
        in   == InputFor(out, Price[bin], forY)
        fee  == FeeOnTop(rate, in)
        ran  == want >= most \/ BinSwap(p, bin, in + fee, rate, forY).ok
    IN  IF Fits(in) /\ Fits(fee) /\ (want >= most \/ Fits(in + fee)) /\ ran
        THEN [ok |-> TRUE, in |-> in, out |-> out, fee |-> fee]
        ELSE BinError

-----------------------------------------------------------------------------
(* Bitmaps.                                                                *)

Inline == -BitmapSize .. BitmapSize - 1
ExtensionMin == -BitmapSize * (ExtensionPages + 1)
ExtensionMax == BitmapSize * (ExtensionPages + 1) - 1

\* The flags each of the two layers holds.
InlineFlags(p)    == p.flagged \cap Inline
ExtensionFlags(p) == p.flagged \ Inline

\* What the chain's accounts and a caller's clock hold: bins of the array that
\* flags them, whose arrays lie inside the bitmaps, and unsigned numbers.
ASSUME SnapshotAssumption ==
    /\ U64 \in Nat /\ BaseFeeUnit \in Nat /\ Amounts \subseteq Nat
    /\ ExtensionMin + 1 < ArrayOf(MinBinId) /\ ArrayOf(MaxBinId) < ExtensionMax
    /\ \A p \in Pools :
          /\ p.active \in MinBinId .. MaxBinId /\ p.iref \in Int
          /\ p.extension \in BOOLEAN
          /\ p.flagged \subseteq ArrayOf(MinBinId) .. ArrayOf(MaxBinId)
          /\ \A b \in MinBinId .. MaxBinId : p.bins[b].x \in Nat /\ p.bins[b].y \in Nat
          /\ {p.baseFactor, p.binStep, 10 ^ p.feePower, p.variableFeeControl,
              p.reduction, p.maxVolatility, p.vref, p.vacc} \subseteq Nat

AtOrBelow(flags, start) == {i \in flags : i <= start}
AtOrAbove(flags, start) == {i \in flags : i >= start}

Hit(index) == [found |-> TRUE, stop |-> FALSE, at |-> index]
Hop(index) == [found |-> FALSE, stop |-> FALSE, at |-> index]
Stop       == [found |-> FALSE, stop |-> TRUE, at |-> 0]

\* next_bin_array_index_with_liquidity_internal.
NextInline(p, forY, start) ==
    LET ahead == IF forY THEN AtOrBelow(InlineFlags(p), start)
                         ELSE AtOrAbove(InlineFlags(p), start)
    IN  IF ahead = {} THEN Hop(IF forY THEN -BitmapSize - 1 ELSE BitmapSize)
        ELSE Hit(IF forY THEN Max(ahead) ELSE Min(ahead))

\* ext_iter_bitmap: the pages of the side start lies on, from start towards
\* end.  A start that equals its end is walked upwards.
IterExtension(p, start, end) ==
    LET side  == {i \in ExtensionFlags(p) : (i > 0) = (start > 0)}
        ahead == IF start <= end THEN AtOrAbove(side, start) ELSE AtOrBelow(side, start)
    IN  IF ahead = {} THEN Stop
        ELSE Hit(IF start <= end THEN Min(ahead) ELSE Max(ahead))

\* next_bin_array_index_with_liquidity_extension: inwards, a search that finds
\* nothing goes on in the pool's word; outwards, it is an error, which ends
\* the caller's loop.
NextExtension(p, forY, start) ==
    LET end == CASE start > 0 /\ forY      -> BitmapSize
                 [] start > 0 /\ ~forY     -> ExtensionMax
                 [] start <= 0 /\ forY     -> ExtensionMin
                 [] OTHER                  -> -BitmapSize - 1
        hit == IterExtension(p, start, end)
    IN  IF hit.stop /\ (start > 0) = forY
        THEN Hop(IF forY THEN BitmapSize - 1 ELSE -BitmapSize)
        ELSE hit

NextArray(p, forY, start) ==
    CASE start \in Inline -> NextInline(p, forY, start)
      [] start \notin Inline /\ p.extension -> NextExtension(p, forY, start)
      [] OTHER -> Stop

\* The loop of get_bin_array_pubkeys_for_swap up to the next hit or its end; it
\* hops between the layers at most twice.
NextFrom(p, forY, start) ==
    LET first  == NextArray(p, forY, start)
        second == IF first.found \/ first.stop THEN first ELSE NextArray(p, forY, first.at)
    IN  IF second.found \/ second.stop THEN second ELSE NextArray(p, forY, second.at)

\* Up to take arrays with liquidity, in the order of the swap, from start on.
ArraysFrom(p, start, forY, take) ==
    LET hits[n \in 1 .. take] ==
            IF n = 1 THEN NextFrom(p, forY, start)
            ELSE CHOOSE hit \in {IF last.stop THEN last
                                 ELSE NextFrom(p, forY, IF forY THEN last.at - 1 ELSE last.at + 1)
                                 : last \in {hits[n - 1]}} : TRUE
        found == {n \in 1 .. take : hits[n].found}
    IN  [n \in 1 .. Cardinality(found) |-> hits[n].at]

\* get_bin_array_pubkeys_for_swap.
ArraysForSwap(p, active, forY, take) == ArraysFrom(p, ArrayOf(active), forY, take)

-----------------------------------------------------------------------------
(* The walk.                                                               *)

Idle ==
    [status |-> "idle", active |-> pool.active, iref |-> 0, vref |-> 0, vacc |-> 0,
     array |-> NoArray, left |-> 0, total |-> 0, fee |-> 0]

Init ==
    /\ pool \in Pools
    /\ call = NoCall
    /\ walk = Idle
    /\ promised = NoPromise

\* validate_swap_activation.
Activated(p, clock) ==
    /\ p.enabled
    /\ p.permission => \/ p.activation = "slot" /\ clock.slot >= p.activationPoint
                       \/ p.activation = "timestamp" /\ clock.timestamp >= p.activationPoint
                       \/ p.activation \notin {"slot", "timestamp"}

\* How a quote begins: it is refused, fails at once, or looks for an array.
Entry(p, clock) ==
    CASE ~Activated(p, clock) -> "Refused"
      [] Activated(p, clock) /\ ~ReferencesFit(p, clock.timestamp) -> "Overflow"
      [] OTHER -> "finding"

Enter(mode, forY, amount, clock) ==
    LET refs == UpdateReferences(pool, clock.timestamp)
    IN  /\ call' = [mode |-> mode, forY |-> forY, amount |-> amount, clock |-> clock]
        /\ walk' = [status |-> Entry(pool, clock),
                    active |-> pool.active, iref |-> refs.iref, vref |-> refs.vref,
                    vacc |-> pool.vacc, array |-> NoArray,
                    left |-> amount, total |-> 0, fee |-> 0]
        /\ UNCHANGED pool

\* A caller asks for a quote.
Quote(mode, forY, amount, clock) ==
    /\ walk.status = "idle"
    /\ Enter(mode, forY, amount, clock)
    /\ UNCHANGED promised

\* A caller puts the input of an exact-out quote through the exact-in quoter.
Replay(short) ==
    /\ walk.status = "Ok" /\ call.mode = "exact_out" /\ promised = NoPromise
    /\ promised' = [want |-> call.amount, amountIn |-> walk.total + walk.fee,
                    fee |-> walk.fee, short |-> short]
    /\ promised'.amountIn >= short
    /\ Enter("exact_in", call.forY, promised'.amountIn - short, call.clock)

End(status) ==
    /\ walk' = [walk EXCEPT !.status = status]
    /\ UNCHANGED <<pool, call, promised>>

\* Mutant: the walk jumps to the array it found, at its far end.
FindArrayAtFarEnd ==
    /\ walk.status = "finding" /\ walk.left > 0
    /\ LET found == ArraysForSwap(pool, walk.active, call.forY, 1)
       IN  CASE found = <<>> -> End("OutOfLiquidity")
             [] found # <<>> /\ found[1] \notin pool.cached -> End("ArrayNotCached")
             [] OTHER -> /\ walk' = [walk EXCEPT !.array = found[1], !.status = "crossing",
                                    !.active = IF call.forY THEN Min(BinsOf(found[1]))
                                               ELSE Max(BinsOf(found[1]))]
                         /\ UNCHANGED <<pool, call, promised>>

\* The head of the outer loop: the next array with liquidity.
FindArray ==
    /\ walk.status = "finding" /\ walk.left > 0
    /\ LET found == ArraysForSwap(pool, walk.active, call.forY, 1)
       IN  CASE found = <<>> -> End("OutOfLiquidity")
             [] found # <<>> /\ found[1] \notin pool.cached -> End("ArrayNotCached")
             [] OTHER -> /\ walk' = [walk EXCEPT !.array = found[1], !.status = "crossing"]
                         /\ UNCHANGED <<pool, call, promised>>

\* The end of the outer loop.
Finish ==
    /\ walk.status = "finding" /\ walk.left = 0
    /\ End(IF call.mode = "exact_out" /\ ~Fits(walk.total + walk.fee) THEN "Overflow" ELSE "Ok")

\* Mutant: only a bin that traded is left behind.
AdvanceFromTraded(w, forY) ==
    IF w.left = 0 \/ Reserve(pool, w.active, forY) = 0 THEN w
    ELSE IF w.active = (IF forY THEN MinBinId ELSE MaxBinId)
    THEN [w EXCEPT !.status = "BinIdOutOfRange"]
    ELSE [w EXCEPT !.active = IF forY THEN @ - 1 ELSE @ + 1]

\* advance_active_bin.
Advance(w, forY) ==
    LET next == IF forY THEN w.active - 1 ELSE w.active + 1
    IN  IF w.left = 0 THEN w
        ELSE IF next \in MinBinId .. MaxBinId THEN [w EXCEPT !.active = next]
        ELSE [w EXCEPT !.status = "BinIdOutOfRange"]

\* What the active bin gives and takes; an empty one nothing.
Trade(w, forY, mode) ==
    LET rate == TotalFeeRate(pool, w.vacc)
    IN  CASE Reserve(pool, w.active, forY) = 0 -> [ok |-> TRUE, in |-> 0, out |-> 0, fee |-> 0]
          [] Reserve(pool, w.active, forY) # 0 /\ mode = "exact_in" ->
                BinSwap(pool, w.active, w.left, rate, forY)
          [] OTHER -> BinSwapOut(pool, w.active, w.left, rate, forY)

\* One turn of the inner loop: the active bin of the array is crossed.
CrossBin ==
    /\ walk.status = "crossing" /\ walk.left > 0
    /\ walk.active \in BinsOf(walk.array)
    /\ \E vacc \in {Volatility(pool, walk.iref, walk.vref, walk.active)} :
       \E trade \in {Trade([walk EXCEPT !.vacc = vacc], call.forY, call.mode)} :
          IF ~trade.ok THEN walk' = [walk EXCEPT !.status = "Overflow"]
          ELSE LET exact == call.mode = "exact_in"
                   done  == [walk EXCEPT !.vacc  = vacc,
                                         !.left  = @ - (IF exact THEN trade.in ELSE trade.out),
                                         !.total = @ + (IF exact THEN trade.out ELSE trade.in),
                                         !.fee   = @ + trade.fee]
               IN  walk' = IF Fits(done.total) /\ Fits(done.fee) THEN Advance(done, call.forY)
                           ELSE [walk EXCEPT !.status = "Overflow"]
    /\ UNCHANGED <<pool, call, promised>>

\* The end of the inner loop: the active bin is not of this array, or nothing
\* is left to do.
LeaveArray ==
    /\ walk.status = "crossing"
    /\ walk.active \notin BinsOf(walk.array) \/ walk.left = 0
    /\ walk' = [walk EXCEPT !.status = "finding", !.array = NoArray]
    /\ UNCHANGED <<pool, call, promised>>

Step == FindArray \/ Finish \/ CrossBin \/ LeaveArray

Next ==
    \/ \E mode \in {"exact_in", "exact_out"}, forY \in BOOLEAN, n \in Amounts, c \in Clocks :
           Quote(mode, forY, n, c)
    \/ \E short \in {0, 1} : Replay(short)
    \/ Step

Spec == Init /\ [][Next]_vars

\* A quote is a plain loop: it goes on until it returns.
FairSpec == Spec /\ WF_vars(Step)

-----------------------------------------------------------------------------
(* Properties.                                                             *)

Running  == walk.status \in {"finding", "crossing"}
Statuses == {"idle", "finding", "crossing", "Ok", "Refused", "OutOfLiquidity",
             "ArrayNotCached", "BinIdOutOfRange", "Overflow"}

\* The bins from the active one on, in the order of the swap.
Way(p, forY) ==
    IF forY THEN [n \in 1 .. p.active - MinBinId + 1 |-> p.active - n + 1]
            ELSE [n \in 1 .. MaxBinId - p.active + 1 |-> p.active + n - 1]

\* The sums of the first members of a sequence.
Sums(seq) ==
    LET sum[n \in 0 .. Len(seq)] == IF n = 0 THEN 0 ELSE sum[n - 1] + seq[n]
    IN  sum

\* How many bins of the way the walk has left behind.
Distance == IF call.forY THEN pool.active - walk.active ELSE walk.active - pool.active

Delivered == IF call.mode = "exact_in" THEN walk.total ELSE call.amount - walk.left

\* A quote takes the nearest bins first and all there is in them: what it has
\* delivered is the whole reserve of every bin it left behind, plus at most
\* the active bin's (quote.rs, "crossing bins").
NearestBinsFirst ==
    Running \/ walk.status = "Ok" =>
        LET way    == Way(pool, call.forY)
            behind == Sums([n \in DOMAIN way |-> Reserve(pool, way[n], call.forY)])[Distance]
        IN  Delivered \in behind .. behind + Reserve(pool, walk.active, call.forY)

\* The exact-in quoter honours an exact-out quote: the quoted input buys at least
\* the output that was asked for, at the quoted fee, and no walk that delivered
\* it once runs out of bins the second time.
ExactOutIsHonoured ==
    promised # NoPromise /\ promised.short = 0 =>
        /\ walk.status \notin {"Refused", "OutOfLiquidity", "ArrayNotCached", "BinIdOutOfRange"}
        /\ walk.status = "Ok" => walk.total >= promised.want /\ walk.fee = promised.fee

\* "The quoted amount_in is the minimum the user must supply": one unit less
\* buys less than was asked for.
ExactOutIsMinimal ==
    promised # NoPromise /\ promised.short = 1 /\ walk.status = "Ok" =>
        walk.total < promised.want

\* The first index of the extension, not flagged itself: from there a search
\* towards the pool's word goes the wrong way (IterExtension).  It starts there, or
\* comes there after a hit on the index above.
AtWordEdge(p, start) ==
    /\ BitmapSize \notin p.flagged
    /\ \/ start = BitmapSize
       \/ start > BitmapSize /\ BitmapSize + 1 \in p.flagged

Ahead(p, start, forY) ==
    LET flags == IF forY THEN AtOrBelow(p.flagged, start) ELSE AtOrAbove(p.flagged, start)
    IN  IF p.extension THEN flags ELSE IF start \in Inline THEN flags \cap Inline ELSE {}

Take == 3

\* get_bin_array_pubkeys_for_swap names the flagged arrays from the active bin
\* on, nearest first, across the seam between the two bitmaps, in both
\* directions and on both sides of zero.
ArraysAreNearestFirst ==
    walk.status = "idle" =>
        \A forY \in BOOLEAN, bin \in MinBinId .. MaxBinId :
            LET start  == CHOOSE i \in ExtensionMin .. ExtensionMax : bin \in BinsOf(i)
                ahead  == Ahead(pool, start, forY)
                arrays == ArraysForSwap(pool, bin, forY, Take)
            IN  ~(forY /\ AtWordEdge(pool, start)) =>
                    /\ Len(arrays) = Min({Take, Cardinality(ahead)})
                    /\ \A n \in DOMAIN arrays :
                          /\ arrays[n] \in ahead
                          /\ n - 1 = Cardinality({i \in ahead : IF forY THEN i > arrays[n]
                                                                ELSE i < arrays[n]})

\* No array without liquidity lies between two the walk has to cross.
Gapless(p, active, forY) ==
    LET start == ArrayOf(active)
        ahead == IF forY THEN AtOrBelow(p.flagged, start) ELSE AtOrAbove(p.flagged, start)
    IN  /\ ~(forY /\ AtWordEdge(p, start))
        /\ \A i \in ahead : IF forY THEN i .. start \subseteq ahead ELSE start .. i \subseteq ahead

\* Every quote over arrays without gaps returns: each turn of the outer loop
\* crosses a bin, and bins, liquidity or the input run out.
QuoteWithoutGapEnds ==
    Running /\ Gapless(pool, pool.active, call.forY) ~> ~Running

\* "Walks the bin space crossing bins until the user-supplied amount is
\* satisfied or the requested output is delivered" (quote.rs:3-5): every quote
\* returns, on every pool.
QuoteEnds == Running ~> ~Running
=============================================================================
