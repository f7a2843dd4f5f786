----------------------------- MODULE Assignment -----------------------------
(***************************************************************************)
(* The linear assignment of ByteTrack: linear_assignment and lapjv of      *)
(* bytetrack/src/utils.cpp, which extend a cost matrix by dummy rows and   *)
(* columns of half the limit, and lapjv_internal of lapjv.cpp, the         *)
(* algorithm of Jonker and Volgenant on the extended matrix.               *)
(*                                                                         *)
(* The arrays are functions of the indices 0..n-1, as in the code.  Costs  *)
(* are integers: the doubles of the code are compared and subtracted only. *)
(***************************************************************************)
EXTENDS Integers, FiniteSets, FiniteSetsExt

CONSTANTS
  LapShapes,   \* the shapes <<n_rows, n_cols>> of the matrices tried
  LapCosts,    \* the costs that occur in them
  LapHalf,     \* cost_limit / 2.0
  LapLarge     \* LARGE, above every cost

\* linear_assignment returns at once when there is no row or no column.
ASSUME LapAssumption ==
  /\ LapShapes \subseteq (Nat \ {0}) \X (Nat \ {0})
  /\ LapCosts \subseteq Int /\ LapHalf \in Int /\ LapLarge \in Int

VARIABLE
  lap   \* the variables of lapjv_internal and of the function it is in

LapIdx(n) == 0..(n - 1)

\* The lowest index of S at which f is least: what a scan with "<" finds.
ArgMin(S, f) == CHOOSE j \in S : \A k \in S : f[j] < f[k] \/ (f[j] = f[k] /\ j <= k)

\* cost_c_extended: the costs, the half limit beside them, and 0 where a dummy
\* row meets a dummy column.
LapExtend(cost, rows, cols) ==
  [i \in LapIdx(rows + cols) |-> [j \in LapIdx(rows + cols) |->
     CASE i < rows /\ j < cols -> cost[<<i, j>>]
       [] i >= rows /\ j >= cols -> 0
       [] OTHER -> LapHalf]]

\* At the call of lapjv_internal.
LapStart(rows, cols, cost) ==
  LET n == rows + cols
      none == [i \in LapIdx(n) |-> -1]
  IN  [at |-> "reduce", rows |-> rows, cols |-> cols, n |-> n,
       cost |-> LapExtend(cost, rows, cols),
       x |-> none, y |-> none, v |-> [i \in LapIdx(n) |-> LapLarge],
       freeRows |-> none, n_free |-> 0, ret |-> 0, current |-> 0, rr |-> 0, round |-> 0,
       pfree |-> 0, d |-> none, list |-> none, pred |-> none,
       lo |-> 0, hi |-> 0, slo |-> 0, shi |-> 0, k |-> 0, i |-> -1, j |-> -1, ready |-> 0]

LapOff == [at |-> "off"]

LapInitial(on) ==
  IF ~on THEN lap = LapOff
  ELSE \E s \in LapShapes :
         \E cost \in [LapIdx(s[1]) \X LapIdx(s[2]) -> LapCosts] :
           lap = LapStart(s[1], s[2], cost)

Reduced(i) == [j \in LapIdx(lap.n) |-> lap.cost[i][j] - lap.v[j]]

-----------------------------------------------------------------------------
(* _ccrrt_dense *)

\* Column reduction: every column goes to the first row that is cheapest for
\* it, and a row keeps the last of its columns.
LapReduce ==
  /\ lap.at = "reduce"
  /\ LET Cols == LapIdx(lap.n)
         Column(j) == [i \in Cols |-> lap.cost[i][j]]
         best == [j \in Cols |-> ArgMin(Cols, Column(j))]
         mine(i) == {j \in Cols : best[j] = i}
     IN  lap' = [lap EXCEPT
           !.at = "transfer", !.k = 0,
           !.v = [j \in Cols |-> lap.cost[best[j]][j]],
           !.x = [i \in Cols |-> IF mine(i) = {} THEN -1 ELSE Max(mine(i))],
           !.y = [j \in Cols |-> IF j = Max(mine(best[j])) THEN best[j] ELSE -1],
           !.d = [i \in Cols |-> Cardinality(mine(i))]]   \* unique

\* Reduction transfer, row by row: later rows see the prices of earlier ones.
LapTransfer ==
  /\ lap.at = "transfer" /\ lap.k < lap.n
  /\ LET i == lap.k
         j == lap.x[i]
         others == LapIdx(lap.n) \ {j}
     IN  lap' = [lap EXCEPT
           !.k = @ + 1,
           !.freeRows = IF j < 0 THEN [@ EXCEPT ![lap.n_free] = i] ELSE @,
           !.n_free = IF j < 0 THEN @ + 1 ELSE @,
           !.v = IF j >= 0 /\ lap.d[i] = 1
                 THEN [@ EXCEPT ![j] = lap.v[j] - Min({Reduced(i)[m] : m \in others})]
                 ELSE @]

LapTransferred ==
  /\ lap.at = "transfer" /\ lap.k = lap.n
  /\ lap' = [lap EXCEPT !.at = "rounds", !.ret = lap.n_free, !.k = 0,
                        !.d = [i \in LapIdx(lap.n) |-> -1]]

\* lapjv_internal: at most two rounds of row reduction, then augmentation.
LapRounds ==
  /\ lap.at = "rounds"
  /\ lap' = [lap EXCEPT
       !.at = IF lap.ret = 0 THEN "done" ELSE IF lap.round < 2 THEN "carr" ELSE "ca",
       !.round = IF lap.ret > 0 /\ lap.round < 2 THEN @ + 1 ELSE @,
       !.n_free = lap.ret, !.ret = 0, !.current = 0, !.rr = 0, !.pfree = 0]

-----------------------------------------------------------------------------
\* _carr_dense: the next free row takes its cheapest column and lowers its
\* price to the second cheapest; the row it drives out is taken up at once
\* when the price really fell, and in the next round otherwise.
LapRowReduction ==
  /\ lap.at = "carr" /\ lap.current < lap.n_free
  /\ LET row == lap.freeRows[lap.current]
         c == Reduced(row)
         j1 == ArgMin(LapIdx(lap.n), c)
         j2 == ArgMin(LapIdx(lap.n) \ {j1}, c)
         cur == lap.current + 1
         rr == lap.rr + 1
         lowers == c[j1] < c[j2]
         again == rr < cur * lap.n
         j == IF again /\ ~lowers /\ lap.y[j1] >= 0 THEN j2 ELSE j1
         i0 == lap.y[j]
         atOnce == i0 >= 0 /\ again /\ lowers
         later == i0 >= 0 /\ ~atOnce
     IN  lap' = [lap EXCEPT
           !.rr = rr,
           !.v = IF again /\ lowers THEN [@ EXCEPT ![j1] = lap.v[j1] - (c[j2] - c[j1])] ELSE @,
           !.current = IF atOnce THEN cur - 1 ELSE cur,
           !.freeRows = IF atOnce THEN [@ EXCEPT ![cur - 1] = i0]
                        ELSE IF later THEN [@ EXCEPT ![lap.ret] = i0]
                        ELSE @,
           !.ret = IF later THEN @ + 1 ELSE @,
           !.x = [@ EXCEPT ![row] = j],
           !.y = [@ EXCEPT ![j] = row]]

LapRowsReduced ==
  /\ lap.at = "carr" /\ lap.current = lap.n_free
  /\ lap' = [lap EXCEPT !.at = "rounds"]

-----------------------------------------------------------------------------
(* _ca_dense and find_path_dense *)

\* The next free row starts a shortest path.
LapPathStarts ==
  /\ lap.at = "ca" /\ lap.pfree < lap.n_free
  /\ LET row == lap.freeRows[lap.pfree]
     IN  lap' = [lap EXCEPT
           !.at = "find", !.lo = 0, !.hi = 1, !.k = 1, !.ready = 0,
           !.list = [i \in LapIdx(lap.n) |-> i],
           !.pred = [i \in LapIdx(lap.n) |-> row],
           !.d = Reduced(row)]

LapAllAugmented ==
  /\ lap.at = "ca" /\ lap.pfree = lap.n_free
  /\ lap' = [lap EXCEPT !.at = "done"]

\* cols[k] = cols[hi]; cols[hi] = j
Swapped(list, k, hi) == [list EXCEPT ![k] = list[hi], ![hi] = list[k]]

\* _find_dense: the columns of least d are moved to lo..hi-1.
LapFind ==
  /\ lap.at = "find" /\ lap.k < lap.n
  /\ LET dj == lap.d[lap.list[lap.k]]
         mind == lap.d[lap.list[lap.lo]]
         hi == IF dj < mind THEN lap.lo ELSE lap.hi
     IN  lap' = [lap EXCEPT !.k = @ + 1,
                            !.list = IF dj <= mind THEN Swapped(@, lap.k, hi) ELSE @,
                            !.hi = IF dj <= mind THEN hi + 1 ELSE @]

\* A free column among the nearest ones ends the path: the last one found.
LapFound ==
  /\ lap.at = "find" /\ lap.k = lap.n
  /\ LET ends == {m \in lap.lo..(lap.hi - 1) : lap.y[lap.list[m]] < 0}
     IN  lap' = IF ends # {}
                THEN [lap EXCEPT !.at = "prices", !.ready = lap.lo, !.j = lap.list[Max(ends)]]
                ELSE [lap EXCEPT !.at = "scan", !.ready = lap.lo,
                                 !.slo = lap.lo, !.shi = lap.hi, !.k = lap.n]

\* _scan_dense: the next column of the SCAN list.
LapScanNext ==
  /\ lap.at = "scan" /\ lap.k = lap.n /\ lap.slo # lap.shi
  /\ lap' = [lap EXCEPT !.i = lap.slo, !.slo = @ + 1, !.k = lap.shi]

\* One TODO column against the row of the SCAN column.
LapScan ==
  /\ lap.at = "scan" /\ lap.k < lap.n
  /\ LET from == lap.list[lap.i]
         i == lap.y[from]
         mind == lap.d[from]
         h == lap.cost[i][from] - lap.v[from] - mind
         j == lap.list[lap.k]
         cred == lap.cost[i][j] - lap.v[j] - h
         d == [lap.d EXCEPT ![j] = cred]
         pred == [lap.pred EXCEPT ![j] = i]
     IN  lap' = CASE cred >= lap.d[j] -> [lap EXCEPT !.k = @ + 1]
                  [] cred < lap.d[j] /\ cred # mind ->
                       [lap EXCEPT !.d = d, !.pred = pred, !.k = @ + 1]
                  [] cred < lap.d[j] /\ cred = mind /\ lap.y[j] < 0 ->   \* *plo, *phi not set
                       [lap EXCEPT !.d = d, !.pred = pred, !.k = @ + 1, !.at = "prices", !.j = j]
                  [] OTHER ->
                       [lap EXCEPT !.d = d, !.pred = pred, !.k = @ + 1,
                                   !.list = Swapped(@, lap.k, lap.shi), !.shi = @ + 1]

\* The SCAN list is empty: the next nearest columns are looked for.
LapScanned ==
  /\ lap.at = "scan" /\ lap.k = lap.n /\ lap.slo = lap.shi
  /\ lap' = [lap EXCEPT !.at = "find", !.lo = lap.slo, !.hi = lap.slo + 1, !.k = lap.slo + 1]

\* Mutant: the prices of the scanned columns stay what they were.
LapPricesStay ==
  /\ lap.at = "prices"
  /\ lap' = [lap EXCEPT !.at = "augment", !.i = -1, !.k = 0]

\* The prices of the READY columns.
LapPrices ==
  /\ lap.at = "prices"
  /\ LET mind == lap.d[lap.list[lap.lo]]
         readyCols == {lap.list[m] : m \in 0..(lap.ready - 1)}
     IN  lap' = [lap EXCEPT
           !.at = "augment", !.i = -1, !.k = 0,
           !.v = [j \in LapIdx(lap.n) |->
                    IF j \in readyCols THEN @[j] + lap.d[j] - mind ELSE @[j]]]

\* Back along the path: the column goes to its predecessor, which gives up
\* the column it had.  The row that was free ends it.
LapAugment ==
  /\ lap.at = "augment" /\ lap.i # lap.freeRows[lap.pfree]
  /\ LET i == lap.pred[lap.j]
     IN  lap' = [lap EXCEPT !.i = i, !.y = [@ EXCEPT ![lap.j] = i],
                            !.x = [@ EXCEPT ![i] = lap.j], !.j = lap.x[i], !.k = @ + 1]

LapAugmented ==
  /\ lap.at = "augment" /\ lap.i = lap.freeRows[lap.pfree]
  /\ lap' = [lap EXCEPT !.at = "ca", !.pfree = @ + 1]

LapNext ==
  \/ LapReduce \/ LapTransfer \/ LapTransferred \/ LapRounds
  \/ LapRowReduction \/ LapRowsReduced
  \/ LapPathStarts \/ LapAllAugmented \/ LapFind \/ LapFound
  \/ LapScanNext \/ LapScan \/ LapScanned \/ LapPrices \/ LapAugment \/ LapAugmented

LapSpec == (\E on \in BOOLEAN : LapInitial(on)) /\ [][LapNext]_lap

-----------------------------------------------------------------------------
(* lapjv: what linear_assignment is given, -1 for a row or column left alone *)

LapRowsol == [i \in LapIdx(lap.rows) |-> IF lap.x[i] >= lap.cols THEN -1 ELSE lap.x[i]]

LapColsol == [j \in LapIdx(lap.cols) |-> IF lap.y[j] >= lap.rows THEN -1 ELSE lap.y[j]]

-----------------------------------------------------------------------------
(* Properties *)

\* f[0] + ... + f[m - 1].
LapSum(f, m) ==
  LET sum[k \in 0..m] == IF k = 0 THEN 0 ELSE sum[k - 1] + f[k - 1] IN sum[m]

\* The ways to give rows to columns, or -1, that give no column to two rows.
LapPartial ==
  {M \in [LapIdx(lap.rows) -> LapIdx(lap.cols) \cup {-1}] :
     \A i, k \in LapIdx(lap.rows) : M[i] = M[k] /\ M[i] >= 0 => i = k}

\* Every pair costs what the matrix says, and leaving a row or a column alone
\* half the limit.
LapRowCost(M) ==
  [i \in LapIdx(lap.rows) |-> IF M[i] >= 0 THEN lap.cost[i][M[i]] ELSE LapHalf]
LapColCost(M) ==
  [j \in LapIdx(lap.cols) |-> IF \E i \in LapIdx(lap.rows) : M[i] = j THEN 0 ELSE LapHalf]
LapWeight(M) == LapSum(LapRowCost(M), lap.rows) + LapSum(LapColCost(M), lap.cols)

\* The matches are a cheapest assignment: in particular no pair beyond the limit
\* is matched.  What the columns say is what the rows say, so that the tracks and
\* the detections that are left over are exactly those in no match (lapjv and
\* linear_assignment, against the definition of the problem).
LapOptimal ==
  lap.at = "done" =>
    /\ LapRowsol \in LapPartial
    /\ \A M \in LapPartial : LapWeight(LapRowsol) <= LapWeight(M)
    /\ \A i \in LapIdx(lap.rows), j \in LapIdx(lap.cols) : LapRowsol[i] = j <=> LapColsol[j] = i
    /\ \A i \in LapIdx(lap.rows) : LapRowsol[i] >= 0 => lap.cost[i][LapRowsol[i]] <= 2 * LapHalf

\* Between two rows, every assigned row has a column that is cheapest for it
\* at the present prices, and x and y agree: the invariant on which every
\* phase of lapjv_internal relies and which each of them must restore.
LapTight ==
  lap.at \in {"rounds", "carr", "ca", "done"} =>
    \A j \in LapIdx(lap.n) :
      LET i == lap.y[j]
      IN  i >= 0 => /\ lap.x[i] = j
                    /\ \A m \in LapIdx(lap.n) : Reduced(i)[j] <= Reduced(i)[m]

\* The path back to the free row has at most n columns: were it longer it
\* would be walked for ever. (The assertion of _ca_dense, which is compiled
\* out, is stricter by one, k < n: a path through every column would fail it,
\* already where n = 1.) And every row is assigned at the end.
LapPathEnds ==
  /\ lap.at = "augment" => lap.k <= lap.n /\ lap.j \in LapIdx(lap.n) \cup {-1}
  /\ lap.at = "done" => \A i \in LapIdx(lap.n) : lap.x[i] \in LapIdx(lap.n)

\* The assignment is a cheapest one, between two rows the prices make it tight, and
\* the way back to a free row ends.
LapCorrect == LapOptimal /\ LapTight /\ LapPathEnds
=============================================================================
