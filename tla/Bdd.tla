------------------------------- MODULE Bdd -------------------------------
(***************************************************************************)
(* software/small/bdd/bdd.c: the decision diagrams of an N by N multiplier *)
(* over its partial products, built bottom up, output by output and level  *)
(* by level, and then counted. The unique table is abstracted to the list  *)
(* of its nodes; an edge is twice the node's number, plus 1 when it is     *)
(* complemented, and node 0 is the constant, whose plain edge is false.    *)
(***************************************************************************)
EXTENDS Integers, Sequences, FiniteSets, FiniteSetsExt

CONSTANT N                        \* bits of a factor

M == 2 * N
NUMVAR == N * N
ALLOC == ((2 * N * N * N) - (3 * N * N) - (2 * N)) + 7
UTSIZE == 64                      \* of the unique table, for N = 4

VARIABLES
  phase,          \* "row" | "output" | "count" | "unmark" | "done"
  nodes,          \* nodes 1..nObjs-1: variable, then edge, else edge
  pOutputs,       \* output edges, from M down
  m, i, j, k,     \* the loops' counters
  Var, Var2,
  buf, buf_next, nbuf,
  pSkip,
  pUnique,        \* the table's memory as the stack of the count
  pMarks, count

building == <<nodes, pOutputs, m, i, j, k, Var, Var2, buf, buf_next, nbuf, pSkip>>
counting == <<pUnique, pMarks, count>>
bddVars == <<phase, building, counting>>

InitBdd == /\ phase = "row" /\ nodes = <<>> /\ pOutputs = <<>>
           /\ m = M /\ i = 1 /\ j = 0 /\ k = 0 /\ Var = NUMVAR - 2 /\ Var2 = N - 1
           /\ buf = [x \in 0..(2 * M - 1) |-> IF x = 0 THEN 1 ELSE 0]
           /\ buf_next = [x \in 0..(2 * M - 1) |-> 0] /\ nbuf = 0
           /\ pSkip = [x \in 0..(2 * M - 1) |-> FALSE]
           /\ pUnique = <<>> /\ pMarks = {} /\ count = 0

Node(edge) == edge \div 2
Flip(edge) == IF edge % 2 = 0 THEN edge + 1 ELSE edge - 1
FlipIf(c, edge) == IF c THEN Flip(edge) ELSE edge
Complemented(edge) == edge % 2 = 1
BddThen(edge) == FlipIf(Complemented(edge), nodes[Node(edge)].then)
BddElse(edge) == FlipIf(Complemented(edge), nodes[Node(edge)].else)

(***************************************************************************)
(* gennode(...) = <<the nodes afterwards, the edge>>.                      *)
(***************************************************************************)
BddUniqueCreateInt(v, t, e) ==
  LET node == [var |-> v, then |-> t, else |-> e]
  IN  IF \E n \in DOMAIN nodes : nodes[n] = node
      THEN <<nodes, 2 * (CHOOSE n \in DOMAIN nodes : nodes[n] = node)>>
      ELSE <<Append(nodes, node), 2 * (Len(nodes) + 1)>>

(* Mutant: nodes kept with complemented else edges.                        *)
BddUniqueCreate_complemented(v, t, e) ==
  IF t = e THEN <<nodes, e>> ELSE BddUniqueCreateInt(v, t, e)

BddUniqueCreate(v, t, e) ==
  IF t = e THEN <<nodes, e>>
  ELSE IF ~Complemented(e) THEN BddUniqueCreateInt(v, t, e)
  ELSE LET new == BddUniqueCreateInt(v, Flip(t), Flip(e)) IN <<new[1], Flip(new[2])>>

gennode(v, t, e, fUse) == IF fUse THEN BddUniqueCreate(v, t, e) ELSE <<nodes, e>>

(***************************************************************************)
(* The levels of a column: their sizes, and the places that are skipped.   *)
(***************************************************************************)
floorlog2(x) == Max({b \in 0..16 : b = 0 \/ 2 ^ b <= x})
Level(x, bits) == IF bits > floorlog2(x) THEN x ELSE 2 ^ bits
levelsize == IF j < i THEN Level(i + j, m - i - 1) ELSE Level(i, m - i - 2)
fSkip == j < i /\ i >= N /\ j = N - 1

(* n marks more than the level holds: the last one goes to the front, and  *)
(* takes the first one's place when the level is short of them already.    *)
RECURSIVE Moved(_, _, _)
Moved(skip, size, n) ==
  IF n = 0 THEN skip
  ELSE IF size < levelsize + n
  THEN Moved([x \in DOMAIN skip |-> IF x \in 1..(size - 1) THEN skip[x - 1]
                                    ELSE IF x = 0 THEN skip[size - 1] ELSE skip[x]], size, n - 1)
  ELSE Moved([skip EXCEPT ![0] = skip[size - 1], ![size - 1] = FALSE], size - 1, n - 1)

Marked ==
  LET top == Level(i, m - i - 2)
      next == Level((i + i) - 1, m - i - 1)
      first == IF 2 * top = next THEN {x \in 0..(next - 1) : x % 2 = 0}
               ELSE {0} \cup {x \in 1..(next - 1) : x % 2 = 1}
  IN  Moved([x \in DOMAIN pSkip |-> x \in first \/ pSkip[x]], next, i - 1 - j)

Skips == IF fSkip /\ k = 0 THEN Marked ELSE pSkip
ColumnUses == M - 1 - i >= N - j /\ j < N

(* The then and else edges of place k of a row below the top of a column,  *)
(* and of the top row, which adds the carries of the column before.        *)
RowEdges ==
  LET last == levelsize - 1
  IN  IF levelsize = nbuf
      THEN <<buf[k], IF k = 0 THEN Flip(buf[1]) ELSE IF k # last THEN buf[k + 1] ELSE buf[0]>>
      ELSE <<IF k = 0 THEN buf[0] ELSE IF k = 1 THEN 1 ELSE buf[k - 1],
             IF k = 0 THEN 0 ELSE IF k # last THEN buf[k] ELSE buf[0]>>
TopEdges == IF 2 * levelsize = nbuf
            THEN <<buf[2 * k], FlipIf(k = 0, buf[2 * k + 1])>>
            ELSE IF k = 0 THEN <<buf[0], 0>> ELSE <<buf[2 * k - 1], buf[2 * k]>>

Place == LET edges == IF j < i THEN RowEdges ELSE TopEdges
         IN  IF fSkip /\ Skips[k] THEN <<nodes, 0>>
             ELSE gennode(Var - j, edges[1], edges[2], ColumnUses)

Fewer(column) == IF column < N THEN column ELSE M - column - 1

InColumn == phase = "row" /\ i < m - 1
InRow == InColumn /\ k < levelsize

RowStep == /\ InRow
           /\ nodes' = Place[1]
           /\ buf_next' = [buf_next EXCEPT ![k] = Place[2]]
           /\ pSkip' = IF fSkip THEN [Skips EXCEPT ![k] = FALSE] ELSE pSkip
           /\ k' = k + 1
           /\ UNCHANGED <<phase, pOutputs, m, i, j, Var, Var2, buf, nbuf, counting>>

RowEnd == /\ InColumn /\ k = levelsize
          /\ buf' = buf_next /\ buf_next' = buf /\ nbuf' = levelsize /\ k' = 0
          /\ IF j < i THEN j' = j + 1 /\ UNCHANGED <<i, Var>>
             ELSE /\ j' = 0 /\ i' = i + 1
                  /\ Var' = Var - (IF i + 1 < m - 1 THEN Fewer(i + 1) ELSE 0)
          /\ UNCHANGED <<phase, nodes, pOutputs, m, Var2, pSkip, counting>>

(* The last column of the output: its products are added one by one.       *)
LastColumn == /\ phase = "row" /\ i >= m - 1
              /\ phase' = "output" /\ j' = 0
              /\ UNCHANGED <<nodes, pOutputs, m, i, k, Var, Var2, buf, buf_next, nbuf, pSkip, counting>>

OutputStep == /\ phase = "output" /\ j < m
              /\ LET new == gennode(Var2 - j, buf[0], Flip(buf[0]), M - m >= N - j /\ j < N)
                 IN  nodes' = new[1] /\ buf' = [buf EXCEPT ![0] = new[2]]
              /\ j' = j + 1
              /\ UNCHANGED <<phase, pOutputs, m, i, k, Var, Var2, buf_next, nbuf, pSkip, counting>>

OutputEnd ==
  /\ phase = "output" /\ j = m
  /\ Var2' = Var2 + (IF m <= N THEN m - 1 ELSE M - m)
  /\ pOutputs' = <<FlipIf(m # 1, buf[0])>> \o pOutputs
  /\ m' = m - 1 /\ i' = 1 /\ j' = 0 /\ k' = 0 /\ Var' = NUMVAR - 2 /\ nbuf' = 0
  /\ buf' = [buf EXCEPT ![0] = 1]
  /\ phase' = IF m = 1 THEN "count" ELSE "row"
  /\ UNCHANGED <<nodes, buf_next, pSkip, counting>>

(***************************************************************************)
(* BddCountNodesArray: from each output the nodes not marked yet, and then *)
(* the marks removed the same way. i is the output.                        *)
(***************************************************************************)
Walk(marking) ==
  LET top == pUnique[Len(pUnique)]
      rest == SubSeq(pUnique, 1, Len(pUnique) - 1)
  IN  IF top < 2 \/ ((Node(top) \in pMarks) = marking)
      THEN pUnique' = rest /\ UNCHANGED <<pMarks, count>>
      ELSE /\ pUnique' = rest \o <<BddElse(top), BddThen(top)>>
           /\ pMarks' = IF marking THEN pMarks \cup {Node(top)} ELSE pMarks \ {Node(top)}
           /\ count' = IF marking THEN count + 1 ELSE count

CountStep ==
  /\ phase \in {"count", "unmark"}
  /\ \/ /\ pUnique # <<>>
        /\ Walk(phase = "count")
        /\ UNCHANGED <<phase, building>>
     \/ /\ pUnique = <<>> /\ i <= M
        /\ pUnique' = <<pOutputs[i]>> /\ i' = i + 1
        /\ UNCHANGED <<phase, pMarks, count, nodes, pOutputs, m, j, k, Var, Var2,
                       buf, buf_next, nbuf, pSkip>>
     \/ /\ pUnique = <<>> /\ i > M
        /\ IF phase = "count" THEN phase' = "unmark" /\ i' = 1 /\ UNCHANGED count
           ELSE phase' = "done" /\ count' = count + 1 /\ UNCHANGED i
        /\ UNCHANGED <<pUnique, pMarks, nodes, pOutputs, m, j, k, Var, Var2,
                       buf, buf_next, nbuf, pSkip>>

BddNext == RowStep \/ RowEnd \/ LastColumn \/ OutputStep \/ OutputEnd \/ CountStep

BddSpec == InitBdd /\ [][BddNext]_bddVars

(***************************************************************************)
(* What the diagrams mean.                                                 *)
(***************************************************************************)
RECURSIVE Evaluated(_, _)
Evaluated(edge, ones) ==
  IF Node(edge) = 0 THEN Complemented(edge)
  ELSE Evaluated(IF nodes[Node(edge)].var \in ones THEN BddThen(edge) ELSE BddElse(edge), ones)

(* Partial products a, b are of column a + b; their variables come column  *)
(* by column from the last one. The outputs are the sum of the products.   *)
Start(c) == Cardinality({ab \in (0..(N - 1)) \X (0..(N - 1)) : ab[1] + ab[2] < c})
Column == [v \in 0..(NUMVAR - 1) |->
             CHOOSE c \in 0..(M - 2) : NUMVAR - 1 - v \in Start(c)..(Start(c + 1) - 1)]
Multiplies == LET column == Column
              IN  \A ones \in SUBSET DOMAIN column :
                    LET sum == MapThenSumSet(LAMBDA v : 2 ^ column[v], ones)
                    IN  \A b \in 1..M :
                          Evaluated(pOutputs[b], ones) = ((sum \div 2 ^ (b - 1)) % 2 = 1)

(* The diagrams are reduced, ordered and not complemented in else edges,   *)
(* fit their arrays while they are built, and are counted right.           *)
Reduced(n) == /\ nodes[n].then # nodes[n].else /\ ~Complemented(nodes[n].else)
              /\ \A edge \in {nodes[n].then, nodes[n].else} :
                   Node(edge) # 0 => Node(edge) < n /\ nodes[Node(edge)].var > nodes[n].var
BddExact == /\ Len(nodes) < ALLOC /\ Len(pUnique) <= UTSIZE
            /\ phase = "done" => /\ \A n \in DOMAIN nodes : Reduced(n)
                                 /\ count = ALLOC /\ Len(nodes) = ALLOC - 1 /\ pMarks = {}
                                 /\ Multiplies
=============================================================================
