-------------------------------- MODULE Sectors --------------------------------
(***************************************************************************)
(* sectorize (prep/sectors.py): the injectors and producers of a window    *)
(* are split into sectors, the components of the graph whose edges are the *)
(* pairs that are near and not across a block boundary; a well without an  *)
(* edge joins the sector of its nearest counterpart.                       *)
(*                                                                         *)
(* Injectors are numbered 1 .. ni and producers 1 .. np, in the order of   *)
(* the grid.  dist[<<i, j>>] is the distance of a pair; located says       *)
(* whether the coordinates are known.                                      *)
(***************************************************************************)
EXTENDS Integers, Sequences, FiniteSets, SequencesExt

NoBlock == "none"

Inj(i) == <<"I", i>>
Prod(j) == <<"P", j>>

Wells(ni, np) ==
  { Inj(i) : i \in 1 .. ni } \cup { Prod(j) : j \in 1 .. np }

MinOf(S) == CHOOSE x \in S : \A y \in S : x <= y

NearestOfInj(dist, i, np) == MinOf({ dist[<<i, j>>] : j \in 1 .. np })
NearestOfProd(dist, j, ni) == MinOf({ dist[<<i, j>>] : i \in 1 .. ni })

\* The distance of every well to its nearest counterpart, sorted.
NearestAll(dist, ni, np) ==
  SortSeq([i \in 1 .. ni |-> NearestOfInj(dist, i, np)]
            \o [j \in 1 .. np |-> NearestOfProd(dist, j, ni)], <)

\* Twice the median of these.
MedianNearest2(dist, ni, np) ==
  LET s == NearestAll(dist, ni, np)
      n == Len(s)
  IN  s[(n + 1) \div 2] + s[n \div 2 + 1]

\* The pair is not farther than the cutoff, factor / 10 of the median; when the
\* injectors or the producers all sit on a counterpart, there is none.
Near(dist, ni, np, factor, i, j) ==
  \/ \A k \in 1 .. ni : NearestOfInj(dist, k, np) = 0
  \/ \A k \in 1 .. np : NearestOfProd(dist, k, ni) = 0
  \/ 20 * dist[<<i, j>>] <= factor * MedianNearest2(dist, ni, np)

SameBlock(a, b) == a = NoBlock \/ b = NoBlock \/ a = b

\* f: [ni, np, dist, located, block, above, factor]; the distance counts in fields
\* of more than f.above wells.
IsEdge(f, i, j) ==
  /\ f.located /\ f.ni + f.np > f.above
       => Near(f.dist, f.ni, f.np, f.factor, i, j)
  /\ SameBlock(f.block[Inj(i)], f.block[Prod(j)])

Edges(f) ==
  { e \in (1 .. f.ni) \X (1 .. f.np) : IsEdge(f, e[1], e[2]) }

\* _components: the wells that edges lead to from w.
Component(f, w) ==
  LET edges == Edges(f)
      beside(v) == IF v[1] = "I"
                   THEN { Prod(e[2]) : e \in { d \in edges : Inj(d[1]) = v } }
                   ELSE { Inj(e[1]) : e \in { d \in edges : Prod(d[2]) = v } }
      within[n \in 0 .. f.ni + f.np] ==
        IF n = 0 THEN {w}
        ELSE within[n - 1] \cup UNION { beside(v) : v \in within[n - 1] }
  IN  within[f.ni + f.np]

Components(f) == { Component(f, w) : w \in Wells(f.ni, f.np) }

Isolated(f, w) == Component(f, w) = {w}

Real(f) == { c \in Components(f) : Cardinality(c) > 1 }

\* argmin: the first of the nearest.
NearestProd(f, i) ==
  MinOf({ j \in 1 .. f.np : f.dist[<<i, j>>] = NearestOfInj(f.dist, i, f.np) })
NearestInj(f, j) ==
  MinOf({ i \in 1 .. f.ni : f.dist[<<i, j>>] = NearestOfProd(f.dist, j, f.ni) })

\* The first sector is that of the first injector that has one.
FirstSector(f) ==
  CHOOSE c \in Real(f) :
    \A d \in Real(f) :
      MinOf({ i \in 1 .. f.ni : Inj(i) \in c })
        <= MinOf({ i \in 1 .. f.ni : Inj(i) \in d })

\* Isolated injectors go where their nearest producer is, if it is anywhere.
WithInjectors(f, c) ==
  c \cup { Inj(i) : i \in { k \in 1 .. f.ni :
             Isolated(f, Inj(k)) /\ Prod(NearestProd(f, k)) \in c } }

\* Mutant: isolated producers are left out.
WithProducersNone(f, c) == c

\* Then isolated producers, where their nearest injector is by now.
WithProducers(f, c) ==
  c \cup { Prod(j) : j \in { k \in 1 .. f.np :
             Isolated(f, Prod(k)) /\ Inj(NearestInj(f, k)) \in c } }

Sectorize(f) ==
  IF Real(f) = {} THEN { Wells(f.ni, f.np) }
  ELSE IF f.located
       THEN { WithProducers(f, WithInjectors(f, c)) : c \in Real(f) }
       ELSE { IF c = FirstSector(f)
              THEN c \cup { w \in Wells(f.ni, f.np) : Isolated(f, w) }
              ELSE c : c \in Real(f) }
=============================================================================
