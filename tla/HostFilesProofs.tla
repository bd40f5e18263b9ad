-------------------------- MODULE HostFilesProofs ---------------------------
(***************************************************************************)
(* Proofs about what srm keeps on a Linux host, each part of MCHostFiles   *)
(* by itself: the subordinate id ranges for any users, processes, width,   *)
(* files and kills; the directories and job logs of an ephemeral lane and  *)
(* the commands that create lanes; the dependency layer of a Linux host;   *)
(* the tarballs, seeds and image caches several fetches share; the owners  *)
(* under the install root as installations and mode changes follow.        *)
(***************************************************************************)
EXTENDS SubIds, SlotJob, LaneSlots, Provision, Downloads, HostBase, FiniteSetTheorems, WellFoundedInduction, TLAPS

-----------------------------------------------------------------------------
(* The blocks of subordinate ids.                                          *)

Steps == {"idle", "read", "open", "write"}

Acts  == [step : Steps, user : Users \cup {Resting.user}, file : Files]

SubTypeOK ==
  /\ book \in [Files -> Seq(Lines)]
  /\ act \in [Procs -> Acts]
  /\ \A p \in Procs : act[p].step # "idle" => act[p].user \in Users
  /\ copy \in [Procs -> Seq(Lines)]
  /\ next \in [Procs -> Nat]
  /\ torn \in BOOLEAN

\* A place past the end of every block of B.
Past(n, B) == \A i \in DOMAIN B : End(B[i]) <= n

\* Whoever is about to write holds disjoint blocks and a place past them all;
\* a truncated file is empty until its one writer has written.
Plans ==
  /\ \A p \in Procs : act[p].step \in {"open", "write"} =>
       Disjoint(copy[p]) /\ Past(next[p], copy[p])
  /\ \A p \in Procs : act[p].step = "write" => book[act[p].file] = <<>>
  /\ \A p, q \in Procs : act[p].step = "write" /\ act[q].step = "write"
       /\ act[p].file = act[q].file => p = q

SubInv == SubTypeOK /\ (~torn => BlocksNeverOverlap /\ Plans)

-----------------------------------------------------------------------------
(* The new block *)

\* A block placed past every other overlaps none of them.
LEMMA AppendDisjoint ==
  ASSUME NEW B \in Seq(Lines), Disjoint(B), NEW l \in Lines, Past(l.start, B)
  PROVE  Disjoint(Append(B, l))
<1> DEFINE A == Append(B, l)
<1>1. /\ A \in Seq(Lines) /\ Len(A) = Len(B) + 1 /\ A[Len(B) + 1] = l
      /\ \A i \in 1..Len(B) : A[i] = B[i]
  OBVIOUS
<1>2. DOMAIN A = 1..(Len(B) + 1) /\ DOMAIN B = 1..Len(B) /\ Len(B) \in Nat
  BY <1>1
<1>3. SUFFICES ASSUME NEW i \in DOMAIN A, NEW j \in DOMAIN A, A[i].user # A[j].user
               PROVE  End(A[i]) <= A[j].start \/ End(A[j]) <= A[i].start
  BY DEF Disjoint
<1>4. CASE i \in DOMAIN B /\ j \in DOMAIN B
  BY <1>1, <1>2, <1>3, <1>4 DEF Disjoint
<1>5. CASE i \notin DOMAIN B /\ j \in DOMAIN B
  <2>1. A[i] = l /\ A[j] = B[j]
    BY <1>1, <1>2, <1>5
  <2> QED BY <2>1, <1>5 DEF Past
<1>6. CASE i \in DOMAIN B /\ j \notin DOMAIN B
  <2>1. A[j] = l /\ A[i] = B[i]
    BY <1>1, <1>2, <1>6
  <2> QED BY <2>1, <1>6 DEF Past
<1>7. CASE i \notin DOMAIN B /\ j \notin DOMAIN B
  BY <1>1, <1>2, <1>3, <1>7
<1> QED BY <1>4, <1>5, <1>6, <1>7

\* What IsNext picks from a file is a natural number past every block of it.
LEMMA NextIsPast ==
  ASSUME NEW B \in Seq(Lines), NEW n \in {Base} \cup {End(B[i]) : i \in DOMAIN B},
         IsNext(n, B)
  PROVE  n \in Nat /\ Past(n, B)
<1>1. \A i \in DOMAIN B : B[i] \in Lines
  OBVIOUS
<1>2. \A i \in DOMAIN B : End(B[i]) \in Nat
  BY <1>1 DEF End, Lines
<1> QED BY <1>2 DEF IsNext, Past, Base

-----------------------------------------------------------------------------
(* The invariant *)

LEMMA RestingActs == Resting \in Acts /\ Resting.step = "idle"
BY DEF Resting, Acts, Steps, Files

LEMMA SubInitInv == SubInit => SubInv
<1> SUFFICES ASSUME SubInit PROVE SubInv
  OBVIOUS
<1>1. SubTypeOK
  <2>1. book \in [Files -> Seq(Lines)]
    BY SubIdConstants DEF SubInit
  <2>2. act \in [Procs -> Acts] /\ \A p \in Procs : act[p].step = "idle"
    BY RestingActs DEF SubInit
  <2>3. <<>> \in Seq(Lines) /\ Base \in Nat
    BY DEF Base
  <2>4. copy \in [Procs -> Seq(Lines)] /\ next \in [Procs -> Nat] /\ torn \in BOOLEAN
    BY <2>3 DEF SubInit
  <2> QED BY <2>1, <2>2, <2>4 DEF SubTypeOK
<1>2. BlocksNeverOverlap
  BY SubIdConstants DEF SubInit, BlocksNeverOverlap
<1>3. Plans
  BY RestingActs DEF SubInit, Plans
<1> QED BY <1>1, <1>2, <1>3 DEF SubInv

\* Where a process is after it is done with a file.
LEMMA DoneActs ==
  ASSUME SubTypeOK, NEW p \in Procs, act[p].step # "idle", Done(p, act[p].file)
  PROVE  /\ act' \in [Procs -> Acts]
         /\ \A q \in Procs : act'[q].step # "idle" => act'[q].user \in Users
         /\ act'[p].step \in {"read", "idle"}
         /\ \A q \in Procs \ {p} : act'[q] = act[q]
<1>1. act[p] \in Acts /\ act[p].user \in Users
  BY DEF SubTypeOK
<1>2. PICK a \in Acts : /\ act' = [act EXCEPT ![p] = a]
                        /\ a.user \in Users /\ a.step \in {"read", "idle"}
  <2>1. CASE act[p].file = "subuid"
    <3> DEFINE a == [act[p] EXCEPT !.step = "read", !.file = "subgid"]
    <3>1. a \in Acts /\ a.user = act[p].user /\ a.step = "read"
      BY <1>1 DEF Acts, Steps, Files
    <3>2. act' = [act EXCEPT ![p] = a]
      BY <2>1 DEF Done
    <3> QED BY <1>1, <3>1, <3>2
  <2>2. CASE act[p].file # "subuid"
    <3> DEFINE a == [act[p] EXCEPT !.step = "idle"]
    <3>1. a \in Acts /\ a.user = act[p].user /\ a.step = "idle"
      BY <1>1 DEF Acts, Steps
    <3>2. act' = [act EXCEPT ![p] = a]
      BY <2>2 DEF Done
    <3> QED BY <1>1, <3>1, <3>2
  <2> QED BY <2>1, <2>2
<1> QED BY <1>2 DEF SubTypeOK

LEMMA EnsureStep ==
  ASSUME SubInv, NEW p \in Procs, NEW u \in Services, Ensure(p, u)
  PROVE  SubInv'
<1>1. SubTypeOK'
  BY SubIdConstants DEF SubInv, SubTypeOK, Acts, Ensure, Steps, Files
<1>2. ASSUME ~torn' PROVE BlocksNeverOverlap'
  BY <1>2 DEF SubInv, BlocksNeverOverlap, Ensure
<1>3. ASSUME ~torn' PROVE Plans'
  BY <1>3 DEF SubInv, SubTypeOK, Plans, Ensure
<1> QED BY <1>1, <1>2, <1>3 DEF SubInv

LEMMA ReadStep ==
  ASSUME SubInv, NEW p \in Procs, ReadBook(p)
  PROVE  SubInv'
<1> DEFINE f == act[p].file  u == act[p].user  B == book[f]
<1>0. /\ f \in Files /\ B \in Seq(Lines) /\ SubTypeOK /\ act[p].step = "read"
      /\ UNCHANGED <<book, torn>>
  BY DEF SubInv, SubTypeOK, Acts, ReadBook
<1>1. CASE Adequate(B, u) /\ Done(p, f) /\ UNCHANGED <<copy, next>>
  <2>1. /\ act' \in [Procs -> Acts]
        /\ \A q \in Procs : act'[q].step # "idle" => act'[q].user \in Users
        /\ act'[p].step \in {"read", "idle"}
        /\ \A q \in Procs \ {p} : act'[q] = act[q]
    BY <1>0, <1>1, DoneActs
  <2>2. SubTypeOK'
    BY <2>1, <1>0, <1>1 DEF SubTypeOK
  <2>3. ASSUME ~torn' PROVE BlocksNeverOverlap' /\ Plans'
    BY <2>1, <2>3, <1>0, <1>1 DEF SubInv, BlocksNeverOverlap, Plans
  <2> QED BY <2>2, <2>3 DEF SubInv
<1>2. CASE /\ act' = [act EXCEPT ![p] = [@ EXCEPT !.step = "idle"]]
           /\ UNCHANGED <<copy, next, granted>>
  <2>1. SubTypeOK'
    BY <1>0, <1>2 DEF SubTypeOK, Acts, Steps
  <2>2. ASSUME ~torn' PROVE BlocksNeverOverlap' /\ Plans'
    BY <2>2, <1>0, <1>2 DEF SubInv, SubTypeOK, BlocksNeverOverlap, Plans
  <2> QED BY <2>1, <2>2 DEF SubInv
<1>3. ASSUME NEW n \in {Base} \cup {End(B[i]) : i \in DOMAIN B}, IsNext(n, B),
             copy' = [copy EXCEPT ![p] = B], next' = [next EXCEPT ![p] = n],
             act' = [act EXCEPT ![p] = [@ EXCEPT !.step = "open"]]
      PROVE  SubInv'
  <2>1. n \in Nat /\ Past(n, B)
    BY <1>0, <1>3, NextIsPast
  <2>2. SubTypeOK'
    BY <1>0, <1>3, <2>1 DEF SubTypeOK, Acts, Steps
  <2>3. ASSUME ~torn' PROVE BlocksNeverOverlap'
    BY <2>3, <1>0 DEF SubInv, BlocksNeverOverlap
  <2>4. ASSUME ~torn' PROVE Plans'
    <3>1. Plans /\ Disjoint(B)
      BY <2>4, <1>0 DEF SubInv, BlocksNeverOverlap
    <3>2. /\ copy'[p] = B /\ next'[p] = n /\ act'[p].step = "open"
          /\ \A q \in Procs \ {p} : copy'[q] = copy[q] /\ next'[q] = next[q] /\ act'[q] = act[q]
      BY <1>0, <1>3 DEF SubTypeOK
    <3> QED BY <3>1, <3>2, <2>1, <1>0 DEF Plans
  <2> QED BY <2>2, <2>3, <2>4 DEF SubInv
<1> QED BY <1>1, <1>2, <1>3 DEF ReadBook

LEMMA OpenStep ==
  ASSUME SubInv, NEW p \in Procs, OpenBook(p)
  PROVE  SubInv'
<1> DEFINE f == act[p].file
<1>0. /\ f \in Files /\ SubTypeOK /\ act[p].step = "open"
      /\ UNCHANGED <<copy, next>>
  BY DEF SubInv, SubTypeOK, Acts, OpenBook
<1>1. <<>> \in Seq(Lines)
  OBVIOUS
<1>2. SubTypeOK'
  BY <1>0, <1>1 DEF SubTypeOK, Acts, OpenBook, Steps
<1>3. ASSUME ~torn'
      PROVE ~torn /\ \A q \in Procs \ {p} : act[q].step = "write" => act[q].file # f
  BY <1>3 DEF OpenBook
<1>4. ASSUME ~torn' PROVE BlocksNeverOverlap'
  <2>1. \A g \in Files : book'[g] = book[g] \/ book'[g] = <<>>
    BY <1>0 DEF OpenBook, SubTypeOK
  <2>2. Disjoint(<<>>)
    BY DEF Disjoint
  <2> QED BY <2>1, <2>2, <1>3, <1>4 DEF SubInv, BlocksNeverOverlap
<1>5. ASSUME ~torn' PROVE Plans'
  <2>1. /\ act'[p].step = "write" /\ act'[p].file = f /\ book'[f] = <<>>
        /\ \A q \in Procs \ {p} : act'[q] = act[q]
        /\ \A g \in Files : book'[g] = book[g] \/ book'[g] = <<>>
    BY <1>0 DEF OpenBook, SubTypeOK
  <2>2. Plans
    BY <1>3, <1>5 DEF SubInv
  <2>3. \A q \in Procs : act'[q].step \in {"open", "write"} =>
          Disjoint(copy'[q]) /\ Past(next'[q], copy'[q])
    BY <2>1, <2>2, <1>0 DEF Plans
  <2>4. \A q \in Procs : act'[q].step = "write" => book'[act'[q].file] = <<>>
    <3> SUFFICES ASSUME NEW q \in Procs, act'[q].step = "write"
                 PROVE  book'[act'[q].file] = <<>>
      OBVIOUS
    <3>1. CASE q = p
      BY <3>1, <2>1
    <3>2. CASE q # p
      <4>1. act'[q] = act[q] /\ act[q].file \in Files
        BY <3>2, <2>1, <1>0 DEF SubTypeOK, Acts
      <4> QED BY <4>1, <2>1, <2>2 DEF Plans
    <3> QED BY <3>1, <3>2
  <2>5. \A q, r \in Procs : act'[q].step = "write" /\ act'[r].step = "write"
          /\ act'[q].file = act'[r].file => q = r
    BY <2>1, <2>2, <1>3, <1>5 DEF Plans
  <2> QED BY <2>3, <2>4, <2>5 DEF Plans
<1> QED BY <1>2, <1>4, <1>5 DEF SubInv

LEMMA WriteStep ==
  ASSUME SubInv, NEW p \in Procs, WriteBook(p)
  PROVE  SubInv'
<1> DEFINE f == act[p].file  new == Append(copy[p], Block(p))
<1>0. /\ f \in Files /\ SubTypeOK /\ act[p].step = "write" /\ Done(p, f)
      /\ UNCHANGED <<copy, next, torn>>
  BY DEF SubInv, SubTypeOK, Acts, WriteBook, WriteOver
<1>1. Block(p) \in Lines /\ Block(p).start = next[p]
  BY <1>0, SubIdConstants DEF Block, Lines, SubTypeOK
<1>2. copy[p] \in Seq(Lines) /\ new \in Seq(Lines) /\ book[f] \in Seq(Lines)
  BY <1>0, <1>1 DEF SubTypeOK
<1>3. PICK k \in 0..Len(book[f]) :
        /\ k = 0 => book[f] = <<>>
        /\ book' = [book EXCEPT ![f] = new \o SubSeq(@, k + 1, Len(@))]
  BY DEF WriteBook, WriteOver
<1>4. /\ act' \in [Procs -> Acts]
      /\ \A q \in Procs : act'[q].step # "idle" => act'[q].user \in Users
      /\ act'[p].step \in {"read", "idle"}
      /\ \A q \in Procs \ {p} : act'[q] = act[q]
  BY <1>0, DoneActs
<1>5. /\ book'[f] = new \o SubSeq(book[f], k + 1, Len(book[f]))
      /\ \A g \in Files \ {f} : book'[g] = book[g]
  BY <1>0, <1>3 DEF SubTypeOK
<1>6. SubSeq(book[f], k + 1, Len(book[f])) \in Seq(Lines)
  BY <1>2
<1>7. book' \in [Files -> Seq(Lines)]
  <2>1. new \o SubSeq(book[f], k + 1, Len(book[f])) \in Seq(Lines)
    BY <1>2, <1>6
  <2> QED BY <2>1, <1>0, <1>3 DEF SubTypeOK
<1>8. SubTypeOK'
  BY <1>0, <1>4, <1>7 DEF SubTypeOK
<1>9. ASSUME ~torn' PROVE BlocksNeverOverlap' /\ Plans'
  <2>1. Plans /\ BlocksNeverOverlap
    BY <1>9, <1>0 DEF SubInv
  <2>2. book[f] = <<>> /\ Disjoint(copy[p]) /\ Past(next[p], copy[p])
    BY <2>1, <1>0 DEF Plans
  <2>3. book'[f] = new
    <3>1. k = 0
      BY <2>2
    <3>2. SubSeq(book[f], k + 1, Len(book[f])) = <<>>
      BY <2>2, <3>1
    <3>3. new \o <<>> = new
      <4> HIDE DEF new
      <4> QED BY <1>2
    <3> QED BY <3>2, <3>3, <1>5
  <2>4. Disjoint(new)
    BY <2>2, <1>1, <1>2, AppendDisjoint
  <2>5. BlocksNeverOverlap'
    BY <2>1, <2>3, <2>4, <1>5 DEF BlocksNeverOverlap
  <2>6. \A q \in Procs \ {p} : act[q].step = "write" => act[q].file # f
    BY <2>1, <1>0 DEF Plans
  <2>7. Plans'
    <3>1. \A q \in Procs : act'[q].step \in {"open", "write"} =>
            Disjoint(copy'[q]) /\ Past(next'[q], copy'[q])
      BY <2>1, <1>0, <1>4 DEF Plans
    <3>2. \A q \in Procs : act'[q].step = "write" => book'[act'[q].file] = <<>>
      <4> SUFFICES ASSUME NEW q \in Procs, act'[q].step = "write"
                   PROVE  book'[act'[q].file] = <<>>
        OBVIOUS
      <4>1. q # p /\ act'[q] = act[q]
        BY <1>4
      <4>2. act[q].file \in Files \ {f}
        BY <4>1, <2>6, <1>0 DEF SubTypeOK, Acts
      <4> QED BY <4>1, <4>2, <2>1, <1>5 DEF Plans
    <3>3. \A q, r \in Procs : act'[q].step = "write" /\ act'[r].step = "write"
            /\ act'[q].file = act'[r].file => q = r
      BY <2>1, <1>4 DEF Plans
    <3> QED BY <3>1, <3>2, <3>3 DEF Plans
  <2> QED BY <2>5, <2>7
<1> QED BY <1>8, <1>9 DEF SubInv

LEMMA KillStep ==
  ASSUME SubInv, NEW p \in Procs, KillEnsure(p)
  PROVE  SubInv'
<1>1. SubTypeOK'
  BY DEF SubInv, SubTypeOK, Acts, KillEnsure, Steps
<1>2. ASSUME ~torn' PROVE BlocksNeverOverlap' /\ Plans'
  BY <1>2 DEF SubInv, SubTypeOK, KillEnsure, BlocksNeverOverlap, Plans
<1> QED BY <1>1, <1>2 DEF SubInv

LEMMA SubInvStep == SubInv /\ [SubNext]_subVars => SubInv'
<1> SUFFICES ASSUME SubInv, [SubNext]_subVars PROVE SubInv'
  OBVIOUS
<1>1. CASE UNCHANGED subVars
  BY <1>1 DEF SubInv, SubTypeOK, BlocksNeverOverlap, Plans, subVars
<1>2. ASSUME NEW p \in Procs, NEW u \in Services, Ensure(p, u) PROVE SubInv'
  BY <1>2, EnsureStep
<1>3. ASSUME NEW p \in Procs, ReadBook(p) PROVE SubInv'
  BY <1>3, ReadStep
<1>4. ASSUME NEW p \in Procs, OpenBook(p) PROVE SubInv'
  BY <1>4, OpenStep
<1>5. ASSUME NEW p \in Procs, WriteBook(p) PROVE SubInv'
  BY <1>5, WriteStep
<1>6. ASSUME NEW p \in Procs, KillEnsure(p) PROVE SubInv'
  BY <1>6, KillStep
<1> QED BY <1>1, <1>2, <1>3, <1>4, <1>5, <1>6 DEF SubNext

-----------------------------------------------------------------------------
(* Two users' blocks stay disjoint, whatever processes rewrite the files   *)
(* from however stale copies and wherever they are killed, as long as no   *)
(* file is opened while another process has it truncated.                  *)
THEOREM SubIdsDisjoint == SubSpec => []RangesDisjoint
<1>1. SubInv => RangesDisjoint
  BY DEF SubInv, RangesDisjoint
<1> QED BY SubInitInv, SubInvStep, <1>1, PTL DEF SubSpec

-----------------------------------------------------------------------------
(* A granted block is kept *)

\* User u has a wide enough block in file f, or will have it again when the process
\* that has truncated the file writes it.
HasBlock(f, u) ==
  Adequate(book[f], u) \/ \E p \in Procs :
    /\ act[p].step = "write" /\ act[p].file = f
    /\ Adequate(copy[p], u)

FirstIsDone(p) ==
  act[p].step # "idle" /\ act[p].file = "subgid" => HasBlock("subuid", act[p].user)

\* While no two rewrites overlap: who is about to truncate a file has read what is in
\* it, and it has one writer; whoever gets a block has none; and who is at the second
\* file has one in the first.
BlocksInv ==
  /\ \A p \in Procs : act[p].step = "open" => copy[p] = book[act[p].file]
  /\ \A p \in Procs : act[p].step = "write" => book[act[p].file] = <<>>
  /\ \A p, q \in Procs : act[p].step = "write" /\ act[q].step = "write"
       /\ act[p].file = act[q].file => p = q
  /\ \A p \in Procs : act[p].step \in {"open", "write"} => ~Mentions(copy[p], act[p].user)
  /\ \A p \in Procs : FirstIsDone(p)
  /\ \A u \in granted, f \in Files : HasBlock(f, u)

\* A line at the end takes no block from anybody, and gives one to whoever had none.
LEMMA AppendAdequate ==
  ASSUME NEW B \in Seq(Lines), NEW l \in Lines, NEW u
  PROVE  /\ Adequate(B, u) => Adequate(Append(B, l), u)
         /\ l.user = u /\ l.count >= Width /\ ~Mentions(B, u) => Adequate(Append(B, l), u)
<1> DEFINE A == Append(B, l)
<1>1. /\ A \in Seq(Lines) /\ Len(A) = Len(B) + 1 /\ A[Len(B) + 1] = l
      /\ \A i \in 1..Len(B) : A[i] = B[i]
  OBVIOUS
<1>2. DOMAIN A = 1..(Len(B) + 1) /\ DOMAIN B = 1..Len(B) /\ Len(B) \in Nat
  BY <1>1
<1> HIDE DEF A
<1>3. ASSUME Adequate(B, u) PROVE Adequate(A, u)
  <2>1. PICK i \in DOMAIN B : /\ B[i].user = u /\ B[i].count >= Width
                              /\ \A j \in 1..(i - 1) : B[j].user # u
    BY <1>3 DEF Adequate
  <2>2. i \in DOMAIN A /\ A[i] = B[i] /\ \A j \in 1..(i - 1) : A[j] = B[j]
    BY <1>1, <1>2
  <2> QED BY <2>1, <2>2 DEF Adequate
<1>4. ASSUME l.user = u, l.count >= Width, ~Mentions(B, u) PROVE Adequate(A, u)
  <2> DEFINE i == Len(B) + 1
  <2>1. i \in DOMAIN A /\ A[i] = l /\ \A j \in 1..(i - 1) : A[j] = B[j] /\ j \in DOMAIN B
    BY <1>1, <1>2
  <2>2. \A j \in 1..(i - 1) : A[j].user # u
    BY <1>4, <2>1 DEF Mentions
  <2> QED BY <1>4, <2>1, <2>2 DEF Adequate
<1> QED BY <1>3, <1>4 DEF A

\* Nothing is lost by a step that leaves the files and their writers alone.
LEMMA BlocksKept ==
  ASSUME UNCHANGED book, NEW f, NEW u, HasBlock(f, u),
         \A p \in Procs : act[p].step = "write" =>
           act'[p].step = "write" /\ act'[p].file = act[p].file /\ copy'[p] = copy[p]
  PROVE  HasBlock(f, u)'
BY DEF HasBlock

\* What Done does to the process that is done with a file.
LEMMA DoneGrants ==
  ASSUME SubTypeOK, NEW p \in Procs, act[p].step # "idle", Done(p, act[p].file)
  PROVE  \/ /\ act[p].file = "subuid" /\ granted' = granted
            /\ act'[p].step = "read" /\ act'[p].file = "subgid" /\ act'[p].user = act[p].user
         \/ act[p].file = "subgid" /\ granted' = granted \cup {act[p].user} /\ act'[p].step = "idle"
<1>1. act[p] \in Acts BY DEF SubTypeOK
<1>2. act[p].file \in Files BY <1>1 DEF Acts
<1>3. CASE act[p].file = "subuid"
  <2> DEFINE a == [act[p] EXCEPT !.step = "read", !.file = "subgid"]
  <2>1. a.step = "read" /\ a.file = "subgid" /\ a.user = act[p].user BY <1>1 DEF Acts
  <2>2. act' = [act EXCEPT ![p] = a] /\ granted' = granted BY <1>3 DEF Done
  <2> HIDE DEF a
  <2> QED BY <1>3, <2>1, <2>2 DEF SubTypeOK
<1>4. CASE act[p].file = "subgid" BY <1>1, <1>4 DEF Done, SubTypeOK, Acts
<1> QED BY <1>2, <1>3, <1>4 DEF Files

\* Nor for those that do not move.
LEMMA OthersDone ==
  ASSUME BlocksInv, NEW p \in Procs, \A q \in Procs \ {p} : act'[q] = act[q],
         \A v : HasBlock("subuid", v) => HasBlock("subuid", v)'
  PROVE  \A q \in Procs \ {p} : FirstIsDone(q)'
<1> SUFFICES ASSUME NEW q \in Procs \ {p}, act[q].step # "idle", act[q].file = "subgid"
             PROVE  HasBlock("subuid", act[q].user)'
  BY DEF FirstIsDone
<1>1. PICK v : v = act[q].user OBVIOUS
<1>2. HasBlock("subuid", v) BY <1>1 DEF BlocksInv, FirstIsDone
<1>3. HasBlock("subuid", v)' BY <1>2
<1> QED BY <1>1, <1>3 DEF HasBlock

LEMMA EnsureBlocks ==
  ASSUME SubTypeOK, BlocksInv, NEW p \in Procs, NEW u \in Services, Ensure(p, u)
  PROVE  BlocksInv'
<1>1. /\ act[p].step = "idle" /\ act'[p].step = "read" /\ act'[p].file = "subuid"
      /\ \A q \in Procs \ {p} : act'[q] = act[q]
      /\ UNCHANGED <<book, copy, granted>>
  BY DEF Ensure, SubTypeOK
<1>2. \A f, v : HasBlock(f, v) => HasBlock(f, v)'
  BY <1>1, BlocksKept
<1>3. \A q \in Procs : FirstIsDone(q)'
  BY <1>1, <1>2, OthersDone DEF FirstIsDone
<1> QED BY <1>1, <1>2, <1>3 DEF BlocksInv

LEMMA ReadBlocks ==
  ASSUME SubTypeOK, BlocksInv, NEW p \in Procs, ReadBook(p)
  PROVE  BlocksInv'
<1> PICK f \in Files : f = act[p].file BY DEF SubTypeOK, Acts
<1> PICK u : u = act[p].user OBVIOUS
<1> DEFINE B == book[f]
<1>1. act[p].step = "read" /\ UNCHANGED book /\ act[p] \in Acts
  BY DEF ReadBook, SubTypeOK, Acts
<1>2. CASE Adequate(B, u) /\ Done(p, f) /\ UNCHANGED <<copy, next>>
  <2>1. /\ act'[p].step \in {"read", "idle"}
        /\ \A q \in Procs \ {p} : act'[q] = act[q]
    BY <1>1, <1>2, DoneActs
  <2>2. \A g, v : HasBlock(g, v) => HasBlock(g, v)'
    BY <1>1, <1>2, <2>1, BlocksKept
  <2>3. HasBlock(f, u)'
    BY <1>2, <2>2 DEF HasBlock
  <2>4. CASE /\ f = "subuid" /\ granted' = granted
             /\ act'[p].step = "read" /\ act'[p].file = "subgid" /\ act'[p].user = u
    <3>1. FirstIsDone(p)' BY <2>3, <2>4 DEF HasBlock, FirstIsDone
    <3>2. \A q \in Procs : FirstIsDone(q)' BY <2>1, <2>2, <3>1, OthersDone
    <3> QED BY <1>2, <1>1, <2>1, <2>2, <2>4, <3>2 DEF BlocksInv
  <2>5. CASE f = "subgid" /\ granted' = granted \cup {u} /\ act'[p].step = "idle"
    <3>1. HasBlock("subuid", u) BY <1>1, <2>5 DEF BlocksInv, FirstIsDone
    <3>2. \A g \in Files : HasBlock(g, u)' BY <2>2, <2>3, <2>5, <3>1 DEF Files
    <3>3. \A q \in Procs : FirstIsDone(q)' BY <2>1, <2>2, <2>5, OthersDone DEF FirstIsDone
    <3> QED BY <1>1, <1>2, <2>1, <2>2, <2>5, <3>2, <3>3 DEF BlocksInv
  <2> QED BY <1>1, <1>2, <2>4, <2>5, DoneGrants
<1>3. CASE /\ act' = [act EXCEPT ![p] = [@ EXCEPT !.step = "idle"]]
           /\ UNCHANGED <<copy, next, granted>>
  <2>1. act'[p].step = "idle" /\ \A q \in Procs \ {p} : act'[q] = act[q]
    BY <1>1, <1>3 DEF SubTypeOK, Acts
  <2>2. \A g, v : HasBlock(g, v) => HasBlock(g, v)'
    BY <1>1, <1>3, <2>1, BlocksKept
  <2>3. \A q \in Procs : FirstIsDone(q)' BY <2>1, <2>2, OthersDone DEF FirstIsDone
  <2> QED BY <1>1, <1>3, <2>1, <2>2, <2>3 DEF BlocksInv
<1>4. CASE /\ ~Mentions(B, u) /\ copy' = [copy EXCEPT ![p] = B]
           /\ act' = [act EXCEPT ![p] = [@ EXCEPT !.step = "open"]]
           /\ UNCHANGED granted
  <2>1. /\ act'[p].step = "open" /\ act'[p].file = f /\ act'[p].user = u /\ copy'[p] = B
        /\ \A q \in Procs \ {p} : act'[q] = act[q] /\ copy'[q] = copy[q]
    BY <1>1, <1>4 DEF SubTypeOK, Acts
  <2>2. \A g, v : HasBlock(g, v) => HasBlock(g, v)'
    BY <1>1, <2>1, BlocksKept
  <2>3. FirstIsDone(p)'
    <3>1. f = "subgid" => HasBlock("subuid", u)' BY <1>1, <2>2 DEF BlocksInv, FirstIsDone
    <3> QED BY <2>1, <3>1 DEF FirstIsDone, HasBlock
  <2>4. \A q \in Procs : FirstIsDone(q)' BY <2>1, <2>2, <2>3, OthersDone
  <2> QED BY <1>1, <1>4, <2>1, <2>2, <2>4 DEF BlocksInv
<1> QED BY <1>2, <1>3, <1>4 DEF ReadBook

LEMMA OpenBlocks ==
  ASSUME SubTypeOK, BlocksInv, NEW p \in Procs, OpenBook(p), ~raced'
  PROVE  BlocksInv'
<1> PICK f \in Files : f = act[p].file BY DEF SubTypeOK, Acts
<1> PICK u : u = act[p].user OBVIOUS
<1>1. /\ act[p].step = "open" /\ UNCHANGED <<copy, granted>>
      /\ act'[p].step = "write" /\ act'[p].file = f /\ act'[p].user = act[p].user
      /\ book'[f] = <<>> /\ \A g \in Files \ {f} : book'[g] = book[g]
      /\ \A q \in Procs \ {p} : act'[q] = act[q]
  BY DEF OpenBook, SubTypeOK, Acts
<1>2. \A q \in Procs \ {p} : act[q].step \in {"open", "write"} => act[q].file # f
  BY DEF OpenBook
<1>3. ASSUME NEW g \in Files, NEW v, HasBlock(g, v) PROVE HasBlock(g, v)'
  <2>1. CASE g = f
    <3>1. Adequate(copy[p], v)
      BY <1>1, <1>2, <1>3, <2>1 DEF HasBlock, BlocksInv
    <3> QED BY <1>1, <2>1, <3>1 DEF HasBlock
  <2>2. CASE g # f
    BY <1>1, <1>3, <2>2 DEF HasBlock
  <2> QED BY <2>1, <2>2
<1>4. \A q \in Procs : act[q].file \in Files BY DEF SubTypeOK, Acts
<1>5. \A q \in Procs : FirstIsDone(q)'
  <2>1. \A v : HasBlock("subuid", v) => HasBlock("subuid", v)' BY <1>3 DEF Files
  <2>2. FirstIsDone(p)'
    <3>1. f = "subgid" => HasBlock("subuid", u)' BY <1>1, <2>1 DEF BlocksInv, FirstIsDone
    <3> QED BY <1>1, <3>1 DEF FirstIsDone, HasBlock
  <2> QED BY <1>1, <2>1, <2>2, OthersDone
<1>6. \A v \in granted', g \in Files : HasBlock(g, v)'
  BY <1>1, <1>3 DEF BlocksInv
<1> QED BY <1>1, <1>2, <1>4, <1>5, <1>6 DEF BlocksInv

LEMMA WriteBlocks ==
  ASSUME SubTypeOK, BlocksInv, NEW p \in Procs, WriteBook(p), ~raced'
  PROVE  BlocksInv'
<1> PICK f \in Files : f = act[p].file BY DEF SubTypeOK, Acts
<1> PICK u : u = act[p].user OBVIOUS
<1> PICK new : new = Append(copy[p], Block(p)) OBVIOUS
<1>1. /\ act[p].step = "write" /\ Done(p, f) /\ UNCHANGED copy
      /\ act[p].user \in Users
  BY DEF SubTypeOK, Acts, WriteBook, WriteOver
<1>2. \A q \in Procs \ {p} : act[q].step \in {"open", "write"} => act[q].file # f
  BY DEF WriteBook, WriteOver
<1>3. Block(p) \in Lines /\ Block(p).user = u /\ Block(p).count = Width /\ Width \in Nat
  BY <1>1, SubIdConstants DEF Block, Lines, SubTypeOK
<1>4. copy[p] \in Seq(Lines) /\ new \in Seq(Lines)
  BY <1>3 DEF SubTypeOK
<1>5. book[f] = <<>> BY <1>1 DEF BlocksInv
<1>6. book'[f] = new /\ \A g \in Files \ {f} : book'[g] = book[g]
  <2>1. PICK k \in 0..Len(book[f]) :
          book' = [book EXCEPT ![f] = new \o SubSeq(@, k + 1, Len(@))]
    BY DEF WriteBook, WriteOver
  <2>2. k = 0 /\ SubSeq(book[f], k + 1, Len(book[f])) = <<>> BY <1>5
  <2>3. new \o <<>> = new BY <1>4
  <2> QED BY <1>1, <2>1, <2>2, <2>3 DEF SubTypeOK
<1>7. /\ act'[p].step \in {"read", "idle"}
      /\ \A q \in Procs \ {p} : act'[q] = act[q]
  BY <1>1, DoneActs
<1>8. \A v : Adequate(copy[p], v) => Adequate(new, v)
  BY <1>3, <1>4, AppendAdequate
<1>9. Adequate(new, u)
  BY <1>1, <1>3, <1>4, AppendAdequate DEF BlocksInv
<1>10. ASSUME NEW g \in Files, NEW v, HasBlock(g, v) PROVE HasBlock(g, v)'
  <2>1. CASE g = f
    <3>1. ~Adequate(book[f], v) BY <1>5 DEF Adequate
    <3>2. Adequate(copy[p], v)
      BY <1>2, <1>10, <2>1, <3>1 DEF HasBlock
    <3> QED BY <1>6, <1>8, <2>1, <3>2 DEF HasBlock
  <2>2. CASE g # f
    BY <1>1, <1>6, <1>7, <1>10, <2>2 DEF HasBlock
  <2> QED BY <2>1, <2>2
<1>11. HasBlock(f, u)' BY <1>6, <1>9 DEF HasBlock
<1>12. (\A q \in Procs : FirstIsDone(q)') /\ \A v \in granted', g \in Files : HasBlock(g, v)'
  <2>1. \A v : HasBlock("subuid", v) => HasBlock("subuid", v)' BY <1>10 DEF Files
  <2>2. \A q \in Procs \ {p} : FirstIsDone(q)' BY <1>7, <2>1, OthersDone
  <2>3. \A v \in granted, g \in Files : HasBlock(g, v)' BY <1>10 DEF BlocksInv
  <2>4. CASE /\ f = "subuid" /\ granted' = granted
             /\ act'[p].step = "read" /\ act'[p].file = "subgid" /\ act'[p].user = u
    <3>1. FirstIsDone(p)' BY <1>11, <2>4 DEF FirstIsDone, HasBlock
    <3> QED BY <2>2, <2>3, <2>4, <3>1
  <2>5. CASE f = "subgid" /\ granted' = granted \cup {u} /\ act'[p].step = "idle"
    <3>1. HasBlock("subuid", u)' BY <1>1, <2>1, <2>5 DEF BlocksInv, FirstIsDone
    <3>2. \A g \in Files : HasBlock(g, u)' BY <1>11, <2>5, <3>1 DEF Files
    <3>3. FirstIsDone(p)' BY <2>5 DEF FirstIsDone
    <3> QED BY <2>2, <2>3, <2>5, <3>2, <3>3
  <2> QED BY <1>1, <2>4, <2>5, DoneGrants
<1>13. \A q \in Procs : act[q].file \in Files BY DEF SubTypeOK, Acts
<1>14. \A q \in Procs : act'[q].step \in {"open", "write"} => q # p
  BY <1>7
<1>15. ASSUME NEW q \in Procs, act'[q].step \in {"open", "write"}
       PROVE  /\ q # p /\ act'[q] = act[q] /\ copy'[q] = copy[q]
              /\ book'[act'[q].file] = book[act[q].file]
  BY <1>1, <1>2, <1>6, <1>7, <1>13, <1>14, <1>15
<1>16. /\ \A q \in Procs : act'[q].step = "open" => copy'[q] = book'[act'[q].file]
       /\ \A q \in Procs : act'[q].step = "write" => book'[act'[q].file] = <<>>
       /\ \A q, r \in Procs : act'[q].step = "write" /\ act'[r].step = "write"
            /\ act'[q].file = act'[r].file => q = r
       /\ \A q \in Procs : act'[q].step \in {"open", "write"} => ~Mentions(copy'[q], act'[q].user)
  BY <1>15 DEF BlocksInv
<1> QED BY <1>12, <1>16 DEF BlocksInv

LEMMA KillBlocks ==
  ASSUME SubTypeOK, BlocksInv, NEW p \in Procs, KillEnsure(p), ~raced'
  PROVE  BlocksInv'
<1>1. /\ act'[p].step = "idle" /\ \A q \in Procs \ {p} : act'[q] = act[q]
      /\ act[p].step # "write" /\ UNCHANGED <<book, copy, granted>>
  BY DEF KillEnsure, SubTypeOK, Acts
<1>2. \A f, v : HasBlock(f, v) => HasBlock(f, v)'
  BY <1>1, BlocksKept
<1>3. \A q \in Procs : FirstIsDone(q)'
  BY <1>1, <1>2, OthersDone DEF FirstIsDone
<1> QED BY <1>1, <1>2, <1>3 DEF BlocksInv

(* A user that was granted its blocks keeps them in both files, whichever  *)
(* other users are served by however many processes, and wherever one is   *)
(* killed but in the middle of a write, as long as no two rewrites of a    *)
(* file overlap.                                                           *)
THEOREM GrantsAreKept == SubSpec => []GrantedIsKept
<1>1. SubInit => SubInv /\ (~raced => BlocksInv)
  <2>1. SubInit => \A p \in Procs : act[p].step = "idle"
    BY RestingActs DEF SubInit
  <2>2. SubInit => (~raced => BlocksInv)
    BY <2>1 DEF SubInit, BlocksInv, FirstIsDone
  <2> QED BY <2>2, SubInitInv
<1>2. SubInv /\ (~raced => BlocksInv) /\ [SubNext]_subVars => (~raced => BlocksInv)'
  <2> SUFFICES ASSUME SubTypeOK, ~raced => BlocksInv, [SubNext]_subVars, ~raced'
               PROVE  BlocksInv'
    BY DEF SubInv
  <2>0. BlocksInv
    BY DEF SubNext, Ensure, ReadBook, OpenBook, WriteBook, WriteOver, KillEnsure, subVars
  <2>1. CASE UNCHANGED subVars
    BY <2>0, <2>1 DEF BlocksInv, FirstIsDone, HasBlock, subVars
  <2>2. ASSUME NEW p \in Procs, NEW u \in Services, Ensure(p, u) PROVE BlocksInv'
    BY <2>0, <2>2, EnsureBlocks
  <2>3. ASSUME NEW p \in Procs, ReadBook(p) PROVE BlocksInv'
    BY <2>0, <2>3, ReadBlocks
  <2>4. ASSUME NEW p \in Procs, OpenBook(p) PROVE BlocksInv'
    BY <2>0, <2>4, OpenBlocks
  <2>5. ASSUME NEW p \in Procs, WriteBook(p) PROVE BlocksInv'
    BY <2>0, <2>5, WriteBlocks
  <2>6. ASSUME NEW p \in Procs, KillEnsure(p) PROVE BlocksInv'
    BY <2>0, <2>6, KillBlocks
  <2> QED BY <2>1, <2>2, <2>3, <2>4, <2>5, <2>6 DEF SubNext
<1>3. (~raced => BlocksInv) => GrantedIsKept
  BY DEF BlocksInv, HasBlock, GrantedIsKept
<1>4. SubInv /\ [SubNext]_subVars => SubInv'
  BY SubInvStep
<1> QED BY <1>1, <1>2, <1>3, <1>4, PTL DEF SubSpec
-----------------------------------------------------------------------------
(* The slot of an ephemeral lane and the job logs it leaves.               *)

SlotTypes ==
  /\ cyc \in Jobs /\ (pc # "rest" => cyc \in Cycles)
  /\ pc \in {"rest", "reset", "dockerd", "builder", "run", "job", "stop", "capture", "copy", "sidecar"}
  /\ rootlessDinD \in BOOLEAN /\ dind \in BOOLEAN /\ mounted \in BOOLEAN
  /\ folder \in BOOLEAN /\ swept \in BOOLEAN /\ cut \in BOOLEAN
  /\ left \in Seq(Dirs) /\ disk \in [Dirs -> Jobs]
  /\ daemon \in Jobs /\ sock \in Jobs /\ builder \in Jobs /\ src \in Jobs
  /\ env \in [host : BOOLEAN, builder : BOOLEAN]
  /\ log \in [Cycles -> Jobs] /\ meta \in [Cycles -> {"none", "bare", "log"}]
  /\ sweep \in [at : {"idle", "log", "meta"}, runs : SUBSET Cycles]
  /\ recorded \subseteq Cycles

Members(s) == {s[i] : i \in 1..Len(s)}
Wiped      == IF dind THEN Dirs ELSE Dirs \ {"data"}

\* What a cycle still has to wipe is on its list, mounts that would keep it from
\* that are gone, and what it has started is its own.
SlotClean ==
  /\ pc = "reset" => /\ \A x \in Wiped : disk[x] = 0 \/ x \in Members(left)
                     /\ dind => ~mounted
                     /\ ~dind => "data" \notin Members(left)
  /\ pc \in {"dockerd", "builder", "run"} => left = <<>> /\ \A x \in Wiped : disk[x] = 0
  /\ pc \in {"job", "stop", "capture"} /\ cyc \notin hurt => left = <<>>
  /\ daemon # 0 => daemon = cyc /\ sock = cyc /\ pc \in {"dockerd", "builder", "run", "job", "stop"}
  /\ pc \in {"reset", "dockerd"} => env = NoEnv
  /\ pc \in {"builder", "run"} /\ env.host => daemon # 0
  /\ pc = "builder" => ~env.builder
  /\ pc = "run" /\ env.builder => builder = cyc

\* The log that lies in _diag, and the one the capture has found, is the job's.
SlotLogs ==
  /\ pc \in {"job", "stop", "capture"} => disk["diag"] \in {0, cyc} \/ cyc \in soiled
  /\ pc \in {"copy", "sidecar"} => src \in {0, cyc} \/ cyc \in soiled
  /\ LogOfItsJob

Oldest(S) == CHOOSE r \in S : \A k \in S : r <= k

\* A prune only lists runs of cycles that are over.
SlotRuns ==
  /\ RunIsRecorded /\ StoreAgrees
  /\ \A c \in Cycles : meta[c] # "none" \/ c \in sweep.runs => c < cyc \/ (c = cyc /\ pc = "rest")
  /\ pc \in {"copy", "sidecar"} /\ ~folder => swept
  /\ pc = "sidecar" /\ src # 0 => log[cyc] # 0
  /\ sweep.at = "idle" => sweep.runs = {}
  /\ sweep.at = "meta" => sweep.runs # {} /\ log[Oldest(sweep.runs)] = 0

SlotInv == SlotTypes /\ SlotClean /\ SlotLogs /\ SlotRuns

\* A set of numbers has a least one.
LEMMA LeastNumber ==
  ASSUME NEW S \in SUBSET Nat, S # {}
  PROVE  \E x \in S : \A y \in S : x <= y
<1>1. PICK x \in S : \A y \in S : ~(<<y, x>> \in OpToRel(<, Nat))
  BY NatLessThanWellFounded, WFMin
<1>2. \A y \in S : ~(y < x)
  BY <1>1 DEF OpToRel
<1> QED BY <1>2

LEMMA OldestIsListed == \A S \in SUBSET Cycles : S # {} => Oldest(S) \in S
<1> SUFFICES ASSUME NEW S \in SUBSET Cycles, S # {} PROVE Oldest(S) \in S
  OBVIOUS
<1>1. \E x \in S : \A y \in S : x <= y
  BY SlotConstants, LeastNumber DEF Cycles
<1> QED BY <1>1 DEF Oldest

LEMMA CycleNumbers == Cycles \subseteq Nat \ {0} /\ Jobs = Cycles \cup {0} /\ Jobs \subseteq Nat
BY SlotConstants DEF Cycles, Jobs

\* The list of a cycle begins with all there is to wipe, and loses its head.
LEMMA WholeList ==
  ASSUME NEW d \in BOOLEAN
  PROVE  /\ ResetDirs(d) \in Seq(Dirs)
         /\ Members(ResetDirs(d)) = IF d THEN Dirs ELSE Dirs \ {"data"}
<1>1. CASE d
  <2>1. ResetDirs(d) = <<"work", "diag", "home", "creds", "data">>
    BY <1>1 DEF ResetDirs
  <2>2. Len(<<"work", "diag", "home", "creds", "data">>) = 5 /\ <<"work", "diag", "home", "creds", "data">> \in Seq(Dirs)
    BY DEF Dirs
  <2> DEFINE s == <<"work", "diag", "home", "creds", "data">>
  <2>3. s[1] = "work" /\ s[2] = "diag" /\ s[3] = "home" /\ s[4] = "creds" /\ s[5] = "data"
    OBVIOUS
  <2> HIDE DEF s
  <2>4. \A i \in 1..5 : i = 1 \/ i = 2 \/ i = 3 \/ i = 4 \/ i = 5
    OBVIOUS
  <2>5. {s[i] : i \in 1..5} = Dirs
    BY <2>3, <2>4 DEF Dirs
  <2>6. ResetDirs(d) = s /\ Len(s) = 5 /\ s \in Seq(Dirs)
    BY <2>1, <2>2 DEF s
  <2> QED BY <1>1, <2>5, <2>6 DEF Members
<1>2. CASE ~d
  <2>1. ResetDirs(d) = <<"work", "diag", "home", "creds">>
    BY <1>2 DEF ResetDirs
  <2>2. Len(<<"work", "diag", "home", "creds">>) = 4 /\ <<"work", "diag", "home", "creds">> \in Seq(Dirs)
    BY DEF Dirs
  <2> DEFINE s == <<"work", "diag", "home", "creds">>
  <2>3. s[1] = "work" /\ s[2] = "diag" /\ s[3] = "home" /\ s[4] = "creds"
    OBVIOUS
  <2> HIDE DEF s
  <2>4. \A i \in 1..4 : i = 1 \/ i = 2 \/ i = 3 \/ i = 4
    OBVIOUS
  <2>5. {s[i] : i \in 1..4} = Dirs \ {"data"}
    BY <2>3, <2>4 DEF Dirs
  <2>6. ResetDirs(d) = s /\ Len(s) = 4 /\ s \in Seq(Dirs)
    BY <2>1, <2>2 DEF s
  <2> QED BY <1>2, <2>5, <2>6 DEF Members
<1> QED BY <1>1, <1>2

LEMMA ListTail ==
  ASSUME NEW s \in Seq(Dirs), s # <<>>
  PROVE  /\ Head(s) \in Dirs /\ Tail(s) \in Seq(Dirs)
         /\ Members(s) = Members(Tail(s)) \cup {Head(s)}
<1>1. Len(s) \in Nat \ {0} /\ Head(s) = s[1] /\ Head(s) \in Dirs /\ Tail(s) \in Seq(Dirs) /\ Len(Tail(s)) = Len(s) - 1
  OBVIOUS
<1>2. \A i \in 1..(Len(s) - 1) : Tail(s)[i] = s[i + 1]
  OBVIOUS
<1>3. ASSUME NEW x \in Members(s) PROVE x \in Members(Tail(s)) \cup {Head(s)}
  <2>1. PICK i \in 1..Len(s) : x = s[i]
    BY DEF Members
  <2>2. CASE i = 1
    BY <1>1, <2>1, <2>2
  <2>3. CASE i # 1
    <3>1. i - 1 \in 1..(Len(s) - 1) /\ Tail(s)[i - 1] = s[i]
      BY <1>1, <1>2, <2>3
    <3> QED BY <1>1, <2>1, <3>1 DEF Members
  <2> QED BY <2>2, <2>3
<1>4. ASSUME NEW x \in Members(Tail(s)) \cup {Head(s)} PROVE x \in Members(s)
  <2>1. CASE x = Head(s)
    BY <1>1, <2>1 DEF Members
  <2>2. CASE x \in Members(Tail(s))
    <3>1. PICK i \in 1..(Len(s) - 1) : x = Tail(s)[i]
      BY <1>1, <2>2 DEF Members
    <3>2. i + 1 \in 1..Len(s) /\ x = s[i + 1]
      BY <1>1, <1>2, <3>1
    <3> QED BY <3>2 DEF Members
  <2> QED BY <2>1, <2>2
<1> QED BY <1>1, <1>3, <1>4

LEMMA EmptyList == \A s \in Seq(Dirs) : s = <<>> => Members(s) = {}
BY DEF Members

LEMMA SlotInitInv == SlotInit => SlotInv
<1> SUFFICES ASSUME SlotInit PROVE SlotInv
  OBVIOUS
<1>1. SlotTypes
  <2>1. 0 \in Jobs /\ <<>> \in Seq(Dirs) /\ NoEnv \in [host : BOOLEAN, builder : BOOLEAN]
        /\ NoSweep \in [at : {"idle", "log", "meta"}, runs : SUBSET Cycles]
    BY CycleNumbers DEF NoEnv, NoSweep
  <2>2. disk \in [Dirs -> Jobs] /\ log \in [Cycles -> Jobs] /\ meta \in [Cycles -> {"none", "bare", "log"}]
    BY <2>1 DEF SlotInit
  <2> QED BY <2>1, <2>2 DEF SlotInit, SlotTypes
<1>2. SlotClean /\ SlotLogs
  BY DEF SlotInit, SlotClean, SlotLogs, LogOfItsJob
<1>3. SlotRuns
  BY DEF SlotInit, SlotRuns, RunIsRecorded, StoreAgrees, NoSweep
<1> QED BY <1>1, <1>2, <1>3 DEF SlotInv


LEMMA StartCycleSlot ==
  ASSUME SlotInv, StartCycle
  PROVE  SlotInv'
<1>1. SlotTypes /\ SlotClean /\ SlotLogs /\ SlotRuns
  BY DEF SlotInv
<1>2. SlotTypes'
  <2>1. cyc + 1 \in Cycles /\ cyc + 1 \in Jobs
    BY <1>1, SlotConstants DEF StartCycle, Cycles, Jobs, SlotTypes
  <2>2. left' \in Seq(Dirs) /\ env' \in [host : BOOLEAN, builder : BOOLEAN]
    BY <1>1, WholeList DEF StartCycle, SlotTypes, NoEnv
  <2> QED BY <1>1, <2>1, <2>2 DEF SlotTypes, StartCycle, diskVars, dindVars, storeVars, histVars
<1>3. SlotClean'
  BY <1>1, <1>2, CycleNumbers, WholeList DEF StartCycle, SlotTypes, SlotClean, Wiped, diskVars, dindVars, histVars
<1>4. SlotLogs'
  BY <1>1, <1>2, CycleNumbers DEF StartCycle, SlotTypes, SlotClean, SlotLogs, LogOfItsJob, Wiped, Dirs, diskVars, storeVars, histVars
<1>5. SlotRuns'
  BY <1>1, <1>2, CycleNumbers, OldestIsListed DEF StartCycle, SlotTypes, SlotRuns, RunIsRecorded, StoreAgrees, Cycles, diskVars, storeVars, histVars
<1> QED BY <1>2, <1>3, <1>4, <1>5 DEF SlotInv

LEMMA PreparedSlot ==
  ASSUME SlotInv, Prepared
  PROVE  SlotInv'
<1>1. SlotTypes /\ SlotClean /\ SlotLogs /\ SlotRuns
  BY DEF SlotInv
<1>2. SlotTypes'
  BY <1>1, CycleNumbers DEF Prepared, SlotTypes, diskVars, dindVars, storeVars, histVars, Fail, Harmed
<1>3. SlotClean'
  <2>1. /\ pc = "reset" /\ left = <<>> /\ UNCHANGED <<cyc, dind, left, disk, mounted, daemon, sock, builder, env>>
        /\ pc' \in {"dockerd", "run"} \/ (pc' \in {"stop", "capture"} /\ hurt' = hurt \cup {cyc})
        /\ ~dind /\ pc' # "dockerd" => pc' \in {"run", "stop", "capture"}
    BY DEF Prepared, Fail, diskVars, dindVars
  <2>2. (\A x \in Wiped : disk[x] = 0) /\ env = NoEnv /\ daemon = 0
    BY <1>1, <2>1, EmptyList DEF SlotTypes, SlotClean
  <2> QED BY <1>1, <2>1, <2>2 DEF SlotClean, Wiped, NoEnv
<1>4. SlotLogs'
  BY <1>1, <1>2, CycleNumbers, EmptyList DEF Prepared, SlotTypes, SlotClean, SlotLogs, LogOfItsJob, Wiped, Dirs, diskVars, storeVars, histVars, Fail, Harmed
<1>5. SlotRuns'
  BY <1>1, <1>2, CycleNumbers, OldestIsListed DEF Prepared, SlotTypes, SlotRuns, RunIsRecorded, StoreAgrees, Cycles, diskVars, storeVars, histVars, Fail, Harmed
<1> QED BY <1>2, <1>3, <1>4, <1>5 DEF SlotInv

LEMMA StartDaemonSlot ==
  ASSUME SlotInv, StartDaemon
  PROVE  SlotInv'
<1>1. SlotTypes /\ SlotClean /\ SlotLogs /\ SlotRuns
  BY DEF SlotInv
<1>2. SlotTypes'
  BY <1>1, CycleNumbers DEF StartDaemon, SlotTypes, diskVars, dindVars, storeVars, histVars
<1>3. SlotClean'
  BY <1>1, <1>2, CycleNumbers DEF StartDaemon, SlotTypes, SlotClean, Wiped, diskVars, dindVars, histVars
<1>4. SlotLogs'
  BY <1>1, <1>2, CycleNumbers DEF StartDaemon, SlotTypes, SlotClean, SlotLogs, LogOfItsJob, Wiped, Dirs, diskVars, storeVars, histVars
<1>5. SlotRuns'
  BY <1>1, <1>2, CycleNumbers, OldestIsListed DEF StartDaemon, SlotTypes, SlotRuns, RunIsRecorded, StoreAgrees, Cycles, diskVars, storeVars, histVars
<1> QED BY <1>2, <1>3, <1>4, <1>5 DEF SlotInv

LEMMA WaitSocketSlot ==
  ASSUME SlotInv, WaitSocket
  PROVE  SlotInv'
<1>1. SlotTypes /\ SlotClean /\ SlotLogs /\ SlotRuns
  BY DEF SlotInv
<1>2. SlotTypes'
  BY <1>1, CycleNumbers DEF WaitSocket, SlotTypes, diskVars, dindVars, storeVars, histVars, Fail, Harmed, NoEnv
<1>3. SlotClean'
  BY <1>1, <1>2, CycleNumbers DEF WaitSocket, SlotTypes, SlotClean, Wiped, diskVars, dindVars, histVars, Fail, Harmed, NoEnv
<1>4. SlotLogs'
  BY <1>1, <1>2, CycleNumbers DEF WaitSocket, SlotTypes, SlotClean, SlotLogs, LogOfItsJob, Wiped, Dirs, diskVars, storeVars, histVars, Fail, Harmed, NoEnv
<1>5. SlotRuns'
  BY <1>1, <1>2, CycleNumbers, OldestIsListed DEF WaitSocket, SlotTypes, SlotRuns, RunIsRecorded, StoreAgrees, Cycles, diskVars, storeVars, histVars, Fail, Harmed, NoEnv
<1> QED BY <1>2, <1>3, <1>4, <1>5 DEF SlotInv

LEMMA SeedBuilderSlot ==
  ASSUME SlotInv, SeedBuilder
  PROVE  SlotInv'
<1>1. SlotTypes /\ SlotClean /\ SlotLogs /\ SlotRuns
  BY DEF SlotInv
<1>2. SlotTypes'
  BY <1>1, CycleNumbers DEF SeedBuilder, SlotTypes, diskVars, dindVars, storeVars, histVars, Harmed
<1>3. SlotClean'
  BY <1>1, <1>2, CycleNumbers DEF SeedBuilder, SlotTypes, SlotClean, Wiped, diskVars, dindVars, histVars, Harmed
<1>4. SlotLogs'
  BY <1>1, <1>2, CycleNumbers DEF SeedBuilder, SlotTypes, SlotClean, SlotLogs, LogOfItsJob, Wiped, Dirs, diskVars, storeVars, histVars, Harmed
<1>5. SlotRuns'
  BY <1>1, <1>2, CycleNumbers, OldestIsListed DEF SeedBuilder, SlotTypes, SlotRuns, RunIsRecorded, StoreAgrees, Cycles, diskVars, storeVars, histVars, Harmed
<1> QED BY <1>2, <1>3, <1>4, <1>5 DEF SlotInv

LEMMA JobRunsSlot ==
  ASSUME SlotInv, JobRuns
  PROVE  SlotInv'
<1>1. SlotTypes /\ SlotClean /\ SlotLogs /\ SlotRuns
  BY DEF SlotInv
<1>2. SlotTypes'
  BY <1>1, CycleNumbers DEF JobRuns, SlotTypes, diskVars, dindVars, storeVars, histVars
<1>3. SlotClean'
  BY <1>1, <1>2, CycleNumbers DEF JobRuns, SlotTypes, SlotClean, Wiped, diskVars, dindVars, histVars
<1>4. SlotLogs'
  BY <1>1, <1>2, CycleNumbers DEF JobRuns, SlotTypes, SlotClean, SlotLogs, LogOfItsJob, Wiped, Dirs, diskVars, storeVars, histVars
<1>5. SlotRuns'
  BY <1>1, <1>2, CycleNumbers, OldestIsListed DEF JobRuns, SlotTypes, SlotRuns, RunIsRecorded, StoreAgrees, Cycles, diskVars, storeVars, histVars
<1> QED BY <1>2, <1>3, <1>4, <1>5 DEF SlotInv

LEMMA JobEndsSlot ==
  ASSUME SlotInv, JobEnds
  PROVE  SlotInv'
<1>1. SlotTypes /\ SlotClean /\ SlotLogs /\ SlotRuns
  BY DEF SlotInv
<1>2. SlotTypes'
  BY <1>1, CycleNumbers DEF JobEnds, SlotTypes, diskVars, dindVars, storeVars, histVars
<1>3. SlotClean'
  BY <1>1, <1>2, CycleNumbers DEF JobEnds, SlotTypes, SlotClean, Wiped, diskVars, dindVars, histVars
<1>4. SlotLogs'
  BY <1>1, <1>2, CycleNumbers DEF JobEnds, SlotTypes, SlotClean, SlotLogs, LogOfItsJob, Wiped, Dirs, diskVars, storeVars, histVars
<1>5. SlotRuns'
  BY <1>1, <1>2, CycleNumbers, OldestIsListed DEF JobEnds, SlotTypes, SlotRuns, RunIsRecorded, StoreAgrees, Cycles, diskVars, storeVars, histVars
<1> QED BY <1>2, <1>3, <1>4, <1>5 DEF SlotInv

LEMMA StopDaemonSlot ==
  ASSUME SlotInv, StopDaemon
  PROVE  SlotInv'
<1>1. SlotTypes /\ SlotClean /\ SlotLogs /\ SlotRuns
  BY DEF SlotInv
<1>2. SlotTypes'
  BY <1>1, CycleNumbers DEF StopDaemon, SlotTypes, diskVars, dindVars, storeVars, histVars
<1>3. SlotClean'
  BY <1>1, <1>2, CycleNumbers DEF StopDaemon, SlotTypes, SlotClean, Wiped, diskVars, dindVars, histVars
<1>4. SlotLogs'
  BY <1>1, <1>2, CycleNumbers DEF StopDaemon, SlotTypes, SlotClean, SlotLogs, LogOfItsJob, Wiped, Dirs, diskVars, storeVars, histVars
<1>5. SlotRuns'
  BY <1>1, <1>2, CycleNumbers, OldestIsListed DEF StopDaemon, SlotTypes, SlotRuns, RunIsRecorded, StoreAgrees, Cycles, diskVars, storeVars, histVars
<1> QED BY <1>2, <1>3, <1>4, <1>5 DEF SlotInv

LEMMA FindLogSlot ==
  ASSUME SlotInv, FindLog
  PROVE  SlotInv'
<1>1. SlotTypes /\ SlotClean /\ SlotLogs /\ SlotRuns
  BY DEF SlotInv
<1>2. SlotTypes'
  BY <1>1, CycleNumbers DEF FindLog, SlotTypes, diskVars, dindVars, storeVars, histVars, NewestJobLog, Dirs
<1>3. SlotClean'
  BY <1>1, <1>2, CycleNumbers DEF FindLog, SlotTypes, SlotClean, Wiped, diskVars, dindVars, histVars, NewestJobLog
<1>4. SlotLogs'
  BY <1>1, <1>2, CycleNumbers DEF FindLog, SlotTypes, SlotClean, SlotLogs, LogOfItsJob, Wiped, Dirs, diskVars, storeVars, histVars, NewestJobLog
<1>5. SlotRuns'
  BY <1>1, <1>2, CycleNumbers, OldestIsListed DEF FindLog, SlotTypes, SlotRuns, RunIsRecorded, StoreAgrees, Cycles, diskVars, storeVars, histVars, NewestJobLog
<1> QED BY <1>2, <1>3, <1>4, <1>5 DEF SlotInv

LEMMA CopyLogSlot ==
  ASSUME SlotInv, CopyLog
  PROVE  SlotInv'
<1>1. SlotTypes /\ SlotClean /\ SlotLogs /\ SlotRuns
  BY DEF SlotInv
<1>2. SlotTypes'
  BY <1>1, CycleNumbers DEF CopyLog, SlotTypes, diskVars, dindVars, storeVars, histVars, Harmed
<1>3. SlotClean'
  BY <1>1, <1>2, CycleNumbers DEF CopyLog, SlotTypes, SlotClean, Wiped, diskVars, dindVars, histVars, Harmed
<1>4. SlotLogs'
  BY <1>1, <1>2, CycleNumbers DEF CopyLog, SlotTypes, SlotClean, SlotLogs, LogOfItsJob, Wiped, Dirs, diskVars, storeVars, histVars, Harmed
<1>5. SlotRuns'
  BY <1>1, <1>2, CycleNumbers, OldestIsListed DEF CopyLog, SlotTypes, SlotRuns, RunIsRecorded, StoreAgrees, Cycles, diskVars, storeVars, histVars, Harmed
<1> QED BY <1>2, <1>3, <1>4, <1>5 DEF SlotInv

LEMMA WriteSidecarSlot ==
  ASSUME SlotInv, WriteSidecar
  PROVE  SlotInv'
<1>1. SlotTypes /\ SlotClean /\ SlotLogs /\ SlotRuns
  BY DEF SlotInv
<1>2. SlotTypes'
  BY <1>1, CycleNumbers DEF WriteSidecar, SlotTypes, diskVars, dindVars, storeVars, histVars
<1>3. SlotClean'
  BY <1>1, <1>2, CycleNumbers DEF WriteSidecar, SlotTypes, SlotClean, Wiped, diskVars, dindVars, histVars
<1>4. SlotLogs'
  BY <1>1, <1>2, CycleNumbers DEF WriteSidecar, SlotTypes, SlotClean, SlotLogs, LogOfItsJob, Wiped, Dirs, diskVars, storeVars, histVars
<1>5. SlotRuns'
  BY <1>1, <1>2, CycleNumbers, OldestIsListed DEF WriteSidecar, SlotTypes, SlotRuns, RunIsRecorded, StoreAgrees, Cycles, diskVars, storeVars, histVars
<1> QED BY <1>2, <1>3, <1>4, <1>5 DEF SlotInv

LEMMA KillUnitSlot ==
  ASSUME SlotInv, KillUnit
  PROVE  SlotInv'
<1>1. SlotTypes /\ SlotClean /\ SlotLogs /\ SlotRuns
  BY DEF SlotInv
<1>2. SlotTypes'
  BY <1>1, CycleNumbers DEF KillUnit, SlotTypes, diskVars, dindVars, storeVars, histVars, Harmed
<1>3. SlotClean'
  BY <1>1, <1>2, CycleNumbers DEF KillUnit, SlotTypes, SlotClean, Wiped, diskVars, dindVars, histVars, Harmed
<1>4. SlotLogs'
  BY <1>1, <1>2, CycleNumbers DEF KillUnit, SlotTypes, SlotClean, SlotLogs, LogOfItsJob, Wiped, Dirs, diskVars, storeVars, histVars, Harmed
<1>5. SlotRuns'
  BY <1>1, <1>2, CycleNumbers, OldestIsListed DEF KillUnit, SlotTypes, SlotRuns, RunIsRecorded, StoreAgrees, Cycles, diskVars, storeVars, histVars, Harmed
<1> QED BY <1>2, <1>3, <1>4, <1>5 DEF SlotInv

LEMMA ResetDirSlot ==
  ASSUME SlotInv, ResetDir
  PROVE  SlotInv'
<1>1. SlotTypes /\ SlotClean /\ SlotLogs /\ SlotRuns
  BY DEF SlotInv
<1>2. /\ Head(left) \in Dirs /\ Tail(left) \in Seq(Dirs)
      /\ Members(left) = Members(Tail(left)) \cup {Head(left)}
  BY <1>1, ListTail DEF ResetDir, SlotTypes
<1>3. /\ pc = "reset"
      /\ UNCHANGED <<rootlessDinD, cyc, dind, mounted, daemon, sock, env, src, folder, log, meta, sweep,
                     recorded, pruned, swept, cut>>
  BY DEF ResetDir, storeVars
<1>4. CASE /\ disk' = [disk EXCEPT ![Head(left)] = 0] /\ left' = Tail(left)
           /\ builder' = (IF Head(left) = "home" THEN 0 ELSE builder)
           /\ UNCHANGED <<pc, hurt, soiled>>
  <2>1. SlotTypes'
    BY <1>1, <1>2, <1>3, <1>4, CycleNumbers DEF SlotTypes
  <2>2. SlotClean'
    BY <1>1, <1>2, <1>3, <1>4, <2>1, CycleNumbers DEF SlotTypes, SlotClean, Wiped
  <2>3. SlotLogs' /\ SlotRuns'
    BY <1>1, <1>3, <1>4 DEF SlotLogs, LogOfItsJob, SlotRuns, RunIsRecorded, StoreAgrees
  <2> QED BY <2>1, <2>2, <2>3 DEF SlotInv
<1>5. CASE Head(left) = "data" /\ mounted
  BY <1>1, <1>2, <1>3, <1>5 DEF SlotClean, SlotTypes
<1>6. CASE /\ Fail /\ UNCHANGED <<disk, builder, left>>
           /\ soiled' = IF \E i \in 1..Len(left) : left[i] = "diag" THEN soiled \cup {cyc} ELSE soiled
  <2>1. SlotTypes'
    BY <1>1, <1>3, <1>6 DEF SlotTypes, Fail
  <2>2. SlotClean'
    BY <1>1, <1>3, <1>6, CycleNumbers DEF SlotTypes, SlotClean, Fail
  <2>3. disk["diag"] = 0 \/ cyc \in soiled'
    BY <1>1, <1>3, <1>6 DEF SlotClean, Wiped, Members, Dirs
  <2>4. SlotLogs'
    BY <1>1, <1>3, <1>6, <2>3 DEF SlotLogs, LogOfItsJob, Fail
  <2>5. SlotRuns'
    BY <1>1, <1>3, <1>6, CycleNumbers DEF SlotRuns, RunIsRecorded, StoreAgrees, Fail
  <2> QED BY <2>1, <2>2, <2>4, <2>5 DEF SlotInv
<1> QED BY <1>4, <1>5, <1>6 DEF ResetDir

LEMMA BeginPruneSlot ==
  ASSUME SlotInv, BeginPrune
  PROVE  SlotInv'
<1>1. SlotTypes /\ SlotClean /\ SlotLogs /\ SlotRuns
  BY DEF SlotInv
<1>2. SlotTypes'
  BY <1>1, CycleNumbers DEF BeginPrune, SlotTypes, diskVars, dindVars, storeVars, histVars
<1>3. SlotClean'
  BY <1>1 DEF BeginPrune, SlotClean, Wiped, diskVars, dindVars, histVars
<1>4. SlotLogs'
  BY <1>1, CycleNumbers DEF BeginPrune, SlotTypes, SlotLogs, LogOfItsJob, diskVars, storeVars, histVars
<1>5. SlotRuns'
  BY <1>1, <1>2, CycleNumbers, OldestIsListed DEF BeginPrune, SlotTypes, SlotRuns, RunIsRecorded, StoreAgrees, diskVars, storeVars, histVars
<1> QED BY <1>2, <1>3, <1>4, <1>5 DEF SlotInv

LEMMA PruneRunSlot ==
  ASSUME SlotInv, PruneRun
  PROVE  SlotInv'
<1>1. SlotTypes /\ SlotClean /\ SlotLogs /\ SlotRuns
  BY DEF SlotInv
<1>2. PICK c \in sweep.runs :
        /\ c = Oldest(sweep.runs)
        /\ \/ /\ sweep.at = "log"
              /\ log' = [log EXCEPT ![c] = 0] /\ sweep' = [sweep EXCEPT !.at = "meta"]
              /\ UNCHANGED meta
           \/ /\ sweep.at = "meta"
              /\ meta' = [meta EXCEPT ![c] = "none"]
              /\ sweep' = [at |-> "log", runs |-> sweep.runs \ {c}] /\ UNCHANGED log
        /\ pruned' = pruned \cup {c}
  BY <1>1, OldestIsListed DEF PruneRun, Oldest, SlotTypes
<1>3. /\ UNCHANGED <<rootlessDinD, cyc, pc, dind, left, disk, mounted, daemon, sock, builder, env, src, folder, hurt,
                     soiled, recorded, swept, cut>>
      /\ c \in Cycles /\ 0 \in Jobs
  BY <1>1, CycleNumbers DEF PruneRun, SlotTypes, diskVars, dindVars
<1>4. SlotTypes'
  BY <1>1, <1>2, <1>3 DEF SlotTypes
<1>5. SlotClean'
  BY <1>1, <1>3 DEF SlotClean, Wiped
<1>6. SlotLogs'
  BY <1>1, <1>2, <1>3 DEF SlotTypes, SlotLogs, LogOfItsJob
<1>7. c # cyc \/ pc = "rest"
  BY <1>1, <1>2, <1>3, CycleNumbers DEF SlotTypes, SlotRuns
<1>8. SlotRuns' \/ sweep.at # "log"
  BY <1>1, <1>2, <1>3, <1>7 DEF SlotTypes, SlotRuns, RunIsRecorded, StoreAgrees
<1>9. SlotRuns' \/ sweep.at # "meta"
  <2> SUFFICES ASSUME sweep.at = "meta" PROVE SlotRuns'
    OBVIOUS
  <2>1. log[c] = 0
    BY <1>1, <1>2 DEF SlotRuns
  <2> QED BY <1>1, <1>2, <1>3, <1>7, <2>1 DEF SlotTypes, SlotRuns, RunIsRecorded, StoreAgrees
<1> QED BY <1>2, <1>4, <1>5, <1>6, <1>8, <1>9 DEF SlotInv

LEMMA RemoveEmptyDirsSlot ==
  ASSUME SlotInv, RemoveEmptyDirs
  PROVE  SlotInv'
<1>1. SlotTypes /\ SlotClean /\ SlotLogs /\ SlotRuns
  BY DEF SlotInv
<1>2. SlotTypes'
  BY <1>1, CycleNumbers DEF RemoveEmptyDirs, SlotTypes, diskVars, dindVars, storeVars, histVars, NoSweep
<1>3. SlotClean'
  BY <1>1 DEF RemoveEmptyDirs, SlotClean, Wiped, diskVars, dindVars, histVars
<1>4. SlotLogs'
  BY <1>1, CycleNumbers DEF RemoveEmptyDirs, SlotTypes, SlotLogs, LogOfItsJob, diskVars, storeVars, histVars
<1>5. SlotRuns'
  BY <1>1, <1>2, CycleNumbers, OldestIsListed DEF RemoveEmptyDirs, SlotTypes, SlotRuns, RunIsRecorded, StoreAgrees, diskVars, storeVars, histVars, NoSweep
<1> QED BY <1>2, <1>3, <1>4, <1>5 DEF SlotInv

LEMMA KillPruneSlot ==
  ASSUME SlotInv, KillPrune
  PROVE  SlotInv'
<1>1. SlotTypes /\ SlotClean /\ SlotLogs /\ SlotRuns
  BY DEF SlotInv
<1>2. SlotTypes'
  BY <1>1, CycleNumbers DEF KillPrune, SlotTypes, diskVars, dindVars, storeVars, histVars, NoSweep, Harmed
<1>3. SlotClean'
  BY <1>1 DEF KillPrune, SlotClean, Wiped, diskVars, dindVars, histVars
<1>4. SlotLogs'
  BY <1>1, CycleNumbers DEF KillPrune, SlotTypes, SlotLogs, LogOfItsJob, diskVars, storeVars, histVars
<1>5. SlotRuns'
  BY <1>1, <1>2, CycleNumbers, OldestIsListed DEF KillPrune, SlotTypes, SlotRuns, RunIsRecorded, StoreAgrees, diskVars, storeVars, histVars, NoSweep, Harmed
<1> QED BY <1>2, <1>3, <1>4, <1>5 DEF SlotInv

LEMMA ToggleDinDSlot ==
  ASSUME SlotInv, ToggleDinD
  PROVE  SlotInv'
<1>1. SlotTypes /\ SlotClean /\ SlotLogs /\ SlotRuns
  BY DEF SlotInv
<1>2. SlotTypes'
  BY <1>1, CycleNumbers DEF ToggleDinD, SlotTypes, diskVars, dindVars, storeVars, histVars
<1>3. SlotClean'
  BY <1>1 DEF ToggleDinD, SlotClean, Wiped, diskVars, dindVars, histVars
<1>4. SlotLogs'
  BY <1>1, CycleNumbers DEF ToggleDinD, SlotTypes, SlotLogs, LogOfItsJob, diskVars, storeVars, histVars
<1>5. SlotRuns'
  BY <1>1, <1>2, CycleNumbers, OldestIsListed DEF ToggleDinD, SlotTypes, SlotRuns, RunIsRecorded, StoreAgrees, diskVars, storeVars, histVars
<1> QED BY <1>2, <1>3, <1>4, <1>5 DEF SlotInv

LEMMA SlotInvHolds == SlotSpec => []SlotInv
<1>1. SlotInv /\ UNCHANGED slotVars => SlotInv'
  BY DEF SlotInv, SlotTypes, SlotClean, SlotLogs, SlotRuns, LogOfItsJob, RunIsRecorded, StoreAgrees, Wiped,
     slotVars, diskVars, dindVars, storeVars, histVars
<1>2. SlotInv /\ SlotNext => SlotInv'
  BY StartCycleSlot, ResetDirSlot, PreparedSlot, StartDaemonSlot, WaitSocketSlot, SeedBuilderSlot, JobRunsSlot,
     JobEndsSlot, StopDaemonSlot, FindLogSlot, CopyLogSlot, WriteSidecarSlot, BeginPruneSlot, PruneRunSlot,
     RemoveEmptyDirsSlot, KillUnitSlot, KillPruneSlot, ToggleDinDSlot
     DEF SlotNext
<1> QED BY <1>1, <1>2, SlotInitInv, PTL DEF SlotSpec

\* A job starts on nothing of an earlier job, with a daemon and a builder of its
\* own, and nothing earlier cycles left keeps it from starting: for any number of
\* cycles, failed steps, kills and changes of the setting (RunJob,
\* unmountStaleSlotMounts, startRootlessDocker, seedRootlessBuilder).
THEOREM JobsStartAnew == SlotSpec => []EachJobAnew
<1>1. SlotInv => EachJobAnew
  BY DEF SlotInv, SlotClean, EachJobAnew, CleanSlate, StaleMountsYield, SlotTypes, Wiped, Dirs
<1> QED BY <1>1, SlotInvHolds, PTL

\* The log kept for a run is its own job's, and the store lists what joblog.Write
\* has returned for, whatever a prune is doing beside it (captureJobLog,
\* joblog.Write, joblog.Prune).
THEOREM StoreTellsTheTruth == SlotSpec => []LogsAgree
<1>1. SlotInv => LogsAgree
  BY DEF SlotInv, SlotLogs, SlotRuns, LogsAgree
<1> QED BY <1>1, SlotInvHolds, PTL

-----------------------------------------------------------------------------
(* The slots of an org's lanes: the inductive invariant.                   *)

OrderRecs ==
  [at : {"idle", "list", "remove", "wipe", "params", "enable"}, kind : {"none", "create", "destroy", "recreate"},
   count : 0..2, left : SUBSET Slots, slot : 0..MaxSlot, with : Params \cup {Unset},
   made : SUBSET Slots, before : SUBSET Slots, met : BOOLEAN]

LaneTypes ==
  /\ lanes \subseteq Slots /\ lost \subseteq Slots
  /\ params \in [Slots -> Params \cup {Unset}] /\ wanted \in [Slots -> Params \cup {Unset}]
  /\ order \in [Callers -> OrderRecs]

\* What a command holds at each of its steps.
OrderShapes ==
  \A c \in Callers : LET o == order[c] IN
    /\ o.at \notin {"idle", "list"} => o.slot \in Slots
    /\ o.at = "idle" => o.kind \in {"none", "create"}
    /\ o.at # "idle" => o.kind # "none"
    /\ o.at = "list" => o.kind = "create"
    /\ o.at = "wipe" => o.kind # "create" /\ o.left = {}
    /\ o.at \in {"params", "enable"} => o.slot \in o.left
    /\ o.at = "remove" /\ o.kind = "create" => o.slot \in o.left
    /\ o.kind = "destroy" => o.left = {}
    /\ o.kind = "recreate" => o.left \subseteq {o.slot}
    /\ o.kind = "create" => o.count \in 1..2

\* A command that met no other runs alone, and so does a create that has returned.
RunsAlone ==
  \A c, d \in Callers :
    (order[c].at # "idle" \/ order[c].kind = "create") /\ ~order[c].met /\ d # c => order[d].at = "idle"

\* The slots a create has taken: what it has made and what is left to make.
Takes(o) == o.made \cup o.left

CreateHolds ==
  \A c \in Callers : LET o == order[c] IN
    (o.kind = "create" /\ ~o.met) =>
      /\ o.at = "list" => lanes = o.before /\ o.made = {}
      /\ o.at # "list" =>
           /\ Cardinality(Takes(o)) = o.count /\ Takes(o) \cap o.before = {} /\ o.made \cap o.left = {}
           /\ o.before \cup o.made \subseteq lanes
           /\ \A s \in Takes(o) : 1..s \subseteq o.before \cup Takes(o)
           /\ o.at = "idle" => o.left = {}
           /\ o.at # "idle" => o.slot \in o.left

Rebuilding(o) ==
  \/ o.at \in {"params", "enable"}
  \/ o.at = "remove" /\ o.kind = "recreate" /\ o.slot \in o.left

ParamsHold ==
  /\ \A s \in Slots \ lost : params[s] = wanted[s] \/ \E c \in Callers : Rebuilding(order[c]) /\ order[c].slot = s
  /\ \A c \in Callers : LET o == order[c] IN
       /\ (Rebuilding(o) \/ o.at = "wipe") /\ o.slot \in lanes => o.slot \in lost
       /\ o.at = "enable" /\ ~o.met => params[o.slot] = o.with
       /\ o.kind = "recreate" /\ ~o.met /\ o.slot \notin lost => o.with = wanted[o.slot]

LaneInv == LaneTypes /\ OrderShapes /\ RunsAlone /\ CreateHolds /\ ParamsHold

-----------------------------------------------------------------------------
(* The numbers a create takes                                              *)

\* There is a set of the lowest n numbers of any that has so many, for the one or
\* two lanes a create asks for here.
LEMMA LowestExist ==
  ASSUME NEW F \in SUBSET Slots, NEW n \in 1..2, Cardinality(F) >= n
  PROVE  \E S \in SUBSET F : Cardinality(S) = n /\ \A s \in S, f \in F : f < s => f \in S
<1>1. IsFiniteSet(F) /\ F \subseteq Nat
  <2>1. IsFiniteSet(1..MaxSlot)
    BY LaneSlotsConstants, FS_Interval
  <2>2. IsFiniteSet(F)
    BY <2>1, FS_Subset DEF Slots
  <2> QED BY <2>2, LaneSlotsConstants DEF Slots
<1>2. F # {}
  BY <1>1, FS_EmptySet
<1>3. PICK x \in F : \A y \in F : x <= y
  BY <1>1, <1>2, LeastNumber
<1>4. Cardinality({x}) = 1
  BY FS_Singleton
<1>5. CASE n = 1
  BY <1>1, <1>3, <1>4, <1>5
<1>6. CASE n = 2
  <2>1. Cardinality(F \ {x}) = Cardinality(F) - 1 /\ IsFiniteSet(F \ {x})
    BY <1>1, <1>3, FS_RemoveElement
  <2>2. Cardinality(F) \in Nat
    BY <1>1, FS_CardinalityType
  <2>3. F \ {x} # {}
    BY <1>6, <2>1, <2>2, FS_EmptySet
  <2>4. PICK z \in F \ {x} : \A y \in F \ {x} : z <= y
    BY <1>1, <2>3, LeastNumber
  <2>5. Cardinality({x} \cup {z}) = 2
    <3>1. IsFiniteSet({x}) /\ z \notin {x}
      BY <2>4, FS_Singleton
    <3>2. Cardinality({x} \cup {z}) = Cardinality({x}) + 1
      BY <3>1, FS_AddElement
    <3> QED BY <1>4, <3>2
  <2>6. \A s \in {x} \cup {z}, f \in F : f < s => f \in {x} \cup {z}
    BY <1>1, <1>3, <2>4
  <2> QED BY <1>3, <1>6, <2>4, <2>5, <2>6
<1> QED BY <1>5, <1>6

LEMMA LowestAreTaken ==
  ASSUME NEW L \in SUBSET Slots, NEW n \in 1..2, Cardinality(Slots \ L) >= n
  PROVE  /\ Alloc(L, n) \subseteq Slots \ L /\ Cardinality(Alloc(L, n)) = n
         /\ \A s \in Alloc(L, n), f \in Slots \ L : f < s => f \in Alloc(L, n)
<1>1. \E S \in SUBSET (Slots \ L) : Cardinality(S) = n /\ \A s \in S, f \in Slots \ L : f < s => f \in S
  BY LowestExist
<1> QED BY <1>1 DEF Alloc

LEMMA LeastIsTaken ==
  ASSUME NEW S \in SUBSET Slots, S # {}
  PROVE  Min(S) \in S
<1>1. S \subseteq Nat
  BY LaneSlotsConstants DEF Slots
<1>2. \E x \in S : \A y \in S : x <= y
  BY <1>1, LeastNumber
<1> QED BY <1>2 DEF Min

-----------------------------------------------------------------------------
(* Steps of a command                                                      *)

\* A step that proceeds changes its own command only.
LEMMA ProceedsAlone ==
  ASSUME LaneTypes, NEW c \in Callers, NEW r \in OrderRecs, order' = [order EXCEPT ![c] = r]
  PROVE  /\ order' \in [Callers -> OrderRecs] /\ order'[c] = r
         /\ \A d \in Callers : d # c => order'[d] = order[d]
BY DEF LaneTypes

\* One that starts tells the others that they have met it.
LEMMA StartsMeet ==
  ASSUME LaneTypes, NEW c \in Callers, NEW r \in OrderRecs, Start(c, r)
  PROVE  /\ order' \in [Callers -> OrderRecs]
         /\ order[c].at = "idle"
         /\ order'[c] = [r EXCEPT !.met = Running # {}, !.before = lanes]
         /\ \A d \in Callers : d # c => order'[d] = [order[d] EXCEPT !.met = TRUE]
         /\ (Running = {}) <=> \A d \in Callers : order[d].at = "idle"
<1>1. [r EXCEPT !.met = Running # {}, !.before = lanes] \in OrderRecs
  BY DEF LaneTypes, OrderRecs
<1>2. \A d \in Callers : [order[d] EXCEPT !.met = TRUE] \in OrderRecs
  BY DEF LaneTypes, OrderRecs
<1>3. order' = [x \in Callers |-> IF x = c THEN [r EXCEPT !.met = Running # {}, !.before = lanes]
                                  ELSE [order[x] EXCEPT !.met = TRUE]]
  BY DEF Start
<1>4. order' \in [Callers -> OrderRecs]
  BY <1>1, <1>2, <1>3
<1>5. order'[c] = [r EXCEPT !.met = Running # {}, !.before = lanes]
  BY <1>3
<1>6. \A d \in Callers : d # c => order'[d] = [order[d] EXCEPT !.met = TRUE]
  BY <1>3
<1> QED BY <1>4, <1>5, <1>6 DEF Start, Running

LEMMA NoOrderType == NoOrder \in OrderRecs
BY LaneSlotsConstants DEF NoOrder, OrderRecs

LEMMA BeginCreateLanesKept ==
  ASSUME LaneInv, NEW c \in Callers, BeginCreateLanes(c)
  PROVE  LaneInv'
<1>1. PICK n \in 1..2, p \in Params :
        Start(c, [NoOrder EXCEPT !.at = "list", !.kind = "create", !.count = n, !.with = p])
  BY DEF BeginCreateLanes
<1> DEFINE r == [NoOrder EXCEPT !.at = "list", !.kind = "create", !.count = n, !.with = p]
<1>2. r \in OrderRecs
  <2>1. n \in 0..2 /\ p \in Params \cup {Unset}
    OBVIOUS
  <2> QED BY <2>1, NoOrderType DEF OrderRecs
<1>3. LaneTypes /\ OrderShapes /\ RunsAlone /\ CreateHolds /\ ParamsHold
  BY DEF LaneInv
<1>4. UNCHANGED <<lanes, params, wanted, lost>>
  BY DEF BeginCreateLanes
<1>5. /\ order' \in [Callers -> OrderRecs] /\ order[c].at = "idle"
      /\ order'[c] = [r EXCEPT !.met = Running # {}, !.before = lanes]
      /\ \A d \in Callers : d # c => order'[d] = [order[d] EXCEPT !.met = TRUE]
      /\ (Running = {}) <=> \A d \in Callers : order[d].at = "idle"
  BY <1>1, <1>2, <1>3, StartsMeet
<1>6. /\ order'[c].at = "list" /\ order'[c].kind = "create" /\ order'[c].count = n /\ order'[c].left = {}
      /\ order'[c].slot = 0 /\ order'[c].made = {} /\ order'[c].before = lanes /\ order'[c].met = (Running # {})
  BY <1>5 DEF NoOrder
<1>7. \A d \in Callers : d # c => order[d] \in OrderRecs
        /\ order'[d].at = order[d].at /\ order'[d].kind = order[d].kind /\ order'[d].count = order[d].count
        /\ order'[d].left = order[d].left /\ order'[d].slot = order[d].slot /\ order'[d].met = TRUE
  BY <1>3, <1>5 DEF LaneTypes, OrderRecs
<1> HIDE DEF r
<1>8. LaneTypes'
  BY <1>3, <1>4, <1>5 DEF LaneTypes
<1>9. OrderShapes'
  BY <1>3, <1>6, <1>7 DEF OrderShapes
<1>10. RunsAlone'
  BY <1>5, <1>6, <1>7 DEF RunsAlone
<1>11. CreateHolds'
  BY <1>4, <1>6, <1>7 DEF CreateHolds, Takes
<1>12. ParamsHold'
  <2>1. \A s \in Slots \ lost : params[s] = wanted[s] \/ \E d \in Callers : Rebuilding(order'[d]) /\ order'[d].slot = s
    BY <1>3, <1>5, <1>7 DEF ParamsHold, Rebuilding
  <2>2. \A d \in Callers : (Rebuilding(order'[d]) \/ order'[d].at = "wipe") /\ order'[d].slot \in lanes => order'[d].slot \in lost
    BY <1>3, <1>6, <1>7 DEF ParamsHold, Rebuilding
  <2> QED BY <1>4, <1>6, <1>7, <2>1, <2>2 DEF ParamsHold, Rebuilding
<1> QED BY <1>8, <1>9, <1>10, <1>11, <1>12 DEF LaneInv

LEMMA BeginOnLaneKept ==
  ASSUME LaneInv, NEW c \in Callers, BeginOnLane(c)
  PROVE  LaneInv'
<1>1. PICK s \in Slots, k \in {"destroy", "recreate"} :
        /\ wanted[s] # Unset
        /\ Start(c, [NoOrder EXCEPT !.at = "remove", !.kind = k, !.slot = s,
                       !.with = IF params[s] = Unset THEN DefaultParam ELSE params[s]])
  BY DEF BeginOnLane
<1> DEFINE p == IF params[s] = Unset THEN DefaultParam ELSE params[s]
<1> DEFINE r == [NoOrder EXCEPT !.at = "remove", !.kind = k, !.slot = s, !.with = p]
<1>3. LaneTypes /\ OrderShapes /\ RunsAlone /\ CreateHolds /\ ParamsHold
  BY DEF LaneInv
<1>0. s \in 0..MaxSlot /\ s # 0
  BY LaneSlotsConstants DEF Slots
<1>2. r \in OrderRecs
  <2>1. p \in Params \cup {Unset}
    BY <1>3, LaneSlotsConstants DEF LaneTypes
  <2> HIDE DEF p
  <2> QED BY <1>0, <2>1, NoOrderType DEF OrderRecs
<1>4. UNCHANGED <<lanes, params, wanted, lost>>
  BY DEF BeginOnLane
<1>5. /\ order' \in [Callers -> OrderRecs] /\ order[c].at = "idle"
      /\ order'[c] = [r EXCEPT !.met = Running # {}, !.before = lanes]
      /\ \A d \in Callers : d # c => order'[d] = [order[d] EXCEPT !.met = TRUE]
      /\ (Running = {}) <=> \A d \in Callers : order[d].at = "idle"
  BY <1>1, <1>2, <1>3, StartsMeet
<1>6. /\ order'[c].at = "remove" /\ order'[c].kind = k /\ order'[c].left = {}
      /\ order'[c].slot = s /\ order'[c].with = p /\ order'[c].met = (Running # {})
  BY <1>5 DEF NoOrder
<1>7. \A d \in Callers : d # c => order[d] \in OrderRecs
        /\ order'[d].at = order[d].at /\ order'[d].kind = order[d].kind /\ order'[d].count = order[d].count
        /\ order'[d].left = order[d].left /\ order'[d].slot = order[d].slot /\ order'[d].met = TRUE
  BY <1>3, <1>5 DEF LaneTypes, OrderRecs
<1> HIDE DEF r
<1>8. LaneTypes'
  BY <1>3, <1>4, <1>5 DEF LaneTypes
<1>9. OrderShapes'
  BY <1>0, <1>3, <1>6, <1>7 DEF OrderShapes
<1>10. RunsAlone'
  BY <1>5, <1>6, <1>7 DEF RunsAlone
<1>11. CreateHolds'
  BY <1>4, <1>6, <1>7 DEF CreateHolds, Takes
<1>12. ParamsHold'
  <2>1. \A x \in Slots \ lost : params[x] = wanted[x] \/ \E d \in Callers : Rebuilding(order'[d]) /\ order'[d].slot = x
    BY <1>3, <1>5, <1>7 DEF ParamsHold, Rebuilding
  <2>2. \A d \in Callers : (Rebuilding(order'[d]) \/ order'[d].at = "wipe") /\ order'[d].slot \in lanes => order'[d].slot \in lost
    BY <1>3, <1>6, <1>7 DEF ParamsHold, Rebuilding
  <2>3. ~order'[c].met /\ s \notin lost => p = wanted[s]
    <3> SUFFICES ASSUME ~order'[c].met, s \notin lost PROVE p = wanted[s]
      OBVIOUS
    <3>1. \A d \in Callers : ~Rebuilding(order[d])
      BY <1>5, <1>6 DEF Rebuilding
    <3>2. params[s] = wanted[s]
      BY <1>3, <3>1 DEF ParamsHold
    <3> QED BY <1>1, <3>2
  <2> HIDE DEF p
  <2> QED BY <1>4, <1>6, <1>7, <2>1, <2>2, <2>3 DEF ParamsHold
<1> QED BY <1>8, <1>9, <1>10, <1>11, <1>12 DEF LaneInv


LEMMA ListLanesKept ==
  ASSUME LaneInv, NEW c \in Callers, ListLanes(c)
  PROVE  LaneInv'
<1> DEFINE o == order[c]
           S == Alloc(lanes, o.count)
           r == [Reach(c, "remove") EXCEPT !.left = S, !.slot = Min(S)]
<1>1. LaneTypes /\ OrderShapes /\ RunsAlone /\ CreateHolds /\ ParamsHold
  BY DEF LaneInv
<1>2. o \in OrderRecs /\ o.at = "list" /\ o.kind = "create" /\ o.count \in 1..2 /\ Cardinality(Slots \ lanes) >= o.count
  BY <1>1 DEF LaneTypes, OrderShapes, ListLanes
<1>3. /\ S \subseteq Slots \ lanes /\ Cardinality(S) = o.count
      /\ \A s \in S, f \in Slots \ lanes : f < s => f \in S
  <2>1. lanes \in SUBSET Slots
    BY <1>1 DEF LaneTypes
  <2> QED BY <1>2, <2>1, LowestAreTaken
<1>4. order' = [order EXCEPT ![c] = r] /\ UNCHANGED <<lanes, params, wanted, lost>>
  BY DEF ListLanes, Proceed
<1> HIDE DEF S
<1>5. Min(S) \in S /\ Min(S) \in Slots /\ Min(S) \in 0..MaxSlot
  <2>1. S # {}
    BY <1>2, <1>3, FS_EmptySet
  <2>2. Min(S) \in S
    BY <1>3, <2>1, LeastIsTaken
  <2>3. Min(S) \in Slots
    BY <1>3, <2>2
  <2> QED BY <2>2, <2>3, LaneSlotsConstants DEF Slots
<1>6. r \in OrderRecs
  BY <1>2, <1>3, <1>5 DEF OrderRecs, Reach
<1>7. /\ r.at = "remove" /\ r.left = S /\ r.slot = Min(S) /\ r.kind = "create" /\ r.count = o.count
      /\ r.made = o.made /\ r.before = o.before /\ r.met = o.met
  BY <1>2 DEF Reach, OrderRecs
<1> HIDE DEF r
<1>8. order' \in [Callers -> OrderRecs] /\ order'[c] = r /\ \A d \in Callers : d # c => order'[d] = order[d]
  BY <1>1, <1>4, <1>6, ProceedsAlone
<1>9. LaneTypes'
  BY <1>1, <1>4, <1>8 DEF LaneTypes
<1>10. OrderShapes'
  BY <1>1, <1>2, <1>5, <1>7, <1>8 DEF OrderShapes
<1>11. RunsAlone'
  BY <1>1, <1>2, <1>7, <1>8 DEF RunsAlone
<1>12. CreateHolds'
  <2> SUFFICES ASSUME NEW d \in Callers, order'[d].kind = "create", ~order'[d].met
               PROVE  LET q == order'[d] IN
      /\ q.at = "list" => lanes' = q.before /\ q.made = {}
      /\ q.at # "list" =>
           /\ Cardinality(Takes(q)) = q.count /\ Takes(q) \cap q.before = {} /\ q.made \cap q.left = {}
           /\ q.before \cup q.made \subseteq lanes'
           /\ \A s \in Takes(q) : 1..s \subseteq q.before \cup Takes(q)
           /\ q.at = "idle" => q.left = {}
           /\ q.at # "idle" => q.slot \in q.left
    BY DEF CreateHolds
  <2>1. d = c /\ ~o.met
    BY <1>1, <1>2, <1>7, <1>8 DEF RunsAlone
  <2>2. o.made = {} /\ o.before = lanes
    BY <1>1, <1>2, <2>1 DEF CreateHolds
  <2>3. \A s \in S : 1..s \subseteq lanes \cup S
    <3> TAKE s \in S
    <3> SUFFICES ASSUME NEW f \in 1..s, f \notin lanes PROVE f \in S
      OBVIOUS
    <3>1. s \in 1..MaxSlot /\ MaxSlot \in Nat
      BY <1>3, LaneSlotsConstants DEF Slots
    <3>2. f \in Slots /\ (f < s \/ f = s)
      BY <3>1 DEF Slots
    <3> QED BY <1>3, <3>2
  <2>4. Takes(r) = S
    BY <1>7, <2>2 DEF Takes
  <2> QED BY <1>3, <1>4, <1>5, <1>7, <1>8, <2>1, <2>2, <2>3, <2>4
<1>13. ParamsHold'
  <2>1. \A d \in Callers : (Rebuilding(order'[d]) <=> Rebuilding(order[d])) /\ (Rebuilding(order[d]) => order'[d] = order[d])
    BY <1>2, <1>7, <1>8 DEF Rebuilding
  <2>2. \A s \in Slots \ lost : params[s] = wanted[s] \/ \E d \in Callers : Rebuilding(order'[d]) /\ order'[d].slot = s
    BY <1>1, <2>1 DEF ParamsHold
  <2> QED BY <1>1, <1>4, <1>7, <1>8, <2>1, <2>2 DEF ParamsHold
<1> QED BY <1>9, <1>10, <1>11, <1>12, <1>13 DEF LaneInv

LEMMA RemoveLaneKept ==
  ASSUME LaneInv, NEW c \in Callers, RemoveLane(c)
  PROVE  LaneInv'
<1> DEFINE o == order[c]
           to == IF o.kind = "create" \/ o.slot \in o.left THEN "params" ELSE "wipe"
           r == Reach(c, to)
<1>1. LaneTypes /\ OrderShapes /\ RunsAlone /\ CreateHolds /\ ParamsHold
  BY DEF LaneInv
<1>2. o \in OrderRecs /\ o.at = "remove" /\ o.slot \in Slots
  BY <1>1 DEF LaneTypes, OrderShapes, RemoveLane
<1>4. order' = [order EXCEPT ![c] = r] /\ lanes' = lanes \ {o.slot} /\ UNCHANGED <<params, wanted, lost>>
  BY DEF RemoveLane, Proceed
<1>5. to \in {"params", "wipe"}
  OBVIOUS
<1>6. r \in OrderRecs
  BY <1>2, <1>5 DEF OrderRecs, Reach
<1>7. /\ r.at = to /\ r.left = o.left /\ r.slot = o.slot /\ r.kind = o.kind /\ r.count = o.count
      /\ r.made = o.made /\ r.before = o.before /\ r.met = o.met /\ r.with = o.with
  BY <1>2 DEF Reach, OrderRecs
<1> HIDE DEF r
<1>8. order' \in [Callers -> OrderRecs] /\ order'[c] = r /\ \A d \in Callers : d # c => order'[d] = order[d]
  BY <1>1, <1>4, <1>6, ProceedsAlone
<1>9. LaneTypes'
  BY <1>1, <1>4, <1>8 DEF LaneTypes
<1>3. o.kind \in {"create", "destroy", "recreate"} /\ (o.kind = "create" => o.slot \in o.left)
      /\ (o.kind = "recreate" => o.left \subseteq {o.slot}) /\ (o.kind = "destroy" => o.left = {})
  BY <1>1, <1>2 DEF OrderShapes, OrderRecs
<1>10. OrderShapes'
  BY <1>1, <1>2, <1>3, <1>7, <1>8 DEF OrderShapes
<1>11. RunsAlone'
  BY <1>1, <1>2, <1>5, <1>7, <1>8 DEF RunsAlone
<1>12. CreateHolds'
  <2> SUFFICES ASSUME NEW d \in Callers, order'[d].kind = "create", ~order'[d].met
               PROVE  LET q == order'[d] IN
      /\ q.at = "list" => lanes' = q.before /\ q.made = {}
      /\ q.at # "list" =>
           /\ Cardinality(Takes(q)) = q.count /\ Takes(q) \cap q.before = {} /\ q.made \cap q.left = {}
           /\ q.before \cup q.made \subseteq lanes'
           /\ \A s \in Takes(q) : 1..s \subseteq q.before \cup Takes(q)
           /\ q.at = "idle" => q.left = {}
           /\ q.at # "idle" => q.slot \in q.left
    BY DEF CreateHolds
  <2>1. d = c
    BY <1>1, <1>2, <1>8 DEF RunsAlone
  <2>2. /\ Cardinality(Takes(o)) = o.count /\ Takes(o) \cap o.before = {} /\ o.made \cap o.left = {}
        /\ o.before \cup o.made \subseteq lanes
        /\ \A s \in Takes(o) : 1..s \subseteq o.before \cup Takes(o)
        /\ o.slot \in o.left
    BY <1>1, <1>2, <1>7, <1>8, <2>1 DEF CreateHolds
  <2>3. Takes(r) = Takes(o)
    BY <1>7 DEF Takes
  <2> QED BY <1>4, <1>5, <1>7, <1>8, <2>1, <2>2, <2>3 DEF Takes
<1>13. ParamsHold'
  <2>1. \A d \in Callers : Rebuilding(order[d]) => Rebuilding(order'[d]) /\ order'[d].slot = order[d].slot
    BY <1>2, <1>3, <1>7, <1>8 DEF Rebuilding
  <2>2. \A s \in Slots \ lost : params[s] = wanted[s] \/ \E d \in Callers : Rebuilding(order'[d]) /\ order'[d].slot = s
    BY <1>1, <2>1 DEF ParamsHold
  <2>3. \A d \in Callers : (Rebuilding(order'[d]) \/ order'[d].at = "wipe") /\ order'[d].slot \in lanes' => order'[d].slot \in lost
    BY <1>1, <1>4, <1>7, <1>8 DEF ParamsHold
  <2> QED BY <1>1, <1>4, <1>5, <1>7, <1>8, <2>2, <2>3 DEF ParamsHold
<1> QED BY <1>9, <1>10, <1>11, <1>12, <1>13 DEF LaneInv

LEMMA WipeParamsKept ==
  ASSUME LaneInv, NEW c \in Callers, WipeParams(c)
  PROVE  LaneInv'
<1> DEFINE o == order[c]
           r == IF o.kind = "destroy" THEN NoOrder ELSE [Reach(c, "remove") EXCEPT !.left = {o.slot}]
<1>1. LaneTypes /\ OrderShapes /\ RunsAlone /\ CreateHolds /\ ParamsHold
  BY DEF LaneInv
<1>2. o \in OrderRecs /\ o.at = "wipe" /\ o.slot \in Slots /\ o.kind \in {"destroy", "recreate"}
  BY <1>1 DEF LaneTypes, OrderShapes, WipeParams, OrderRecs
<1>4. /\ order' = [order EXCEPT ![c] = r] /\ params' = [params EXCEPT ![o.slot] = Unset] /\ UNCHANGED <<lanes, wanted>>
      /\ lost' = IF o.kind = "destroy" THEN lost \cup {o.slot} ELSE lost
  BY DEF WipeParams, Proceed
<1>6. r \in OrderRecs
  BY <1>2, NoOrderType DEF OrderRecs, Reach
<1>7. /\ o.kind = "destroy" => r.at = "idle" /\ r.kind = "none" /\ r.left = {}
      /\ o.kind = "recreate" => /\ r.at = "remove" /\ r.left = {o.slot} /\ r.slot = o.slot /\ r.kind = o.kind
                                /\ r.with = o.with /\ r.met = o.met
  BY <1>2 DEF Reach, OrderRecs, NoOrder
<1> HIDE DEF r
<1>8. order' \in [Callers -> OrderRecs] /\ order'[c] = r /\ \A d \in Callers : d # c => order'[d] = order[d]
  BY <1>1, <1>4, <1>6, ProceedsAlone
<1>9. LaneTypes'
  BY <1>1, <1>2, <1>4, <1>8 DEF LaneTypes
<1>10. OrderShapes'
  BY <1>1, <1>2, <1>7, <1>8 DEF OrderShapes
<1>11. RunsAlone'
  BY <1>1, <1>2, <1>7, <1>8 DEF RunsAlone
<1>12. CreateHolds'
  BY <1>1, <1>2, <1>4, <1>7, <1>8 DEF CreateHolds
<1>13. ParamsHold'
  <2>1. \A d \in Callers : Rebuilding(order[d]) => Rebuilding(order'[d]) /\ order'[d].slot = order[d].slot
    BY <1>2, <1>7, <1>8 DEF Rebuilding
  <2>2. o.slot \in lost' \/ (Rebuilding(order'[c]) /\ order'[c].slot = o.slot)
    BY <1>2, <1>4, <1>7, <1>8 DEF Rebuilding
  <2>3. \A s \in Slots : s # o.slot => params'[s] = params[s]
    BY <1>1, <1>4 DEF LaneTypes
  <2>4. \A s \in Slots \ lost' : params'[s] = wanted[s] \/ \E d \in Callers : Rebuilding(order'[d]) /\ order'[d].slot = s
    BY <1>1, <1>4, <2>1, <2>2, <2>3 DEF ParamsHold
  <2>5. \A d \in Callers : (Rebuilding(order'[d]) \/ order'[d].at = "wipe") /\ order'[d].slot \in lanes => order'[d].slot \in lost'
    BY <1>1, <1>2, <1>4, <1>7, <1>8 DEF ParamsHold, Rebuilding
  <2>6. \A d \in Callers : order'[d].at = "enable" /\ ~order'[d].met => params'[order'[d].slot] = order'[d].with
    BY <1>1, <1>2, <1>7, <1>8 DEF RunsAlone
  <2>7. \A d \in Callers : order'[d].kind = "recreate" /\ ~order'[d].met /\ order'[d].slot \notin lost' => order'[d].with = wanted[order'[d].slot]
    BY <1>1, <1>2, <1>4, <1>7, <1>8 DEF ParamsHold
  <2> QED BY <1>4, <2>4, <2>5, <2>6, <2>7 DEF ParamsHold
<1> QED BY <1>9, <1>10, <1>11, <1>12, <1>13 DEF LaneInv

LEMMA WriteParamsKept ==
  ASSUME LaneInv, NEW c \in Callers, WriteParams(c)
  PROVE  LaneInv'
<1> DEFINE o == order[c]
           r == Reach(c, "enable")
<1>1. LaneTypes /\ OrderShapes /\ RunsAlone /\ CreateHolds /\ ParamsHold
  BY DEF LaneInv
<1>2. o \in OrderRecs /\ o.at = "params" /\ o.slot \in Slots
  BY <1>1 DEF LaneTypes, OrderShapes, WriteParams
<1>4. order' = [order EXCEPT ![c] = r] /\ params' = [params EXCEPT ![o.slot] = o.with] /\ UNCHANGED <<lanes, wanted, lost>>
  BY DEF WriteParams, Proceed
<1>6. r \in OrderRecs
  BY <1>2 DEF OrderRecs, Reach
<1>7. /\ r.at = "enable" /\ r.left = o.left /\ r.slot = o.slot /\ r.kind = o.kind /\ r.count = o.count
      /\ r.made = o.made /\ r.before = o.before /\ r.met = o.met /\ r.with = o.with
  BY <1>2 DEF Reach, OrderRecs
<1> HIDE DEF r
<1>8. order' \in [Callers -> OrderRecs] /\ order'[c] = r /\ \A d \in Callers : d # c => order'[d] = order[d]
  BY <1>1, <1>4, <1>6, ProceedsAlone
<1>5. params' \in [Slots -> Params \cup {Unset}] /\ params'[o.slot] = o.with
      /\ \A s \in Slots : s # o.slot => params'[s] = params[s]
  <2>1. o.with \in Params \cup {Unset}
    BY <1>2 DEF OrderRecs
  <2> QED BY <1>1, <1>2, <1>4, <2>1 DEF LaneTypes
<1>9. LaneTypes'
  BY <1>1, <1>4, <1>5, <1>8 DEF LaneTypes
<1>10. OrderShapes'
  BY <1>1, <1>2, <1>7, <1>8 DEF OrderShapes
<1>11. RunsAlone'
  BY <1>1, <1>2, <1>7, <1>8 DEF RunsAlone
<1>12. CreateHolds'
  <2>1. Takes(r) = Takes(o)
    BY <1>7 DEF Takes
  <2> QED BY <1>1, <1>2, <1>4, <1>7, <1>8, <2>1 DEF CreateHolds
<1>13. ParamsHold'
  <2>1. \A d \in Callers : (Rebuilding(order'[d]) <=> Rebuilding(order[d])) /\ order'[d].slot = order[d].slot
    BY <1>2, <1>7, <1>8 DEF Rebuilding
  <2>2. Rebuilding(order[c])
    BY <1>2 DEF Rebuilding
  <2>3. \A s \in Slots \ lost : params'[s] = wanted[s] \/ \E d \in Callers : Rebuilding(order'[d]) /\ order'[d].slot = s
    BY <1>1, <1>5, <2>1, <2>2 DEF ParamsHold
  <2>4. \A d \in Callers : (Rebuilding(order'[d]) \/ order'[d].at = "wipe") /\ order'[d].slot \in lanes => order'[d].slot \in lost
    BY <1>1, <1>2, <1>7, <1>8, <2>1 DEF ParamsHold
  <2>5. \A d \in Callers : order'[d].at = "enable" /\ ~order'[d].met => params'[order'[d].slot] = order'[d].with
    BY <1>1, <1>2, <1>5, <1>7, <1>8 DEF RunsAlone
  <2>6. \A d \in Callers : order'[d].kind = "recreate" /\ ~order'[d].met /\ order'[d].slot \notin lost => order'[d].with = wanted[order'[d].slot]
    BY <1>1, <1>7, <1>8 DEF ParamsHold
  <2> QED BY <1>4, <2>3, <2>4, <2>5, <2>6 DEF ParamsHold
<1> QED BY <1>9, <1>10, <1>11, <1>12, <1>13 DEF LaneInv

LEMMA EnableLaneKept ==
  ASSUME LaneInv, NEW c \in Callers, EnableLane(c)
  PROVE  LaneInv'
<1> DEFINE o == order[c]
           rest == o.left \ {o.slot}
           done == [o EXCEPT !.made = @ \cup {o.slot}, !.left = rest]
           r == IF rest = {} THEN (IF o.kind = "create" THEN [done EXCEPT !.at = "idle"] ELSE NoOrder)
                ELSE [done EXCEPT !.at = "remove", !.slot = Min(rest)]
<1>1. LaneTypes /\ OrderShapes /\ RunsAlone /\ CreateHolds /\ ParamsHold
  BY DEF LaneInv
<1>2. /\ o \in OrderRecs /\ o.at = "enable" /\ o.slot \in Slots /\ o.slot \in o.left
      /\ o.kind \in {"create", "recreate"} /\ (o.kind = "recreate" => rest = {})
      /\ (o.kind = "create" => o.count \in 1..2)
  BY <1>1 DEF LaneTypes, OrderShapes, EnableLane, OrderRecs
<1>3. Rebuilding(o)
  BY <1>2 DEF Rebuilding
<1>4. /\ order' = [order EXCEPT ![c] = r] /\ lanes' = lanes \cup {o.slot} /\ UNCHANGED params
      /\ wanted' = IF o.kind = "create" THEN [wanted EXCEPT ![o.slot] = o.with] ELSE wanted
      /\ lost' = IF o.met THEN lost \cup {o.slot}
                 ELSE IF o.kind = "create" THEN lost \ {o.slot} ELSE lost
  BY DEF EnableLane, Proceed
<1>5. rest \subseteq Slots /\ (rest # {} => Min(rest) \in rest /\ Min(rest) \in Slots /\ Min(rest) \in 0..MaxSlot)
  <2>1. rest \in SUBSET Slots
    BY <1>2 DEF OrderRecs
  <2> HIDE DEF rest
  <2>2. rest # {} => Min(rest) \in rest
    BY <2>1, LeastIsTaken
  <2>3. rest # {} => Min(rest) \in Slots
    BY <2>1, <2>2
  <2> QED BY <2>1, <2>2, <2>3, LaneSlotsConstants DEF Slots
<1>6. /\ done \in OrderRecs /\ done.kind = o.kind /\ done.count = o.count /\ done.before = o.before /\ done.met = o.met
      /\ done.with = o.with /\ done.slot = o.slot /\ done.at = "enable"
      /\ done.made = o.made \cup {o.slot} /\ done.left = rest
  <2> HIDE DEF rest
  <2> QED BY <1>2, <1>5 DEF OrderRecs
<1> HIDE DEF done
<1>7. /\ r \in OrderRecs
      /\ r.at \in {"idle", "remove"} /\ (r.at = "remove" <=> rest # {}) /\ (r.at = "remove" => r.slot = Min(rest))
      /\ o.kind = "create" => /\ r.kind = "create" /\ r.count = o.count /\ r.before = o.before /\ r.met = o.met
                              /\ r.made = o.made \cup {o.slot} /\ r.left = rest
      /\ o.kind = "recreate" => r.at = "idle" /\ r.kind = "none" /\ r.left = {}
  <2> HIDE DEF rest
  <2>1. CASE rest # {}
    BY <1>2, <1>5, <1>6, <2>1 DEF OrderRecs
  <2>2. CASE rest = {} /\ o.kind = "create"
    BY <1>6, <2>2 DEF OrderRecs
  <2>3. CASE rest = {} /\ o.kind = "recreate"
    BY <2>3, NoOrderType DEF OrderRecs, NoOrder
  <2> QED BY <1>2, <2>1, <2>2, <2>3
<1> HIDE DEF r
<1>8. order' \in [Callers -> OrderRecs] /\ order'[c] = r /\ \A d \in Callers : d # c => order'[d] = order[d]
  BY <1>1, <1>4, <1>7, ProceedsAlone
<1>9. wanted' \in [Slots -> Params \cup {Unset}] /\ (o.kind = "create" => wanted'[o.slot] = o.with)
      /\ (\A s \in Slots : s # o.slot => wanted'[s] = wanted[s]) /\ (o.kind = "recreate" => wanted' = wanted)
  <2>1. o.with \in Params \cup {Unset}
    BY <1>2 DEF OrderRecs
  <2> QED BY <1>1, <1>2, <1>4, <2>1 DEF LaneTypes
<1>10. LaneTypes'
  BY <1>1, <1>2, <1>4, <1>8, <1>9 DEF LaneTypes
<1>11. OrderShapes'
  BY <1>1, <1>2, <1>5, <1>7, <1>8 DEF OrderShapes
<1>12. RunsAlone'
  BY <1>1, <1>2, <1>7, <1>8 DEF RunsAlone
<1>13. CreateHolds'
  <2> SUFFICES ASSUME NEW d \in Callers, order'[d].kind = "create", ~order'[d].met
               PROVE  LET q == order'[d] IN
      /\ q.at = "list" => lanes' = q.before /\ q.made = {}
      /\ q.at # "list" =>
           /\ Cardinality(Takes(q)) = q.count /\ Takes(q) \cap q.before = {} /\ q.made \cap q.left = {}
           /\ q.before \cup q.made \subseteq lanes'
           /\ \A s \in Takes(q) : 1..s \subseteq q.before \cup Takes(q)
           /\ q.at = "idle" => q.left = {}
           /\ q.at # "idle" => q.slot \in q.left
    BY DEF CreateHolds
  <2>1. d = c /\ o.kind = "create" /\ ~o.met
    BY <1>1, <1>2, <1>7, <1>8 DEF RunsAlone
  <2>2. /\ Cardinality(Takes(o)) = o.count /\ Takes(o) \cap o.before = {} /\ o.made \cap o.left = {}
        /\ o.before \cup o.made \subseteq lanes
        /\ \A s \in Takes(o) : 1..s \subseteq o.before \cup Takes(o)
    BY <1>1, <1>2, <2>1 DEF CreateHolds
  <2>3. Takes(r) = Takes(o)
    BY <1>2, <1>7, <2>1 DEF Takes
  <2> QED BY <1>2, <1>4, <1>5, <1>7, <1>8, <2>1, <2>2, <2>3
<1>14. ParamsHold'
  <2>1. \A d \in Callers : d # c => order'[d] = order[d]
    BY <1>8
  <2>2. ~o.met => \A d \in Callers : d # c => order[d].at = "idle"
    BY <1>1, <1>2 DEF RunsAlone
  <2>3. o.slot \in lost' \/ params[o.slot] = wanted'[o.slot]
    <3>1. CASE o.met
      BY <1>4, <3>1
    <3>2. CASE ~o.met /\ o.kind = "create"
      BY <1>1, <1>2, <1>9, <3>2 DEF ParamsHold
    <3>3. CASE ~o.met /\ o.kind = "recreate"
      BY <1>1, <1>2, <1>4, <1>9, <3>3 DEF ParamsHold
    <3> QED BY <1>2, <3>1, <3>2, <3>3
  <2>4. \A s \in Slots \ lost' : params[s] = wanted'[s] \/ \E d \in Callers : Rebuilding(order'[d]) /\ order'[d].slot = s
    <3> SUFFICES ASSUME NEW s \in Slots \ lost', s # o.slot
                 PROVE  params[s] = wanted'[s] \/ \E d \in Callers : Rebuilding(order'[d]) /\ order'[d].slot = s
      BY <2>3
    <3>1. s \notin lost /\ wanted'[s] = wanted[s]
      BY <1>4, <1>9
    <3> QED BY <1>1, <2>1, <3>1 DEF ParamsHold
  <2>5. ~Rebuilding(order'[c]) /\ order'[c].at # "wipe" /\ order'[c].at # "enable" /\ order'[c].kind # "recreate"
    BY <1>2, <1>7, <1>8 DEF Rebuilding
  <2>6. \A d \in Callers : (Rebuilding(order'[d]) \/ order'[d].at = "wipe") /\ order'[d].slot \in lanes' => order'[d].slot \in lost'
    <3> SUFFICES ASSUME NEW d \in Callers, d # c, Rebuilding(order[d]) \/ order[d].at = "wipe", order[d].slot \in lanes'
                 PROVE  order[d].slot \in lost'
      BY <2>1, <2>5
    <3>1. o.met
      BY <2>2 DEF Rebuilding
    <3> QED BY <1>1, <1>4, <3>1 DEF ParamsHold
  <2>7. \A d \in Callers : order'[d].at = "enable" /\ ~order'[d].met => params[order'[d].slot] = order'[d].with
    BY <1>1, <2>1, <2>5 DEF ParamsHold
  <2>8. \A d \in Callers : order'[d].kind = "recreate" /\ ~order'[d].met /\ order'[d].slot \notin lost' => order'[d].with = wanted'[order'[d].slot]
    BY <1>1, <1>2, <2>1, <2>5 DEF RunsAlone, OrderShapes
  <2> QED BY <1>4, <2>4, <2>6, <2>7, <2>8 DEF ParamsHold
<1> QED BY <1>10, <1>11, <1>12, <1>13, <1>14 DEF LaneInv

LEMMA BreakOffKept ==
  ASSUME LaneInv, NEW c \in Callers, BreakOff(c)
  PROVE  LaneInv'
<1> DEFINE o == order[c]
<1>1. LaneTypes /\ OrderShapes /\ RunsAlone /\ CreateHolds /\ ParamsHold
  BY DEF LaneInv
<1>4. /\ order' = [order EXCEPT ![c] = NoOrder] /\ UNCHANGED <<lanes, params, wanted>>
      /\ lost' = lost \cup {s \in {o.slot} \cap Slots : params[s] # wanted[s]}
  BY DEF BreakOff
<1>7. NoOrder.at = "idle" /\ NoOrder.kind = "none" /\ NoOrder.left = {}
  BY DEF NoOrder
<1>8. order' \in [Callers -> OrderRecs] /\ order'[c] = NoOrder /\ \A d \in Callers : d # c => order'[d] = order[d]
  BY <1>1, <1>4, NoOrderType, ProceedsAlone
<1>9. LaneTypes'
  BY <1>1, <1>4, <1>8 DEF LaneTypes
<1>10. OrderShapes'
  BY <1>1, <1>7, <1>8 DEF OrderShapes
<1>11. RunsAlone'
  BY <1>1, <1>7, <1>8 DEF RunsAlone
<1>12. CreateHolds'
  BY <1>1, <1>4, <1>7, <1>8 DEF CreateHolds
<1>13. ParamsHold'
  <2>1. \A s \in Slots \ lost' : params[s] = wanted[s] \/ \E d \in Callers : Rebuilding(order'[d]) /\ order'[d].slot = s
    <3> SUFFICES ASSUME NEW s \in Slots \ lost', params[s] # wanted[s]
                 PROVE  \E d \in Callers : Rebuilding(order'[d]) /\ order'[d].slot = s
      OBVIOUS
    <3>1. s \notin lost /\ s # o.slot
      BY <1>4
    <3> QED BY <1>1, <1>8, <3>1 DEF ParamsHold
  <2>2. ~Rebuilding(order'[c])
    BY <1>7, <1>8 DEF Rebuilding
  <2> QED BY <1>1, <1>4, <1>7, <1>8, <2>1, <2>2 DEF ParamsHold
<1> QED BY <1>9, <1>10, <1>11, <1>12, <1>13 DEF LaneInv

LEMMA LanesInitInv == LanesInit => LaneInv
<1> SUFFICES ASSUME LanesInit PROVE LaneInv
  OBVIOUS
<1>1. \A c \in Callers : order[c] = NoOrder
  BY DEF LanesInit
<1>2. NoOrder.at = "idle" /\ NoOrder.kind = "none" /\ NoOrder.left = {}
  BY DEF NoOrder
<1>3. LaneTypes
  BY NoOrderType DEF LanesInit, LaneTypes
<1> QED BY <1>1, <1>2, <1>3
        DEF LanesInit, LaneInv, OrderShapes, RunsAlone, CreateHolds, ParamsHold, Rebuilding

LEMMA LaneInvHolds == LanesSpec => []LaneInv
<1>1. LaneInv /\ UNCHANGED lanesVars => LaneInv'
  BY DEF LaneInv, LaneTypes, OrderShapes, RunsAlone, CreateHolds, Takes, ParamsHold, Rebuilding, lanesVars
<1>2. LaneInv /\ LanesNext => LaneInv'
  BY BeginCreateLanesKept, BeginOnLaneKept, ListLanesKept, RemoveLaneKept, WipeParamsKept, WriteParamsKept,
     EnableLaneKept, BreakOffKept
     DEF LanesNext
<1> QED BY <1>1, <1>2, LanesInitInv, PTL DEF LanesSpec

\* Whoever creates or recreates lanes keeps those there are: a create beside which
\* no other command runs adds what it was asked for, at the lowest free numbers, and
\* a recreate gives a lane the parameters it was created with; for any number of
\* processes, slots, parameters, commands, failures and kills
\* (CreateEphemeralRunners, RecreateEphemeralSlot).
THEOREM LanesStayAsCreated == LanesSpec => []LanesAreKept
<1> SUFFICES ASSUME LaneInv PROVE LanesAreKept
  BY LaneInvHolds, PTL
<1>1. LaneTypes /\ CreateHolds /\ ParamsHold
  BY DEF LaneInv
<1>2. CreateAdds
  <2> SUFFICES ASSUME NEW c \in Callers, order[c].kind = "create", ~order[c].met
               PROVE  /\ order[c].before \subseteq lanes
                      /\ order[c].at = "idle" =>
                           /\ Cardinality(order[c].made) = order[c].count /\ order[c].made \cap order[c].before = {}
                           /\ \A s \in order[c].made : 1..s \subseteq lanes
    BY DEF CreateAdds
  <2>1. CASE order[c].at = "list"
    BY <1>1, <2>1 DEF CreateHolds
  <2>2. CASE order[c].at # "list"
    <3>1. order[c].at = "idle" => Takes(order[c]) = order[c].made
      BY <1>1, <2>2 DEF CreateHolds, Takes
    <3> QED BY <1>1, <2>2, <3>1 DEF CreateHolds
  <2> QED BY <2>1, <2>2
<1>3. RecreateKeepsParams
  BY <1>1 DEF LaneTypes, ParamsHold, RecreateKeepsParams
<1> QED BY <1>2, <1>3 DEF LanesAreKept

-----------------------------------------------------------------------------
(* The dependency layer                                                    *)

Caches == (Orgs \cup {NoOrg}) \X Seeds
PassSteps == {"idle", "packages", "paths", "scripts", "seeds"}

PassRecs == [step : PassSteps, man : Manifests \cup {DinD, Empty},
             todo : SUBSET (Packages \cup Paths \cup Scripts \cup Caches), roots : SUBSET (Orgs \cup {NoOrg})]

ProvTypes ==
  /\ perOrg \in BOOLEAN /\ orgs \subseteq Orgs /\ want \in Manifests
  /\ pkg \in [Packages -> {"absent", "installed", "removed"}]
  /\ marked \subseteq Caches /\ DOMAIN owner = Caches
  /\ pass \in PassRecs
  /\ pass.step = "packages" => pass.todo \subseteq pass.man.pkgs
  /\ pass.step = "scripts" => pass.todo \subseteq pass.man.scripts
  /\ pass.step = "seeds" => pass.todo \subseteq Caches
  /\ outcome = "ok" => pass.step = "idle"

\* What a pass has done of its packages, scripts and seeds, as long as nobody has
\* edited the config or the host.
PackagesIn ==
  /\ pass.step = "packages" => \A p \in pass.man.pkgs \ pass.todo : pkg[p] = "installed"
  /\ pass.step \in {"paths", "scripts", "seeds"} \/ outcome = "ok" =>
       \A p \in pass.man.pkgs : pkg[p] = "installed"

\* A script ran from a file that is there, or from a temporary one; the remediation's
\* has brought Docker, and user namespaces unless the kernel refused them.
Ran(s) == IF s = DinDSetup THEN pkg[Docker] = "installed" /\ (userns \/ refused)
          ELSE s \in placed \cup {"inline"}

ScriptsIn ==
  /\ pass.step = "scripts" => \A s \in pass.man.scripts \ pass.todo : Ran(s)
  /\ pass.step = "seeds" \/ outcome = "ok" => \A s \in pass.man.scripts : Ran(s)

\* A cache still to come, a seed still to do, or a marker.
SeedsIn ==
  /\ pass.step \in {"packages", "paths", "scripts"} => pass.roots = Roots
  /\ pass.step = "seeds" => (Roots \ pass.roots) \X pass.man.seeds \subseteq marked \cup pass.todo
  /\ outcome = "ok" => Roots \X pass.man.seeds \subseteq marked

\* What is marked belongs to the user of its cache.
SeedsOwned == ~half => \A t \in marked : owner[t] = t[1]

ProvInv == ProvTypes /\ SeedsOwned /\ (~touched => PackagesIn /\ ScriptsIn /\ SeedsIn)

\* Who stops a pass leaves its manifest for the record, and no temporary script.
LEMMA PassStopped ==
  ASSUME ProvTypes, NEW result, Stop(result)
  PROVE  /\ pass' \in PassRecs /\ pass'.step = "idle" /\ pass'.man = pass.man
         /\ outcome' = result /\ placed' = placed \ {DinDSetup}
BY DEF Stop, NoPass, PassRecs, PassSteps, ProvTypes

LEMMA PassAdvanced ==
  ASSUME ProvTypes, NEW step \in PassSteps,
         NEW rows \in SUBSET (Packages \cup Paths \cup Scripts \cup Caches), To(step, rows)
  PROVE  /\ pass' \in PassRecs /\ pass'.step = step /\ pass'.man = pass.man /\ pass'.todo = rows
         /\ pass'.roots = pass.roots
BY DEF To, PassRecs, ProvTypes

LEMMA ManifestsAre ==
  /\ \A m \in Manifests \cup {DinD, Empty} :
       m.pkgs \subseteq Packages /\ m.paths \subseteq Paths /\ m.scripts \subseteq Scripts /\ m.seeds \subseteq Seeds
  /\ DinD.pkgs = DinDDeps /\ DinD.scripts = {DinDSetup} /\ DinD.seeds = {}
  /\ \A m \in Manifests : DinDSetup \notin m.scripts
  /\ DinDDeps \cup {Docker} \subseteq Packages
<1>1. Empty = [pkgs |-> {}, paths |-> {}, scripts |-> {}, seeds |-> {}]
  BY DEF Empty
<1>2. DinD = [pkgs |-> DinDDeps, paths |-> {}, scripts |-> {DinDSetup}, seeds |-> {}]
  BY DEF DinD
<1>3. DinDSetup \in Scripts /\ DinDDeps \cup {Docker} \subseteq Packages
  BY ProvisionConstants DEF Scripts
<1>4. \A m \in Manifests :
        /\ m.pkgs \subseteq Packages /\ m.paths \subseteq Paths /\ m.scripts \subseteq Scripts /\ m.seeds \subseteq Seeds
        /\ DinDSetup \notin m.scripts
  BY ProvisionConstants DEF Manifest
<1>5. \A m \in {DinD, Empty} :
        m.pkgs \subseteq Packages /\ m.paths \subseteq Paths /\ m.scripts \subseteq Scripts /\ m.seeds \subseteq Seeds
  BY <1>1, <1>2, <1>3
<1> QED BY <1>2, <1>3, <1>4, <1>5

LEMMA ProvInitInv == ProvInit => ProvInv
<1> SUFFICES ASSUME ProvInit PROVE ProvInv
  OBVIOUS
<1>1. pass \in PassRecs /\ pass.step = "idle" /\ outcome # "ok" /\ marked = {}
  BY DEF ProvInit, NoPass, PassRecs, PassSteps
<1>2. DOMAIN owner = Caches
  BY DEF ProvInit, Caches
<1> QED BY <1>1, <1>2 DEF ProvInit, ProvInv, ProvTypes, SeedsOwned, PackagesIn, ScriptsIn, SeedsIn

LEMMA BeginProvisionKept ==
  ASSUME ProvInv, NEW rootless \in BOOLEAN, BeginProvision(rootless)
  PROVE  ProvInv'
<1>1. /\ pass' = Applying(IF rootless THEN DinD ELSE want) /\ outcome' = "running"
      /\ UNCHANGED <<perOrg, orgs, want, pkg, marked, owner, half>>
  BY DEF BeginProvision
<1> DEFINE m == IF rootless THEN DinD ELSE want
<1>2. m \in Manifests \cup {DinD, Empty}
  BY DEF ProvInv, ProvTypes
<1> HIDE DEF m
<1>3. Roots \subseteq Orgs \cup {NoOrg} /\ m.pkgs \subseteq Packages
  BY <1>2, ManifestsAre DEF ProvInv, ProvTypes, Roots
<1>4. pass' = [step |-> "packages", man |-> m, todo |-> m.pkgs, roots |-> Roots]
  BY <1>1 DEF m, Applying
<1>5. pass' \in PassRecs
  BY <1>2, <1>3, <1>4 DEF PassRecs, PassSteps
<1>6. Roots' = Roots
  BY <1>1 DEF Roots
<1>7. ProvTypes'
  BY <1>1, <1>4, <1>5 DEF ProvInv, ProvTypes
<1> QED BY <1>1, <1>4, <1>6, <1>7 DEF ProvInv, SeedsOwned, PackagesIn, ScriptsIn, SeedsIn

LEMMA AptInstallKept ==
  ASSUME ProvInv, AptInstall
  PROVE  ProvInv'
<1>1. PICK done \in SUBSET pass.todo, ok \in BOOLEAN :
        /\ ok => done = pass.todo
        /\ pkg' = [p \in Packages |-> IF p \in done THEN "installed" ELSE pkg[p]]
        /\ IF ok THEN To("paths", pass.man.paths) /\ UNCHANGED <<placed, outcome>> ELSE Stop("packages")
  BY DEF AptInstall
<1>2. ProvTypes /\ SeedsOwned /\ pass.step = "packages" /\ outcome # "ok"
      /\ UNCHANGED <<perOrg, orgs, want, marked, owner, touched, half>>
  BY DEF AptInstall, ProvInv, ProvTypes, At
<1>3. /\ pkg' \in [Packages -> {"absent", "installed", "removed"}]
      /\ \A p \in done \cap Packages : pkg'[p] = "installed"
      /\ \A p \in Packages : pkg[p] = "installed" => pkg'[p] = "installed"
  BY <1>1, <1>2 DEF ProvTypes
<1>4. Roots' = Roots /\ SeedsOwned'
  BY <1>2 DEF Roots, SeedsOwned
<1>5. CASE ok
  <2>1. pass.man.paths \subseteq Paths /\ pass.man.pkgs \subseteq Packages
    BY <1>2, ManifestsAre DEF ProvTypes, PassRecs
  <2>2. /\ pass' \in PassRecs /\ pass'.step = "paths" /\ pass'.man = pass.man /\ pass'.roots = pass.roots /\ outcome' = outcome
    BY <1>1, <1>2, <1>5, <2>1, PassAdvanced DEF PassSteps
  <2>3. ProvTypes'
    BY <1>2, <1>3, <2>2 DEF ProvTypes
  <2>4. ~touched => \A p \in pass.man.pkgs : pkg'[p] = "installed"
    BY <1>1, <1>2, <1>3, <1>5, <2>1 DEF ProvInv, PackagesIn
  <2> QED BY <1>2, <1>4, <2>2, <2>3, <2>4 DEF ProvInv, PackagesIn, ScriptsIn, SeedsIn
<1>6. CASE ~ok
  <2>1. /\ pass' \in PassRecs /\ pass'.step = "idle" /\ outcome' = "packages"
    BY <1>1, <1>2, <1>6, PassStopped
  <2>2. ProvTypes'
    BY <1>2, <1>3, <2>1 DEF ProvTypes
  <2> QED BY <1>4, <2>1, <2>2 DEF ProvInv, PackagesIn, ScriptsIn, SeedsIn
<1> QED BY <1>5, <1>6

LEMMA EnsurePackageKept ==
  ASSUME ProvInv, NEW p \in Packages, EnsurePackage(p)
  PROVE  ProvInv'
<1>1. /\ ProvTypes /\ SeedsOwned /\ pass.step = "packages" /\ outcome # "ok" /\ p \in pass.todo
      /\ UNCHANGED <<perOrg, orgs, want, marked, owner, touched, half>>
  BY DEF EnsurePackage, ProvInv, ProvTypes, At
<1>2. Roots' = Roots /\ SeedsOwned'
  BY <1>1 DEF Roots, SeedsOwned
<1>3. CASE pkg' = [pkg EXCEPT ![p] = "installed"] /\ To("packages", pass.todo \ {p}) /\ UNCHANGED <<placed, outcome>>
  <2>1. pass.todo \ {p} \in SUBSET (Packages \cup Paths \cup Scripts \cup Caches)
    BY <1>1 DEF ProvTypes, PassRecs
  <2>2. /\ pass' \in PassRecs /\ pass'.step = "packages" /\ pass'.man = pass.man /\ pass'.todo = pass.todo \ {p}
        /\ pass'.roots = pass.roots /\ outcome' = outcome
    BY <1>1, <1>3, <2>1, PassAdvanced DEF PassSteps
  <2>3. /\ pkg' \in [Packages -> {"absent", "installed", "removed"}] /\ pkg'[p] = "installed"
        /\ \A q \in Packages : q # p => pkg'[q] = pkg[q]
    BY <1>1, <1>3 DEF ProvTypes
  <2>4. pass.man.pkgs \subseteq Packages
    BY <1>1, ManifestsAre DEF ProvTypes, PassRecs
  <2>5. ProvTypes'
    BY <1>1, <2>2, <2>3 DEF ProvTypes
  <2> QED BY <1>1, <1>2, <2>2, <2>3, <2>4, <2>5 DEF ProvInv, PackagesIn, ScriptsIn, SeedsIn
<1>4. CASE Stop("packages") /\ UNCHANGED pkg
  <2>1. /\ pass' \in PassRecs /\ pass'.step = "idle" /\ outcome' = "packages"
    BY <1>1, <1>4, PassStopped
  <2>2. ProvTypes'
    BY <1>1, <1>4, <2>1 DEF ProvTypes
  <2> QED BY <1>2, <2>1, <2>2 DEF ProvInv, PackagesIn, ScriptsIn, SeedsIn
<1> QED BY <1>3, <1>4 DEF EnsurePackage

LEMMA PackagesDoneKept ==
  ASSUME ProvInv, PackagesDone
  PROVE  ProvInv'
<1>1. /\ ProvTypes /\ SeedsOwned /\ pass.step = "packages" /\ outcome # "ok"
      /\ UNCHANGED <<perOrg, orgs, want, pkg, marked, owner, touched, half>>
  BY DEF PackagesDone, ProvInv, ProvTypes, At
<1>2. Roots' = Roots /\ SeedsOwned'
  BY <1>1 DEF Roots, SeedsOwned
<1>3. CASE pass.todo = {} /\ To("paths", pass.man.paths) /\ UNCHANGED <<placed, outcome>>
  <2>1. pass.man.paths \subseteq Paths
    BY <1>1, ManifestsAre DEF ProvTypes, PassRecs
  <2>2. /\ pass' \in PassRecs /\ pass'.step = "paths" /\ pass'.man = pass.man /\ pass'.roots = pass.roots /\ outcome' = outcome
    BY <1>1, <1>3, <2>1, PassAdvanced DEF PassSteps
  <2>3. ProvTypes'
    BY <1>1, <2>2 DEF ProvTypes
  <2> QED BY <1>1, <1>2, <1>3, <2>2, <2>3 DEF ProvInv, PackagesIn, ScriptsIn, SeedsIn
<1>4. CASE Stop("packages")
  <2>1. /\ pass' \in PassRecs /\ pass'.step = "idle" /\ outcome' = "packages"
    BY <1>1, <1>4, PassStopped
  <2>2. ProvTypes'
    BY <1>1, <2>1 DEF ProvTypes
  <2> QED BY <1>2, <2>1, <2>2 DEF ProvInv, PackagesIn, ScriptsIn, SeedsIn
<1> QED BY <1>3, <1>4 DEF PackagesDone

LEMMA ClaimPathKept ==
  ASSUME ProvInv, NEW d \in Paths, ClaimPath(d)
  PROVE  ProvInv'
<1>1. /\ ProvTypes /\ SeedsOwned /\ pass.step = "paths" /\ outcome # "ok"
      /\ UNCHANGED <<perOrg, orgs, want, pkg, marked, owner, touched, half>>
  BY DEF ClaimPath, ProvInv, ProvTypes, At
<1>2. Roots' = Roots /\ SeedsOwned'
  BY <1>1 DEF Roots, SeedsOwned
<1>3. CASE To("paths", pass.todo \ {d}) /\ UNCHANGED <<placed, outcome>>
  <2>1. pass.todo \ {d} \in SUBSET (Packages \cup Paths \cup Scripts \cup Caches)
    BY <1>1 DEF ProvTypes, PassRecs
  <2>2. /\ pass' \in PassRecs /\ pass'.step = "paths" /\ pass'.man = pass.man /\ pass'.roots = pass.roots /\ outcome' = outcome
    BY <1>1, <1>3, <2>1, PassAdvanced DEF PassSteps
  <2>3. ProvTypes'
    BY <1>1, <2>2 DEF ProvTypes
  <2> QED BY <1>1, <1>2, <2>2, <2>3 DEF ProvInv, PackagesIn, ScriptsIn, SeedsIn
<1>4. CASE Stop("paths")
  <2>1. /\ pass' \in PassRecs /\ pass'.step = "idle" /\ outcome' = "paths"
    BY <1>1, <1>4, PassStopped
  <2>2. ProvTypes'
    BY <1>1, <2>1 DEF ProvTypes
  <2> QED BY <1>2, <2>1, <2>2 DEF ProvInv, PackagesIn, ScriptsIn, SeedsIn
<1> QED BY <1>3, <1>4 DEF ClaimPath

LEMMA PathsDoneKept ==
  ASSUME ProvInv, PathsDone
  PROVE  ProvInv'
<1>1. /\ ProvTypes /\ SeedsOwned /\ pass.step = "paths" /\ outcome # "ok"
      /\ UNCHANGED <<perOrg, orgs, want, pkg, marked, owner, touched, half, outcome>>
  BY DEF PathsDone, ProvInv, ProvTypes, At, hostConf
<1>2. Roots' = Roots /\ SeedsOwned'
  BY <1>1 DEF Roots, SeedsOwned
<1>3. pass.man.scripts \subseteq Scripts
  BY <1>1, ManifestsAre DEF ProvTypes, PassRecs
<1>4. /\ pass' \in PassRecs /\ pass'.step = "scripts" /\ pass'.man = pass.man /\ pass'.roots = pass.roots
      /\ pass'.todo = pass.man.scripts
  BY <1>1, <1>3, PassAdvanced DEF PathsDone, PassSteps
<1>5. ProvTypes'
  BY <1>1, <1>4 DEF ProvTypes
<1> QED BY <1>1, <1>2, <1>4, <1>5 DEF ProvInv, PackagesIn, ScriptsIn, SeedsIn

LEMMA RunScriptKept ==
  ASSUME ProvInv, NEW s \in Scripts, RunScript(s)
  PROVE  ProvInv'
<1>1. /\ ProvTypes /\ SeedsOwned /\ pass.step = "scripts" /\ outcome # "ok" /\ s \in pass.todo
      /\ UNCHANGED <<perOrg, orgs, want, marked, owner, touched, half>>
  BY DEF RunScript, ProvInv, ProvTypes, At
<1>2. Roots' = Roots /\ SeedsOwned'
  BY <1>1 DEF Roots, SeedsOwned
<1>3. CASE /\ s \in placed \/ s = "inline"
           /\ To("scripts", pass.todo \ {s}) /\ UNCHANGED <<placed, outcome>>
           /\ IF s = DinDSetup
              THEN /\ pkg' = [pkg EXCEPT ![Docker] = "installed"]
                   /\ userns' \in {TRUE, userns}
                   /\ refused' = ~userns'
              ELSE UNCHANGED <<pkg, userns, refused>>
  <2>1. pass.todo \ {s} \in SUBSET (Packages \cup Paths \cup Scripts \cup Caches)
    BY <1>1 DEF ProvTypes, PassRecs
  <2>2. /\ pass' \in PassRecs /\ pass'.step = "scripts" /\ pass'.man = pass.man /\ pass'.todo = pass.todo \ {s}
        /\ pass'.roots = pass.roots /\ outcome' = outcome
    BY <1>1, <1>3, <2>1, PassAdvanced DEF PassSteps
  <2>3. /\ pkg' \in [Packages -> {"absent", "installed", "removed"}]
        /\ \A p \in Packages : pkg[p] = "installed" => pkg'[p] = "installed"
        /\ s = DinDSetup => pkg'[Docker] = "installed"
    BY <1>1, <1>3, ManifestsAre DEF ProvTypes
  <2>4. pass.man.pkgs \subseteq Packages /\ Docker \in Packages
    BY <1>1, ManifestsAre DEF ProvTypes, PassRecs
  <2>5. ProvTypes'
    BY <1>1, <2>2, <2>3 DEF ProvTypes
  <2>6. Ran(s)'
    BY <1>3, <2>3 DEF Ran
  <2>7. \A x : Ran(x) => Ran(x)'
    BY <1>3, <2>3, <2>4 DEF Ran
  <2>8. ~touched => ScriptsIn'
    BY <1>1, <2>2, <2>6, <2>7 DEF ProvInv, ScriptsIn
  <2>9. ~touched => PackagesIn'
    BY <1>1, <2>2, <2>3, <2>4 DEF ProvInv, PackagesIn
  <2> QED BY <1>1, <1>2, <2>2, <2>5, <2>8, <2>9 DEF ProvInv, SeedsIn
<1>4. CASE Stop("scripts") /\ UNCHANGED <<pkg, userns, refused>>
  <2>1. /\ pass' \in PassRecs /\ pass'.step = "idle" /\ outcome' = "scripts"
    BY <1>1, <1>4, PassStopped
  <2>2. ProvTypes'
    BY <1>1, <1>4, <2>1 DEF ProvTypes
  <2> QED BY <1>2, <2>1, <2>2 DEF ProvInv, PackagesIn, ScriptsIn, SeedsIn
<1> QED BY <1>3, <1>4 DEF RunScript

LEMMA NextCacheKept ==
  ASSUME ProvInv, NextCache
  PROVE  ProvInv'
<1>1. /\ ProvTypes /\ SeedsOwned /\ pass.step \in {"scripts", "seeds"} /\ outcome # "ok" /\ pass.todo = {}
      /\ UNCHANGED <<perOrg, orgs, want, pkg, marked, owner, touched, half, userns, refused>>
  BY DEF NextCache, ProvInv, ProvTypes, At
<1>2. Roots' = Roots /\ SeedsOwned'
  BY <1>1 DEF Roots, SeedsOwned
<1>3. ~touched => (\A s \in pass.man.scripts : Ran(s)) /\ (\A p \in pass.man.pkgs : pkg[p] = "installed")
                  /\ (Roots \ pass.roots) \X pass.man.seeds \subseteq marked
  <2>1. CASE pass.step = "scripts"
    <3>1. ~touched => pass.roots = Roots
      BY <2>1 DEF ProvInv, SeedsIn
    <3>2. ~touched => (Roots \ pass.roots) \X pass.man.seeds = {}
      BY <3>1
    <3> QED BY <1>1, <2>1, <3>2 DEF ProvInv, PackagesIn, ScriptsIn
  <2>2. CASE pass.step = "seeds"
    BY <1>1, <2>2 DEF ProvInv, PackagesIn, ScriptsIn, SeedsIn
  <2> QED BY <1>1, <2>1, <2>2
<1>4. CASE (pass.roots = {} \/ pass.man.seeds = {}) /\ Stop("ok")
  <2>1. /\ pass' \in PassRecs /\ pass'.step = "idle" /\ pass'.man = pass.man /\ outcome' = "ok" /\ placed' = placed \ {DinDSetup}
    BY <1>1, <1>4, PassStopped
  <2>2. ProvTypes'
    BY <1>1, <2>1 DEF ProvTypes
  <2>3. \A s : Ran(s) => Ran(s)'
    BY <1>1, <2>1 DEF Ran
  <2>4. ~touched => Roots \X pass.man.seeds \subseteq marked
    BY <1>3, <1>4
  <2> QED BY <1>1, <1>2, <1>3, <2>1, <2>2, <2>3, <2>4 DEF ProvInv, PackagesIn, ScriptsIn, SeedsIn
<1>5. CASE /\ \E r \in pass.roots : pass' = [pass EXCEPT !.step = "seeds", !.roots = @ \ {r}, !.todo = {r} \X pass.man.seeds]
           /\ UNCHANGED <<placed, outcome>>
  <2>1. PICK r \in pass.roots : pass' = [pass EXCEPT !.step = "seeds", !.roots = @ \ {r}, !.todo = {r} \X pass.man.seeds]
    BY <1>5
  <2>2. pass.man.seeds \subseteq Seeds /\ r \in Orgs \cup {NoOrg}
    BY <1>1, ManifestsAre DEF ProvTypes, PassRecs
  <2>3. {r} \X pass.man.seeds \subseteq Caches
    BY <2>2 DEF Caches
  <2>4. /\ pass' \in PassRecs /\ pass'.step = "seeds" /\ pass'.man = pass.man
        /\ pass'.roots = pass.roots \ {r} /\ pass'.todo = {r} \X pass.man.seeds
    BY <1>1, <2>1, <2>3 DEF ProvTypes, PassRecs, PassSteps
  <2>5. ProvTypes'
    BY <1>1, <1>5, <2>3, <2>4 DEF ProvTypes
  <2>6. \A s : Ran(s) => Ran(s)'
    BY <1>1, <1>5 DEF Ran
  <2>7. ~touched => (Roots \ (pass.roots \ {r})) \X pass.man.seeds \subseteq marked \cup ({r} \X pass.man.seeds)
    BY <1>3
  <2> QED BY <1>1, <1>2, <1>3, <1>5, <2>4, <2>5, <2>6, <2>7 DEF ProvInv, PackagesIn, ScriptsIn, SeedsIn
<1> QED BY <1>4, <1>5 DEF NextCache

LEMMA SeedKept ==
  ASSUME ProvInv, NEW t \in Caches, Seed(t)
  PROVE  ProvInv'
<1>1. /\ ProvTypes /\ SeedsOwned /\ pass.step = "seeds" /\ outcome # "ok" /\ t \in pass.todo
      /\ UNCHANGED <<perOrg, orgs, want, pkg, touched, userns, refused>>
  BY DEF Seed, ProvInv, ProvTypes, At
<1>2. Roots' = Roots
  BY <1>1 DEF Roots
<1>3. CASE To("seeds", pass.todo \ {t}) /\ UNCHANGED <<placed, outcome, half>>
           /\ marked' = marked \cup {t}
           /\ ((t \in marked /\ owner' = owner) \/ owner' = [owner EXCEPT ![t] = CacheUser(t[1])])
  <2>1. pass.todo \ {t} \in SUBSET (Packages \cup Paths \cup Scripts \cup Caches)
    BY <1>1 DEF ProvTypes, PassRecs
  <2>2. /\ pass' \in PassRecs /\ pass'.step = "seeds" /\ pass'.man = pass.man /\ pass'.todo = pass.todo \ {t}
        /\ pass'.roots = pass.roots /\ outcome' = outcome
    BY <1>1, <1>3, <2>1, PassAdvanced DEF PassSteps
  <2>3. ProvTypes'
    BY <1>1, <1>3, <2>2 DEF ProvTypes
  <2>4. SeedsOwned'
    BY <1>1, <1>3 DEF SeedsOwned, ProvTypes, CacheUser
  <2>5. \A s : Ran(s) => Ran(s)'
    BY <1>1, <1>3 DEF Ran
  <2> QED BY <1>1, <1>2, <1>3, <2>2, <2>3, <2>4, <2>5 DEF ProvInv, PackagesIn, ScriptsIn, SeedsIn
<1>4. CASE Stop("seeds") /\ ((marked' = marked \cup {t} /\ half' = TRUE /\ UNCHANGED owner) \/ UNCHANGED <<marked, owner, half>>)
  <2>1. /\ pass' \in PassRecs /\ pass'.step = "idle" /\ outcome' = "seeds"
    BY <1>1, <1>4, PassStopped
  <2>2. ProvTypes' /\ SeedsOwned'
    BY <1>1, <1>4, <2>1 DEF ProvTypes, SeedsOwned
  <2> QED BY <2>1, <2>2 DEF ProvInv, PackagesIn, ScriptsIn, SeedsIn
<1> QED BY <1>3, <1>4 DEF Seed

LEMMA KillProvisionKept ==
  ASSUME ProvInv, KillProvision
  PROVE  ProvInv'
<1>1. /\ ProvTypes /\ SeedsOwned /\ UNCHANGED <<perOrg, orgs, want, pkg, owner>>
      /\ pass' = [NoPass EXCEPT !.man = pass.man] /\ outcome' = "killed"
  BY DEF KillProvision, ProvInv, hostConf
<1>2. pass' \in PassRecs /\ pass'.step = "idle"
  BY <1>1 DEF ProvTypes, PassRecs, PassSteps, NoPass
<1>3. UNCHANGED <<marked, half>> \/ (half' = TRUE /\ \E t \in pass.todo : marked' = marked \cup {t} /\ pass.step = "seeds")
  BY DEF KillProvision, At
<1>4. ProvTypes' /\ SeedsOwned'
  BY <1>1, <1>2, <1>3 DEF ProvTypes, SeedsOwned
<1> QED BY <1>1, <1>2, <1>4 DEF ProvInv, PackagesIn, ScriptsIn, SeedsIn

LEMMA EditsKept ==
  ASSUME ProvInv, EditConfig \/ EditHost
  PROVE  ProvInv'
<1>1. ProvTypes /\ SeedsOwned /\ touched' = TRUE /\ UNCHANGED <<marked, owner, pass, outcome, half>>
  BY DEF EditConfig, EditHost, Edited, ProvInv
<1>2. perOrg' \in BOOLEAN /\ orgs' \subseteq Orgs /\ want' \in Manifests
  BY <1>1 DEF EditConfig, EditHost, Edited, ProvTypes
<1>3. pkg' \in [Packages -> {"absent", "installed", "removed"}]
  BY <1>1 DEF EditConfig, EditHost, Edited, ProvTypes
<1> QED BY <1>1, <1>2, <1>3 DEF ProvInv, ProvTypes, SeedsOwned

LEMMA ProvInvHolds == ProvSpec => []ProvInv
<1>1. ProvInv /\ (UNCHANGED provVars \/ \E o \in Orgs : CreateSlot(o)) => ProvInv'
  BY DEF ProvInv, ProvTypes, SeedsOwned, PackagesIn, ScriptsIn, Ran, SeedsIn, Roots, provVars, hostConf, CreateSlot
<1>2. ProvInv /\ ProvNext => ProvInv'
  BY <1>1, BeginProvisionKept, AptInstallKept, EnsurePackageKept, PackagesDoneKept, ClaimPathKept, PathsDoneKept,
     RunScriptKept, NextCacheKept, SeedKept, KillProvisionKept, EditsKept
     DEF ProvNext, Caches
<1> QED BY <1>1, <1>2, ProvInitInv, PTL DEF ProvSpec

\* Where the host has had no package manager since the pass began, the pass has got
\* past its packages only with none to install.
Unmanaged ==
  ~touched /\ pm = "none" =>
    /\ pass.step = "packages" => pass.todo = pass.man.pkgs
    /\ pass.step \in {"paths", "scripts", "seeds"} \/ outcome = "ok" => pass.man.pkgs = {}

LEMMA UnmanagedHolds == ProvSpec => []Unmanaged
<1>1. ProvInit => Unmanaged
  BY DEF ProvInit, NoPass, Unmanaged
<1>2. ASSUME ProvInv, NEW reason \in {"packages", "paths", "scripts", "seeds"}, Stop(reason) PROVE Unmanaged'
  BY <1>2, PassStopped DEF ProvInv, Unmanaged
<1>3. ASSUME ProvInv, Unmanaged, pass.step \notin {"idle", "packages"} \/ pm # "none" \/ pass.todo = {},
             pass.step # "idle",
             pass'.step \in {"paths", "scripts", "seeds"}, pass'.man = pass.man,
             outcome' = outcome, touched' = touched, pm' = pm
      PROVE  Unmanaged'
  BY <1>3 DEF ProvInv, ProvTypes, PassRecs, PassSteps, Unmanaged
<1>4. ASSUME ProvInv, NEW step \in {"paths", "scripts", "seeds"}, NEW rows, To(step, rows)
      PROVE  pass'.step = step /\ pass'.man = pass.man
  BY <1>4 DEF ProvInv, ProvTypes, PassRecs, To
<1>5. ASSUME NEW rootless \in BOOLEAN, BeginProvision(rootless) PROVE Unmanaged'
  BY <1>5 DEF BeginProvision, Applying, Unmanaged
<1>6. ASSUME ProvInv, Unmanaged, AptInstall \/ \E p \in Packages : EnsurePackage(p) PROVE Unmanaged'
  <2>1. pm # "none" /\ pm' = pm
    BY <1>6 DEF AptInstall, EnsurePackage
  <2> QED BY <2>1 DEF Unmanaged
<1>7. ASSUME ProvInv, Unmanaged, PackagesDone PROVE Unmanaged'
  BY <1>2, <1>3, <1>4, <1>7 DEF PackagesDone, At
<1>8. ASSUME ProvInv, Unmanaged, NEW d \in Paths, ClaimPath(d) PROVE Unmanaged'
  BY <1>2, <1>3, <1>4, <1>8 DEF ClaimPath, At
<1>9. ASSUME ProvInv, Unmanaged, PathsDone PROVE Unmanaged'
  BY <1>3, <1>4, <1>9 DEF PathsDone, At, hostConf
<1>10. ASSUME ProvInv, Unmanaged, NEW s \in Scripts, RunScript(s) PROVE Unmanaged'
  BY <1>2, <1>3, <1>4, <1>10 DEF RunScript, At
<1>11. ASSUME ProvInv, Unmanaged, NextCache PROVE Unmanaged'
  <2>1. CASE Stop("ok")
    BY <1>11, <2>1, PassStopped DEF NextCache, At, ProvInv, Unmanaged
  <2>2. CASE /\ \E r \in pass.roots : pass' = [pass EXCEPT !.step = "seeds", !.roots = @ \ {r}, !.todo = {r} \X pass.man.seeds]
             /\ outcome' = outcome
    <3>1. pass'.step = "seeds" /\ pass'.man = pass.man
      BY <2>2, <1>11 DEF ProvInv, ProvTypes, PassRecs
    <3> QED BY <1>3, <1>11, <2>2, <3>1 DEF NextCache, At
  <2> QED BY <1>11, <2>1, <2>2 DEF NextCache
<1>12. ASSUME ProvInv, Unmanaged, NEW t \in (Orgs \cup {NoOrg}) \X Seeds, Seed(t) PROVE Unmanaged'
  BY <1>2, <1>3, <1>4, <1>12 DEF Seed, At
<1>13. ASSUME ProvInv, Unmanaged, KillProvision PROVE Unmanaged'
  BY <1>13 DEF KillProvision, NoPass, Unmanaged
<1>14. ASSUME ProvInv, Unmanaged, EditConfig \/ EditHost PROVE Unmanaged'
  BY <1>14 DEF EditConfig, EditHost, Edited, Unmanaged
<1>15. ASSUME ProvInv, Unmanaged, UNCHANGED provVars \/ \E o \in Orgs : CreateSlot(o) PROVE Unmanaged'
  BY <1>15 DEF provVars, CreateSlot, hostConf, Unmanaged
<1>16. ProvInv /\ Unmanaged /\ [ProvNext]_provVars => Unmanaged'
  BY <1>5, <1>6, <1>7, <1>8, <1>9, <1>10, <1>11, <1>12, <1>13, <1>14, <1>15 DEF ProvNext
<1> QED BY <1>1, <1>16, ProvInvHolds, PTL DEF ProvSpec

\* Provisioning and its inspection agree, for any orgs, packages, manifests, passes,
\* failing steps, kills and edits between them (ProvisionHost, HostDrift, Apply,
\* DinDReport.Blockers).
THEOREM ProvisionAgreesWithDoctor == ProvSpec => []ProvisionAgrees
<1> SUFFICES ASSUME ProvInv, Unmanaged PROVE ProvisionAgrees
  BY ProvInvHolds, UnmanagedHolds, PTL
<1>0. ProvTypes /\ SeedsOwned
  BY DEF ProvInv
<1>1. ProvisionedIsQuiet
  <2> SUFFICES ASSUME outcome = "ok", ~touched, pass.man = want
               PROVE  ~DriftFails(want) /\ Drift(want) \subseteq {<<"script", "inline">>}
    BY DEF ProvisionedIsQuiet
  <2>0. ~DriftFails(want)
    BY DEF DriftFails, Unmanaged
  <2>1. want.pkgs \subseteq Packages /\ DinDSetup \notin want.scripts
    BY <1>0, ManifestsAre DEF ProvTypes
  <2>2. \A p \in want.pkgs : Present(p)
    BY DEF ProvInv, PackagesIn, Present
  <2>3. want.scripts \ placed \subseteq {"inline"}
    BY <2>1 DEF ProvInv, ScriptsIn, Ran
  <2>4. (Roots \X {s \in want.seeds : WellFormed(s)}) \ marked = {}
    BY DEF ProvInv, SeedsIn
  <2> QED BY <2>0, <2>2, <2>3, <2>4 DEF Drift
<1>2. QuietIsUsable
  <2> SUFFICES ASSUME Drift(want) = {}, ~half
               PROVE  \A r \in Roots, s \in want.seeds : WellFormed(s) => owner[<<r, s>>] = r
    BY DEF QuietIsUsable
  <2>1. \A r \in Roots, s \in want.seeds : WellFormed(s) => <<r, s>> \in marked
    BY DEF Drift
  <2> QED BY <1>0, <2>1 DEF SeedsOwned
<1>3. ScriptsSeePackages
  BY DEF ProvInv, PackagesIn, ScriptsSeePackages
<1>4. RemediationClears
  <2> SUFFICES ASSUME outcome = "ok", ~touched, pass.man = DinD, NEW b \in Blockers
               PROVE  b[1] = "range" \/ (b[1] = "userns" /\ refused)
    BY DEF RemediationClears
  <2>1. \A p \in DinDDeps \cup {Docker} : pkg[p] = "installed"
    BY ManifestsAre DEF ProvInv, PackagesIn, ScriptsIn, Ran
  <2>2. userns \/ refused
    BY ManifestsAre DEF ProvInv, ScriptsIn, Ran
  <2>3. ~(\E p \in DinDDeps \cup {Docker} : pkg[p] # "installed" /\ b = <<"binary", p>>)
    BY <2>1
  <2>4. CASE b \in {<<"userns", NoOrg>> : x \in IF userns THEN {} ELSE {TRUE}}
    <3>1. ~userns
      BY <2>4
    <3>2. b = <<"userns", NoOrg>>
      BY <2>4
    <3> QED BY <2>2, <3>1, <3>2
  <2>5. CASE b \in {<<"range", UserOf(o)>> : o \in {q \in orgs : UserOf(q) \notin ranges}}
    BY <2>5
  <2> QED BY <2>3, <2>4, <2>5 DEF Blockers
<1> QED BY <1>1, <1>2, <1>3, <1>4 DEF ProvisionAgrees

-----------------------------------------------------------------------------
(* The downloads                                                           *)

Names == Fetchers \cup {Public}

FetchSteps == {"idle", "stat", "create", "half", "rest", "rename", "verify", "extract",
               "open", "untar", "untar2", "setup", "mark", "chown"}

FetchRecs == [step : FetchSteps, ino : Inodes \cup {NoFile},
              res : {"none", "ok", "failed", "killed"}, hurt : BOOLEAN]

\* Each artefact is fetched through steps of its own.
KindFits(p) ==
  /\ who[p].step \in {"open", "untar", "untar2", "setup", "mark", "chown"} => Seeding
  /\ who[p].step \in {"stat", "rename", "verify", "extract"} => ~Seeding
  /\ who[p].step = "setup" => what = "python"
  /\ who[p].step = "mark" => what # "python"
  /\ who[p].step \in {"verify", "extract"} => what # "image"
  /\ who[p].step = "verify" => what # "unchecked"

DlTypes ==
  /\ what \in Artefacts
  /\ dst \in Inodes \cup {NoFile}
  /\ tmp \in [Names -> Inodes \cup {NoFile}]
  /\ data \in [Inodes -> SUBSET Whole]
  /\ who \in [Fetchers -> FetchRecs]
  /\ room \in [Names -> SUBSET Whole]
  /\ overlap \in BOOLEAN /\ fetches \in 0..MaxFetches
  /\ \A p \in Fetchers : KindFits(p)

\* No inode has two names, and who has one open has one.
NamesApart ==
  /\ \A m, n \in Names : m # n => tmp[m] = NoFile \/ tmp[m] # tmp[n]
  /\ \A n \in Names : tmp[n] = NoFile \/ tmp[n] # dst
  /\ \A p \in Fetchers : who[p].step \in {"half", "rest", "untar", "untar2"} => who[p].ino # NoFile

\* Every fetch takes one inode at most, so there is a free one for who is to create.
Used == ({dst} \cup {tmp[n] : n \in Names} \cup {who[p].ino : p \in Active}) \ {NoFile}
Creating == {p \in Fetchers : who[p].step \in {"stat", "create"}}

InodesLast ==
  /\ IsFiniteSet(Creating)
  /\ Cardinality(Used) + Cardinality(Creating) <= fetches

\* Whom nobody has hurt is alone.
HurtTells ==
  /\ \A p \in Fetchers : who[p].step # "idle" /\ ~who[p].hurt => Active = {p}
  /\ ~overlap => \A p \in Active : ~who[p].hurt

\* What a process that is alone can rely on.
Knows(p) ==
  /\ who[p].step \in {"half", "rest", "rename", "open"} =>
       who[p].ino # NoFile /\ tmp[Name(p)] = who[p].ino
  /\ who[p].step = "rest" => 1 \in data[who[p].ino]
  /\ who[p].step \in {"rename", "open", "untar", "untar2"} =>
       who[p].ino # NoFile /\ data[who[p].ino] = Whole
  /\ who[p].step = "verify" => Content(dst) = Whole
  /\ who[p].step = "extract" /\ (what = "unchecked" => ~overlap) => Content(dst) = Whole
  /\ who[p].step = "untar2" => 1 \in room[Public]
  /\ who[p].step = "setup" => room[Public] = Whole

Assured == \A p \in Fetchers : who[p].step # "idle" /\ ~who[p].hurt => Knows(p)

\* Without a checksum only overlapping fetches leave a broken agent.
UncheckedIsWhole == what = "unchecked" /\ ~overlap /\ dst # NoFile => data[dst] = Whole

\* Every lane writes an image file of its own.
ImagesApart ==
  what = "image" =>
    /\ \A p \in Fetchers :
         /\ who[p].step \in {"half", "rest", "rename"} => who[p].ino # NoFile /\ tmp[p] = who[p].ino
         /\ who[p].step = "rest" => 1 \in data[who[p].ino]
         /\ who[p].step = "rename" => data[who[p].ino] = Whole
    /\ dst # NoFile => data[dst] = Whole

\* A seed's directory only grows.
SeedsGrow ==
  what \in {"seed", "zip"} =>
    /\ \A p \in Fetchers :
         /\ who[p].step = "untar2" => 1 \in room[Public]
         /\ who[p].step \in {"mark", "chown"} => room[Public] = Whole
    /\ marker => room[Public] = Whole

PythonIsWhole == marker /\ what = "python" /\ ~overlap => cache = Whole

DlInv ==
  /\ DlTypes /\ NamesApart /\ InodesLast /\ HurtTells /\ Assured
  /\ UncheckedIsWhole /\ ImagesApart /\ SeedsGrow /\ PythonIsWhole /\ FailsForAReason

\* p goes on to step s, with inode i open.
Turns(p, s, i, r, h) == who' = [who EXCEPT ![p] = [step |-> s, ino |-> i, res |-> r, hurt |-> h]]

LEMMA StepTurns ==
  ASSUME DlTypes, NEW p \in Fetchers, NEW s, Step(p, s)
  PROVE  Turns(p, s, who[p].ino, who[p].res, who[p].hurt)
<1>1. who[p] \in FetchRecs
  BY DEF DlTypes
<1>2. [who[p] EXCEPT !.step = s] = [step |-> s, ino |-> who[p].ino, res |-> who[p].res, hurt |-> who[p].hurt]
  BY <1>1 DEF FetchRecs
<1>3. who' = [who EXCEPT ![p] = [who[p] EXCEPT !.step = s]]
  BY DEF Step
<1> QED BY <1>2, <1>3 DEF Turns

LEMMA FinishTurns ==
  ASSUME DlTypes, NEW p \in Fetchers, NEW r, Finish(p, r)
  PROVE  Turns(p, "idle", who[p].ino, r, who[p].hurt)
<1>1. who[p] \in FetchRecs
  BY DEF DlTypes
<1>2. [who[p] EXCEPT !.step = "idle", !.res = r] = [step |-> "idle", ino |-> who[p].ino, res |-> r, hurt |-> who[p].hurt]
  <2>1. PICK x : x = [who[p] EXCEPT !.step = "idle"]
    OBVIOUS
  <2>2. x \in FetchRecs /\ x = [step |-> "idle", ino |-> who[p].ino, res |-> who[p].res, hurt |-> who[p].hurt]
    BY <1>1, <2>1 DEF FetchRecs, FetchSteps
  <2>3. [x EXCEPT !.res = r] = [step |-> "idle", ino |-> who[p].ino, res |-> r, hurt |-> who[p].hurt]
    BY <2>2 DEF FetchRecs
  <2> QED BY <2>1, <2>3
<1>3. who' = [who EXCEPT ![p] = [who[p] EXCEPT !.step = "idle", !.res = r]]
  BY DEF Finish, DlTypes
<1> QED BY <1>2, <1>3 DEF Turns

\* Inodes a step lets go of are free; it takes no new one.
LEMMA InodesFreed ==
  ASSUME DlTypes, InodesLast, Used' \subseteq Used, Creating' \subseteq Creating, fetches' = fetches
  PROVE  InodesLast'
<1>1. IsFiniteSet(Used)
  <2>1. IsFiniteSet(1..MaxFetches)
    BY DownloadConstants, FS_Interval
  <2>2. Used \subseteq 1..MaxFetches
    BY DEF Used, DlTypes, Names, Inodes, Active, FetchRecs
  <2> QED BY <2>1, <2>2, FS_Subset
<1>2. IsFiniteSet(Used') /\ Cardinality(Used') <= Cardinality(Used)
  BY <1>1, FS_Subset
<1>3. IsFiniteSet(Creating') /\ Cardinality(Creating') <= Cardinality(Creating)
  BY FS_Subset DEF InodesLast
<1>4. /\ Cardinality(Used) \in Nat /\ Cardinality(Used') \in Nat
      /\ Cardinality(Creating) \in Nat /\ Cardinality(Creating') \in Nat
  BY <1>1, <1>2, <1>3, FS_CardinalityType DEF InodesLast
<1> QED BY <1>2, <1>3, <1>4 DEF InodesLast, DlTypes

\* A step of a process at work: it keeps what it knows, the others at work are hurt.
LEMMA OwnStep ==
  ASSUME DlInv, NEW p \in Fetchers, who[p].step # "idle",
         NEW s \in FetchSteps, NEW i \in Inodes \cup {NoFile},
         NEW r \in {"none", "ok", "failed", "killed"}, NEW h \in BOOLEAN,
         Turns(p, s, i, r, h), h = who[p].hurt \/ s = "idle",
         UNCHANGED <<what, overlap, fetches>>,
         dst' \in Inodes \cup {NoFile}, tmp' \in [Names -> Inodes \cup {NoFile}],
         data' \in [Inodes -> SUBSET Whole], room' \in [Names -> SUBSET Whole],
         KindFits(p)',
         s # "idle" /\ ~h => Knows(p)',
         r = "failed" => h \/ (what = "unchecked" /\ overlap)
  PROVE  DlTypes' /\ HurtTells' /\ Assured' /\ FailsForAReason' /\ Active' \subseteq Active
<1>1. /\ who' \in [Fetchers -> FetchRecs]
      /\ who'[p] = [step |-> s, ino |-> i, res |-> r, hurt |-> h]
      /\ \A q \in Fetchers \ {p} : who'[q] = who[q]
  BY DEF DlInv, DlTypes, FetchRecs, Turns
<1>2. Active' \subseteq Active
  BY <1>1 DEF Active
<1>3. \A q \in Fetchers : KindFits(q)'
  <2> TAKE q \in Fetchers
  <2>1. CASE q = p
    BY <2>1
  <2>2. CASE q # p
    BY <1>1, <2>2 DEF DlInv, DlTypes, KindFits, Seeding
  <2> QED BY <2>1, <2>2
<1>4. DlTypes'
  BY <1>1, <1>3 DEF DlInv, DlTypes
<1>5. \A q \in Fetchers \ {p} : who[q].step # "idle" => who[q].hurt
  BY DEF DlInv, HurtTells, Active
<1>6. HurtTells'
  <2>1. ASSUME NEW q \in Fetchers, who'[q].step # "idle", ~who'[q].hurt
        PROVE  Active' = {q}
    <3>1. q = p
      BY <1>1, <1>5, <2>1
    <3>2. who[p].hurt = FALSE
      BY <1>1, <2>1, <3>1
    <3>3. Active = {p}
      BY <3>2 DEF DlInv, HurtTells
    <3> QED BY <1>2, <2>1, <3>1, <3>3 DEF Active
  <2>2. ASSUME ~overlap', NEW q \in Active'
        PROVE  ~who'[q].hurt
    <3>1. q \in Active /\ ~who[q].hurt
      BY <1>2, <2>2 DEF DlInv, HurtTells
    <3> QED BY <1>1, <2>2, <3>1 DEF Active
  <2> QED BY <2>1, <2>2 DEF HurtTells
<1>7. Assured'
  <2> SUFFICES ASSUME NEW q \in Fetchers, who'[q].step # "idle", ~who'[q].hurt
               PROVE  Knows(q)'
    BY DEF Assured
  <2>1. q = p
    BY <1>1, <1>5
  <2> QED BY <1>1, <2>1
<1>8. FailsForAReason'
  <2> SUFFICES ASSUME NEW q \in Fetchers, who'[q].res = "failed"
               PROVE  who'[q].hurt \/ (what' = "unchecked" /\ overlap')
    BY DEF FailsForAReason
  <2>1. CASE q = p
    BY <1>1, <2>1
  <2>2. CASE q # p
    BY <1>1, <2>2 DEF DlInv, FailsForAReason
  <2> QED BY <2>1, <2>2
<1> QED BY <1>2, <1>4, <1>6, <1>7, <1>8

LEMMA DlInitInv == DlInit => DlInv
<1> SUFFICES ASSUME DlInit PROVE DlInv
  OBVIOUS
<1>1. /\ what \in Artefacts /\ dst = NoFile /\ tmp = [n \in Names |-> NoFile]
      /\ data = [i \in Inodes |-> {}] /\ room = [n \in Names |-> {}]
      /\ who = [p \in Fetchers |-> [step |-> "idle", ino |-> NoFile, res |-> "none", hurt |-> FALSE]]
      /\ marker = FALSE /\ overlap = FALSE /\ fetches = 0
  BY DEF DlInit, Asleep, Names
<1>2. \A p \in Fetchers : who[p].step = "idle" /\ who[p].res = "none"
  BY <1>1
<1>3. DlTypes
  <2>1. who \in [Fetchers -> FetchRecs]
    BY <1>1 DEF FetchRecs, FetchSteps
  <2>2. tmp \in [Names -> Inodes \cup {NoFile}] /\ data \in [Inodes -> SUBSET Whole] /\ room \in [Names -> SUBSET Whole]
    BY <1>1
  <2>3. \A p \in Fetchers : KindFits(p)
    BY <1>2 DEF KindFits
  <2>4. dst \in Inodes \cup {NoFile} /\ fetches \in 0..MaxFetches /\ overlap \in BOOLEAN
    <3>1. 0 \in 0..MaxFetches
      BY DownloadConstants
    <3> QED BY <1>1, <3>1
  <2> QED BY <1>1, <2>1, <2>2, <2>3, <2>4 DEF DlTypes
<1>4. NamesApart
  BY <1>1, <1>2 DEF NamesApart
<1>5. InodesLast
  <2>1. Used = {} /\ Creating = {}
    BY <1>1, <1>2 DEF Used, Creating, Active
  <2> QED BY <1>1, <2>1, FS_EmptySet DEF InodesLast
<1>6. HurtTells /\ Assured /\ FailsForAReason
  BY <1>2 DEF HurtTells, Assured, FailsForAReason, Active
<1>7. UncheckedIsWhole /\ ImagesApart /\ SeedsGrow /\ PythonIsWhole
  BY <1>1, <1>2 DEF UncheckedIsWhole, ImagesApart, SeedsGrow, PythonIsWhole
<1> QED BY <1>3, <1>4, <1>5, <1>6, <1>7 DEF DlInv

LEMMA BeginFetchKept ==
  ASSUME DlInv, NEW p \in Fetchers, BeginFetch(p)
  PROVE  DlInv'
<1>1. /\ DlTypes /\ who[p].step = "idle" /\ fetches < MaxFetches
      /\ fetches' = fetches + 1 /\ overlap' = (overlap \/ Active # {})
      /\ room' = [room EXCEPT ![p] = {}]
      /\ UNCHANGED <<what, dst, tmp, data, cache, marker>>
  BY DEF BeginFetch, DlInv
<1>2. PICK mine \in FetchRecs :
        /\ mine.step \in {"idle", "create", "stat"} /\ mine.ino = NoFile /\ mine.res \in {"none", "ok"}
        /\ mine.hurt = (Active # {}) /\ (mine.step = "stat" => ~Seeding)
        /\ who' = [q \in Fetchers |->
                     IF q = p THEN mine ELSE [who[q] EXCEPT !.hurt = @ \/ q \in Active]]
  <2> DEFINE blank == [Asleep EXCEPT !.hurt = Active # {}]
             mine  == CASE Seeding /\ marker        -> [blank EXCEPT !.res = "ok"]
                        [] Seeding /\ ~marker       -> [blank EXCEPT !.step = "create"]
                        [] ~Seeding /\ Content(dst) = {} -> [blank EXCEPT !.step = "create"]
                        [] OTHER                    -> [blank EXCEPT !.step = "stat"]
  <2>1. blank = [step |-> "idle", ino |-> NoFile, res |-> "none", hurt |-> Active # {}]
    BY DEF Asleep
  <2>2. \/ Seeding /\ marker /\ mine = [blank EXCEPT !.res = "ok"]
        \/ mine = [blank EXCEPT !.step = "create"]
        \/ ~Seeding /\ mine = [blank EXCEPT !.step = "stat"]
    OBVIOUS
  <2>3. /\ mine \in FetchRecs /\ mine.step \in {"idle", "create", "stat"} /\ mine.ino = NoFile
        /\ mine.res \in {"none", "ok"} /\ mine.hurt = (Active # {}) /\ (mine.step = "stat" => ~Seeding)
    <3> HIDE DEF mine, blank
    <3> QED BY <2>1, <2>2 DEF FetchRecs, FetchSteps
  <2>4. who' = [q \in Fetchers |->
                  IF q = p THEN mine ELSE [who[q] EXCEPT !.hurt = @ \/ q \in Active]]
    BY DEF BeginFetch
  <2> HIDE DEF mine
  <2> QED BY <2>3, <2>4
<1>3. /\ who'[p] = mine
      /\ \A q \in Fetchers \ {p} : /\ who'[q].step = who[q].step /\ who'[q].ino = who[q].ino
                                   /\ who'[q].res = who[q].res
                                   /\ who'[q].hurt = (who[q].hurt \/ who[q].step # "idle")
                                   /\ who'[q] \in FetchRecs
  BY <1>1, <1>2 DEF DlTypes, FetchRecs, Active
<1>4. \A q \in Fetchers : KindFits(q)'
  BY <1>1, <1>2, <1>3 DEF DlTypes, KindFits, Seeding
<1>5. DlTypes'
  <2>1. who' \in [Fetchers -> FetchRecs]
    BY <1>2, <1>3
  <2>2. room' \in [Names -> SUBSET Whole]
    BY <1>1 DEF DlTypes
  <2> QED BY <1>1, <1>4, <2>1, <2>2, DownloadConstants DEF DlTypes
<1>6. NamesApart'
  BY <1>1, <1>2, <1>3 DEF DlInv, NamesApart
<1>7. InodesLast'
  <2>1. Used' \subseteq Used
    BY <1>1, <1>2, <1>3 DEF Used, Active
  <2>2. Creating' \subseteq Creating \cup {p} /\ p \notin Creating
    BY <1>1, <1>2, <1>3 DEF Creating
  <2>3. /\ IsFiniteSet(Creating \cup {p})
        /\ Cardinality(Creating \cup {p}) = Cardinality(Creating) + 1
        /\ Cardinality(Creating) \in Nat
    BY <2>2, FS_AddElement, FS_CardinalityType DEF DlInv, InodesLast
  <2>4. IsFiniteSet(Creating') /\ Cardinality(Creating') <= Cardinality(Creating) + 1
    BY <2>2, <2>3, FS_Subset
  <2>5. IsFiniteSet(Used)
    <3>1. IsFiniteSet(1..MaxFetches)
      BY DownloadConstants, FS_Interval
    <3>2. Used \subseteq 1..MaxFetches
      BY <1>1 DEF Used, DlTypes, Names, Inodes, Active, FetchRecs
    <3> QED BY <3>1, <3>2, FS_Subset
  <2>6. Cardinality(Used') <= Cardinality(Used) /\ Cardinality(Used) \in Nat /\ Cardinality(Used') \in Nat
    BY <2>1, <2>5, FS_Subset, FS_CardinalityType
  <2>7. Cardinality(Creating') \in Nat
    BY <2>4, FS_CardinalityType
  <2> QED BY <1>1, <2>3, <2>4, <2>6, <2>7 DEF DlInv, InodesLast, DlTypes
<1>8. HurtTells'
  <2>1. ASSUME NEW q \in Fetchers, who'[q].step # "idle", ~who'[q].hurt
        PROVE  Active' = {q}
    <3>1. q = p
      BY <1>3, <2>1
    <3>2. Active = {}
      BY <1>2, <1>3, <2>1, <3>1
    <3> QED BY <1>3, <2>1, <3>1, <3>2 DEF Active
  <2>2. ASSUME ~overlap', NEW q \in Active'
        PROVE  ~who'[q].hurt
    <3>1. Active = {}
      BY <1>1, <2>2
    <3> QED BY <1>2, <1>3, <2>2, <3>1 DEF Active
  <2> QED BY <2>1, <2>2 DEF HurtTells
<1>9. Assured'
  <2> SUFFICES ASSUME NEW q \in Fetchers, who'[q].step # "idle", ~who'[q].hurt
               PROVE  Knows(q)'
    BY DEF Assured
  <2>1. q = p
    BY <1>3
  <2> QED BY <1>2, <1>3, <2>1 DEF Knows
<1>10. FailsForAReason'
  BY <1>1, <1>2, <1>3 DEF DlInv, FailsForAReason
<1>11. UncheckedIsWhole' /\ PythonIsWhole'
  BY <1>1 DEF DlInv, UncheckedIsWhole, PythonIsWhole
<1>12. ImagesApart'
  BY <1>1, <1>2, <1>3 DEF DlInv, ImagesApart
<1>13. SeedsGrow'
  <2>1. room'[Public] = room[Public]
    BY <1>1, DownloadConstants DEF DlTypes, Names
  <2> QED BY <1>1, <1>2, <1>3, <2>1 DEF DlInv, SeedsGrow
<1> QED BY <1>5, <1>6, <1>7, <1>8, <1>9, <1>10, <1>11, <1>12, <1>13 DEF DlInv

LEMMA CheckCachedKept ==
  ASSUME DlInv, NEW p \in Fetchers, CheckCached(p)
  PROVE  DlInv'
<1>1. /\ DlTypes /\ who[p].step = "stat" /\ ~Seeding
      /\ UNCHANGED <<what, tmp, data, room, cache, marker, overlap, fetches>>
  BY DEF CheckCached, DlInv, DlTypes, KindFits
<1>2. PICK s \in FetchSteps, r \in {"none", "ok", "failed", "killed"} :
        /\ Turns(p, s, who[p].ino, r, who[p].hurt)
        /\ \/ s = "extract" /\ Accepted(dst) /\ what # "image" /\ dst' = dst /\ r = who[p].res
           \/ s = "idle" /\ r = "ok" /\ dst' = dst
           \/ s = "create" /\ dst' = NoFile /\ r = who[p].res
  <2>1. who[p].res \in {"none", "ok", "failed", "killed"}
    BY <1>1 DEF DlTypes, FetchRecs
  <2> QED BY <1>1, <2>1, StepTurns, FinishTurns DEF CheckCached, FetchSteps
<1>3. /\ who'[p] = [step |-> s, ino |-> who[p].ino, res |-> r, hurt |-> who[p].hurt]
      /\ \A q \in Fetchers \ {p} : who'[q] = who[q]
      /\ who[p].ino \in Inodes \cup {NoFile} /\ who[p].hurt \in BOOLEAN
  BY <1>1, <1>2 DEF Turns, DlTypes, FetchRecs
<1>4. dst' \in {dst, NoFile} /\ dst' \in Inodes \cup {NoFile}
  BY <1>1, <1>2 DEF DlTypes
<1>5. KindFits(p)'
  <2>1. s = "extract" => what # "image"
    BY <1>2
  <2> QED BY <1>1, <1>2, <1>3, <2>1 DEF KindFits, Seeding
<1>6. s # "idle" /\ ~who[p].hurt => Knows(p)'
  <2> SUFFICES ASSUME s = "extract", Accepted(dst), dst' = dst, what = "unchecked" => ~overlap
               PROVE  Content(dst)' = Whole
    BY <1>1, <1>2, <1>3 DEF Knows
  <2>1. CASE what = "unchecked"
    <3>1. dst # NoFile
      BY <2>1 DEF Accepted, Content
    <3> QED BY <1>1, <2>1, <3>1 DEF Content, DlInv, UncheckedIsWhole
  <2>2. CASE what # "unchecked"
    BY <1>1, <2>2 DEF Accepted, Content
  <2> QED BY <2>1, <2>2
<1>7. r = "failed" => who[p].hurt \/ (what = "unchecked" /\ overlap)
  BY <1>2 DEF DlInv, FailsForAReason
<1>8. DlTypes' /\ HurtTells' /\ Assured' /\ FailsForAReason' /\ Active' \subseteq Active
  BY <1>1, <1>2, <1>3, <1>4, <1>5, <1>6, <1>7, OwnStep DEF DlTypes
<1>9. NamesApart'
  BY <1>1, <1>2, <1>3, <1>4 DEF DlInv, NamesApart
<1>10. InodesLast'
  <2>1. Used' \subseteq Used
    BY <1>1, <1>3, <1>4, <1>8 DEF Used, Active
  <2>2. Creating' \subseteq Creating
    BY <1>1, <1>3 DEF Creating
  <2> QED BY <1>1, <2>1, <2>2, InodesFreed DEF DlInv
<1>11. UncheckedIsWhole' /\ PythonIsWhole'
  BY <1>1, <1>4 DEF DlInv, UncheckedIsWhole, PythonIsWhole
<1>12. ImagesApart'
  BY <1>1, <1>2, <1>3, <1>4 DEF DlInv, ImagesApart
<1>13. SeedsGrow'
  BY <1>1 DEF SeedsGrow, Seeding, DlInv
<1> QED BY <1>8, <1>9, <1>10, <1>11, <1>12, <1>13 DEF DlInv

\* There is an inode left for who is to create one.
LEMMA InodeIsLeft ==
  ASSUME DlTypes, InodesLast, NEW p \in Fetchers, who[p].step = "create"
  PROVE  Inodes \ Used # {}
<1>1. IsFiniteSet(Inodes) /\ Cardinality(Inodes) = MaxFetches
  <2>1. MaxFetches \in Nat
    BY DownloadConstants
  <2> QED BY <2>1, FS_Interval DEF Inodes
<1>2. Cardinality(Creating) # 0 /\ Cardinality(Creating) \in Nat
  <2>1. p \in Creating
    BY DEF Creating
  <2> QED BY <2>1, FS_EmptySet, FS_CardinalityType DEF InodesLast
<1>3. Used \subseteq Inodes
  BY DEF Used, DlTypes, Names, Active, FetchRecs
<1>4. SUFFICES ASSUME Inodes \subseteq Used PROVE FALSE
  OBVIOUS
<1>5. Cardinality(Used) = MaxFetches
  <2>1. Used = Inodes
    BY <1>3, <1>4
  <2> QED BY <1>1, <2>1
<1> QED BY <1>2, <1>5, DownloadConstants DEF InodesLast, DlTypes

LEMMA CreateTmpKept ==
  ASSUME DlInv, NEW p \in Fetchers, CreateTmp(p)
  PROVE  DlInv'
<1> DEFINE n == Name(p)
           used == {dst} \cup {tmp[m] : m \in DOMAIN tmp} \cup {who[q].ino : q \in Active}
<1>1. /\ DlTypes /\ who[p].step = "create"
      /\ UNCHANGED <<what, dst, room, cache, marker, overlap, fetches>>
  BY DEF CreateTmp, DlInv
<1>2. n \in Names
  BY DEF Name, Names
<1>3. PICK i \in Inodes :
        /\ tmp' = [tmp EXCEPT ![n] = i] /\ data' = [data EXCEPT ![i] = {}]
        /\ who' = [who EXCEPT ![p].step = "half", ![p].ino = i]
        /\ tmp[n] = i \/ (tmp[n] = NoFile /\ i \notin Used)
  <2>1. DOMAIN tmp = Names
    BY <1>1 DEF DlTypes
  <2>2. Inodes \ used = Inodes \ Used
    BY <1>1, <2>1 DEF Used, Inodes, NoFile, DlTypes
  <2>3. Inodes \ used # {}
    BY <1>1, <2>2, InodeIsLeft DEF DlInv
  <2>4. Inodes \ used \subseteq Nat
    BY DownloadConstants DEF Inodes
  <2>5. \E j \in Inodes \ used : \A k \in Inodes \ used : j <= k
    <3> HIDE DEF used
    <3> QED BY <2>3, <2>4, LeastNumber
  <2> DEFINE free == CHOOSE j \in Inodes \ used : \A k \in Inodes \ used : j <= k
  <2>6. free \in Inodes \ used
    <3> HIDE DEF used
    <3> QED BY <2>5
  <2> DEFINE i == IF tmp[n] # NoFile THEN tmp[n] ELSE free
  <2>7. /\ tmp' = [tmp EXCEPT ![n] = i] /\ data' = [data EXCEPT ![i] = {}]
        /\ who' = [who EXCEPT ![p].step = "half", ![p].ino = i]
    BY DEF CreateTmp
  <2>8. tmp[n] \in Inodes \cup {NoFile}
    BY <1>1, <1>2 DEF DlTypes
  <2>9. i \in Inodes /\ (tmp[n] = i \/ (tmp[n] = NoFile /\ i \notin Used))
    <3> HIDE DEF free, n, used
    <3> QED BY <2>2, <2>6, <2>8
  <2> HIDE DEF i
  <2> QED BY <2>7, <2>9
<1> HIDE DEF n, used
<1>4. Turns(p, "half", i, who[p].res, who[p].hurt)
  <2>1. who[p] \in FetchRecs
    BY <1>1 DEF DlTypes
  <2>2. [who[p] EXCEPT !.step = "half", !.ino = i] = [step |-> "half", ino |-> i, res |-> who[p].res, hurt |-> who[p].hurt]
    <3>1. PICK x : x = [who[p] EXCEPT !.step = "half"]
      OBVIOUS
    <3>2. x \in FetchRecs /\ x = [step |-> "half", ino |-> who[p].ino, res |-> who[p].res, hurt |-> who[p].hurt]
      BY <2>1, <3>1 DEF FetchRecs, FetchSteps
    <3>3. [x EXCEPT !.ino = i] = [step |-> "half", ino |-> i, res |-> who[p].res, hurt |-> who[p].hurt]
      BY <3>2 DEF FetchRecs
    <3> QED BY <3>1, <3>3
  <2>3. who' = [who EXCEPT ![p] = [who[p] EXCEPT !.step = "half", !.ino = i]]
    BY <1>1, <1>3 DEF DlTypes
  <2> QED BY <2>2, <2>3 DEF Turns
<1>5. /\ who'[p] = [step |-> "half", ino |-> i, res |-> who[p].res, hurt |-> who[p].hurt]
      /\ \A q \in Fetchers \ {p} : who'[q] = who[q]
      /\ who[p].res \in {"none", "ok", "failed", "killed"} /\ who[p].hurt \in BOOLEAN
  BY <1>1, <1>4 DEF Turns, DlTypes, FetchRecs
<1>6. /\ tmp' \in [Names -> Inodes \cup {NoFile}] /\ data' \in [Inodes -> SUBSET Whole]
      /\ tmp'[n] = i /\ \A m \in Names \ {n} : tmp'[m] = tmp[m]
      /\ data'[i] = {} /\ \A j \in Inodes \ {i} : data'[j] = data[j]
  BY <1>1, <1>2, <1>3 DEF DlTypes
<1>7. i # NoFile
  BY DEF Inodes, NoFile
<1>8. Name(p)' = n
  BY <1>1 DEF n, Name
<1>9. KindFits(p)' /\ Knows(p)'
  BY <1>5, <1>6, <1>7, <1>8 DEF KindFits, Knows
<1>10. who[p].res = "failed" => who[p].hurt \/ (what = "unchecked" /\ overlap)
  BY DEF DlInv, FailsForAReason
<1>11. DlTypes' /\ HurtTells' /\ Assured' /\ FailsForAReason' /\ Active' \subseteq Active
  <2>1. "half" \in FetchSteps /\ i \in Inodes \cup {NoFile} /\ room' \in [Names -> SUBSET Whole] /\ dst' \in Inodes \cup {NoFile}
    BY <1>1 DEF DlTypes, FetchSteps
  <2> QED BY <1>1, <1>4, <1>5, <1>6, <1>9, <1>10, <2>1, OwnStep
<1>12. i # dst /\ \A m \in Names \ {n} : tmp[m] # i
  <2>1. CASE tmp[n] = i
    BY <1>2, <1>7, <2>1 DEF DlInv, NamesApart
  <2>2. CASE i \notin Used
    BY <1>7, <2>2 DEF Used
  <2> QED BY <1>3, <2>1, <2>2
<1>13. NamesApart'
  BY <1>1, <1>5, <1>6, <1>7, <1>12 DEF DlInv, NamesApart
<1>14. InodesLast'
  <2>1. Used' \subseteq Used \cup {i}
    BY <1>1, <1>2, <1>5, <1>6, <1>11 DEF Used, Active
  <2>2. Creating' = Creating \ {p} /\ p \in Creating
    BY <1>1, <1>5 DEF Creating
  <2>3. IsFiniteSet(Used)
    <3>1. IsFiniteSet(1..MaxFetches)
      BY DownloadConstants, FS_Interval
    <3>2. Used \subseteq 1..MaxFetches
      BY <1>1 DEF Used, DlTypes, Names, Inodes, Active, FetchRecs
    <3> QED BY <3>1, <3>2, FS_Subset
  <2>4. /\ IsFiniteSet(Used \cup {i}) /\ Cardinality(Used) \in Nat
        /\ Cardinality(Used \cup {i}) <= Cardinality(Used) + 1
    <3>1. Cardinality(Used) \in Nat
      BY <2>3, FS_CardinalityType
    <3>2. Cardinality(Used \cup {i}) = Cardinality(Used) \/ Cardinality(Used \cup {i}) = Cardinality(Used) + 1
      BY <2>3, FS_AddElement
    <3> QED BY <2>3, <3>1, <3>2, FS_AddElement
  <2>5. Cardinality(Used') <= Cardinality(Used \cup {i}) /\ Cardinality(Used') \in Nat /\ Cardinality(Used \cup {i}) \in Nat
    BY <2>1, <2>4, FS_Subset, FS_CardinalityType
  <2>6. /\ IsFiniteSet(Creating') /\ Cardinality(Creating') = Cardinality(Creating) - 1
        /\ Cardinality(Creating) \in Nat
    BY <2>2, FS_RemoveElement, FS_CardinalityType DEF DlInv, InodesLast
  <2> QED BY <1>1, <2>4, <2>5, <2>6 DEF DlInv, InodesLast, DlTypes
<1>15. UncheckedIsWhole' /\ PythonIsWhole'
  BY <1>1, <1>6, <1>12 DEF DlInv, UncheckedIsWhole, PythonIsWhole, DlTypes
<1>16. ImagesApart'
  <2> SUFFICES ASSUME what = "image"
               PROVE  /\ \A q \in Fetchers :
                           /\ who'[q].step \in {"half", "rest", "rename"} => who'[q].ino # NoFile /\ tmp'[q] = who'[q].ino
                           /\ who'[q].step = "rest" => 1 \in data'[who'[q].ino]
                           /\ who'[q].step = "rename" => data'[who'[q].ino] = Whole
                      /\ dst' # NoFile => data'[dst'] = Whole
    BY <1>1 DEF ImagesApart
  <2>1. n = p
    BY DEF n, Name
  <2>2. ASSUME NEW q \in Fetchers \ {p}, who'[q].step \in {"half", "rest", "rename"}
        PROVE  /\ who'[q] = who[q] /\ who[q].ino # NoFile /\ tmp'[q] = who[q].ino
               /\ data'[who[q].ino] = data[who[q].ino]
    <3>1. who'[q] = who[q] /\ who[q].ino # NoFile /\ tmp[q] = who[q].ino
      BY <1>5, <2>2 DEF DlInv, ImagesApart
    <3>2. q \in Names \ {n} /\ tmp[q] \in Inodes
      BY <1>1, <2>1, <3>1 DEF Names, DlTypes
    <3> QED BY <1>6, <1>12, <3>1, <3>2
  <2>3. dst # NoFile => data'[dst] = data[dst]
    BY <1>1, <1>6, <1>12 DEF DlTypes
  <2> QED BY <1>1, <1>5, <1>6, <1>7, <2>1, <2>2, <2>3 DEF DlInv, ImagesApart
<1>17. SeedsGrow'
  BY <1>1, <1>5 DEF SeedsGrow, DlInv
<1> QED BY <1>11, <1>13, <1>14, <1>15, <1>16, <1>17 DEF DlInv

LEMMA CopyBodyKept ==
  ASSUME DlInv, NEW p \in Fetchers, CopyBody(p)
  PROVE  DlInv'
<1> DEFINE i == who[p].ino
           s == IF who[p].step = "half" THEN "rest" ELSE IF Seeding THEN "open" ELSE "rename"
           more == IF who[p].step = "half" THEN {1} ELSE {2}
<1>1. /\ DlTypes /\ who[p].step \in {"half", "rest"} /\ Step(p, s)
      /\ data' = [data EXCEPT ![i] = @ \cup more]
      /\ UNCHANGED <<what, dst, tmp, room, cache, marker, overlap, fetches>>
  BY DEF CopyBody, DlInv
<1>2. i \in Inodes /\ i # NoFile
  BY <1>1 DEF DlInv, DlTypes, FetchRecs, NamesApart, Inodes, NoFile
<1>3. Turns(p, s, i, who[p].res, who[p].hurt)
  BY <1>1, StepTurns
<1>4. /\ s \in {"rest", "open", "rename"} /\ (s = "open" => Seeding) /\ (s = "rename" => ~Seeding)
      /\ (s = "rest" => more = {1}) /\ (s \in {"open", "rename"} => who[p].step = "rest" /\ more = {2})
  BY <1>1
<1>5. more \subseteq Whole
  BY DEF Whole
<1> HIDE DEF i, s, more
<1>6. /\ who'[p] = [step |-> s, ino |-> i, res |-> who[p].res, hurt |-> who[p].hurt]
      /\ \A q \in Fetchers \ {p} : who'[q] = who[q]
      /\ who[p].res \in {"none", "ok", "failed", "killed"} /\ who[p].hurt \in BOOLEAN
  BY <1>1, <1>3 DEF Turns, DlTypes, FetchRecs
<1>7. /\ data' \in [Inodes -> SUBSET Whole] /\ data'[i] = data[i] \cup more
      /\ \A j \in Inodes : data[j] \subseteq data'[j] /\ (j # i => data'[j] = data[j])
      /\ \A j \in Inodes : data'[j] \subseteq Whole
  BY <1>1, <1>2, <1>5 DEF DlTypes
<1>8. KindFits(p)'
  BY <1>1, <1>4, <1>6 DEF KindFits, Seeding
<1>9. 1 \in data[i] /\ s \in {"open", "rename"} => data'[i] = Whole
  BY <1>2, <1>4, <1>7 DEF Whole
<1>10. ~who[p].hurt => Knows(p)'
  <2> SUFFICES ASSUME ~who[p].hurt PROVE Knows(p)'
    OBVIOUS
  <2>1. Knows(p)
    BY <1>1 DEF DlInv, Assured
  <2>2. tmp[Name(p)] = i /\ (who[p].step = "rest" => 1 \in data[i])
    BY <1>1, <2>1 DEF Knows, i
  <2>3. Name(p)' = Name(p)
    BY <1>1 DEF Name
  <2> QED BY <1>1, <1>2, <1>4, <1>6, <1>7, <1>9, <2>2, <2>3 DEF Knows
<1>11. who[p].res = "failed" => who[p].hurt \/ (what = "unchecked" /\ overlap)
  BY DEF DlInv, FailsForAReason
<1>12. DlTypes' /\ HurtTells' /\ Assured' /\ FailsForAReason' /\ Active' \subseteq Active
  <2>1. s \in FetchSteps /\ i \in Inodes \cup {NoFile} /\ room' \in [Names -> SUBSET Whole]
        /\ dst' \in Inodes \cup {NoFile} /\ tmp' \in [Names -> Inodes \cup {NoFile}]
    BY <1>1, <1>2, <1>4 DEF DlTypes, FetchSteps
  <2> QED BY <1>1, <1>3, <1>6, <1>7, <1>8, <1>10, <1>11, <2>1, OwnStep
<1>13. NamesApart'
  BY <1>1, <1>2, <1>4, <1>6 DEF DlInv, NamesApart
<1>14. InodesLast'
  <2>1. Used' \subseteq Used
    BY <1>1, <1>6, <1>12 DEF Used, Active, i
  <2>2. Creating' \subseteq Creating
    BY <1>4, <1>6 DEF Creating
  <2> QED BY <1>1, <2>1, <2>2, InodesFreed DEF DlInv
<1>15. UncheckedIsWhole' /\ PythonIsWhole'
  <2>1. dst \in Inodes /\ data[dst] = Whole => data'[dst] = Whole
    BY <1>7
  <2> QED BY <1>1, <2>1 DEF DlInv, UncheckedIsWhole, PythonIsWhole, DlTypes
<1>16. ImagesApart'
  <2> SUFFICES ASSUME what = "image"
               PROVE  /\ \A q \in Fetchers :
                           /\ who'[q].step \in {"half", "rest", "rename"} => who'[q].ino # NoFile /\ tmp'[q] = who'[q].ino
                           /\ who'[q].step = "rest" => 1 \in data'[who'[q].ino]
                           /\ who'[q].step = "rename" => data'[who'[q].ino] = Whole
                      /\ dst' # NoFile => data'[dst'] = Whole
    BY <1>1 DEF ImagesApart
  <2>1. \A j \in Inodes : data[j] = Whole => data'[j] = Whole
    BY <1>7
  <2>2. ASSUME NEW q \in Fetchers \ {p}, who'[q].step \in {"half", "rest", "rename"}
        PROVE  /\ who'[q].ino # NoFile /\ tmp'[q] = who'[q].ino
               /\ who'[q].step = "rest" => 1 \in data'[who'[q].ino]
               /\ who'[q].step = "rename" => data'[who'[q].ino] = Whole
    <3>1. who'[q] = who[q] /\ who[q].ino \in Inodes
      BY <1>1, <1>6, <2>2 DEF DlInv, ImagesApart, DlTypes, FetchRecs
    <3> QED BY <1>1, <1>7, <2>1, <2>2, <3>1 DEF DlInv, ImagesApart
  <2>3. tmp[p] = i /\ (who[p].step = "rest" => 1 \in data[i])
    BY <1>1 DEF DlInv, ImagesApart, i
  <2>4. dst # NoFile => data'[dst] = Whole
    BY <1>1, <2>1 DEF DlInv, ImagesApart, DlTypes
  <2>5. s = "rest" => 1 \in data'[i]
    BY <1>4, <1>7
  <2> QED BY <1>1, <1>2, <1>4, <1>6, <1>9, <2>2, <2>3, <2>4, <2>5
<1>17. SeedsGrow'
  BY <1>1, <1>4, <1>6 DEF SeedsGrow, DlInv
<1> QED BY <1>12, <1>13, <1>14, <1>15, <1>16, <1>17 DEF DlInv

LEMMA StopTurns ==
  ASSUME DlTypes, NEW p \in Fetchers, NEW r \in {"none", "ok", "failed", "killed"},
         who' = [who EXCEPT ![p].step = "idle", ![p].res = r, ![p].hurt = TRUE]
  PROVE  Turns(p, "idle", who[p].ino, r, TRUE)
<1>1. who[p] \in FetchRecs
  BY DEF DlTypes
<1>2. PICK x : x = [who[p] EXCEPT !.step = "idle"]
  OBVIOUS
<1>3. x \in FetchRecs /\ x = [step |-> "idle", ino |-> who[p].ino, res |-> who[p].res, hurt |-> who[p].hurt]
  BY <1>1, <1>2 DEF FetchRecs, FetchSteps
<1>4. PICK y : y = [x EXCEPT !.res = r]
  OBVIOUS
<1>5. y \in FetchRecs /\ y = [step |-> "idle", ino |-> who[p].ino, res |-> r, hurt |-> who[p].hurt]
  BY <1>3, <1>4 DEF FetchRecs
<1>6. [y EXCEPT !.hurt = TRUE] = [step |-> "idle", ino |-> who[p].ino, res |-> r, hurt |-> TRUE]
  <2>1. \A h : [y EXCEPT !.hurt = h] = [step |-> "idle", ino |-> who[p].ino, res |-> r, hurt |-> h]
    BY <1>5 DEF FetchRecs
  <2> QED BY <2>1
<1>7. who' = [who EXCEPT ![p] = [who[p] EXCEPT !.step = "idle", !.res = r, !.hurt = TRUE]]
  BY DEF DlTypes
<1> QED BY <1>2, <1>4, <1>6, <1>7 DEF Turns

\* A step that writes to no inode and names none anew.
LEMMA LightStep ==
  ASSUME DlInv, NEW p \in Fetchers, who[p].step # "idle",
         NEW s \in FetchSteps, NEW i \in Inodes \cup {NoFile},
         NEW r \in {"none", "ok", "failed", "killed"}, NEW h \in BOOLEAN,
         Turns(p, s, i, r, h), h = who[p].hurt \/ s = "idle",
         s \notin {"stat", "create", "half", "rest", "rename"},
         s \in {"untar", "untar2"} => i # NoFile,
         i \in Used \cup {NoFile} \/ s = "idle",
         UNCHANGED <<what, overlap, fetches, data>>, dst' \in {dst, NoFile},
         tmp' \in [Names -> Inodes \cup {NoFile}],
         \A n \in Names : tmp'[n] \in {tmp[n], NoFile},
         what = "image" => \A q \in Fetchers \ {p} : tmp'[q] = tmp[q],
         room' \in [Names -> SUBSET Whole],
         KindFits(p)',
         s # "idle" /\ ~h => Knows(p)',
         r = "failed" => h \/ (what = "unchecked" /\ overlap),
         SeedsGrow', PythonIsWhole'
  PROVE  DlInv'
<1>1. /\ DlTypes /\ dst' \in Inodes \cup {NoFile} /\ data' \in [Inodes -> SUBSET Whole]
      /\ data' = data
  BY DEF DlInv, DlTypes
<1>2. DlTypes' /\ HurtTells' /\ Assured' /\ FailsForAReason' /\ Active' \subseteq Active
  BY <1>1, OwnStep
<1>3. /\ who'[p] = [step |-> s, ino |-> i, res |-> r, hurt |-> h]
      /\ \A q \in Fetchers \ {p} : who'[q] = who[q]
  BY <1>1 DEF Turns, DlTypes
<1>4. NamesApart'
  BY <1>1, <1>3 DEF DlInv, NamesApart
<1>5. InodesLast'
  <2>1. ASSUME NEW q \in Active' PROVE who'[q].ino \in Used \cup {NoFile}
    <3>1. CASE q = p
      BY <1>3, <2>1, <3>1 DEF Active
    <3>2. CASE q # p
      BY <1>2, <1>3, <2>1, <3>2 DEF Active, Used
    <3> QED BY <3>1, <3>2
  <2>2. \A n \in Names : tmp'[n] \in Used \cup {NoFile}
    BY DEF Used
  <2>3. dst' \in Used \cup {NoFile}
    BY DEF Used
  <2>4. Used' \subseteq Used
    BY <2>1, <2>2, <2>3 DEF Used
  <2>5. Creating' \subseteq Creating
    BY <1>3 DEF Creating
  <2> QED BY <1>1, <2>4, <2>5, InodesFreed DEF DlInv
<1>6. UncheckedIsWhole'
  BY <1>1 DEF DlInv, UncheckedIsWhole
<1>7. ImagesApart'
  BY <1>1, <1>3 DEF DlInv, ImagesApart
<1> QED BY <1>2, <1>4, <1>5, <1>6, <1>7 DEF DlInv

LEMMA RenameKept ==
  ASSUME DlInv, NEW p \in Fetchers, Rename(p)
  PROVE  DlInv'
<1> DEFINE n == Name(p)
           i == who[p].ino
<1>1. /\ DlTypes /\ who[p].step = "rename" /\ ~Seeding
      /\ UNCHANGED <<what, data, room, cache, marker, overlap, fetches>>
      /\ \/ /\ tmp[n] # NoFile
            /\ dst' = tmp[n] /\ tmp' = [tmp EXCEPT ![n] = NoFile]
            /\ CASE what = "image"     -> Finish(p, "ok")
                 [] what = "unchecked" -> Step(p, "extract")
                 [] OTHER              -> Step(p, "verify")
         \/ tmp[n] = NoFile /\ Finish(p, "failed") /\ UNCHANGED <<dst, tmp>>
  BY DEF Rename, DlInv, DlTypes, KindFits
<1>2. n \in Names /\ tmp[n] \in Inodes \cup {NoFile} /\ i \in Inodes \cup {NoFile}
      /\ who[p].res \in {"none", "ok", "failed", "killed"} /\ who[p].hurt \in BOOLEAN
  BY <1>1 DEF Name, Names, DlTypes, FetchRecs
<1>3. ~who[p].hurt => tmp[n] = i /\ i # NoFile /\ data[i] = Whole
  BY <1>1 DEF DlInv, Assured, Knows
<1>4. room' \in [Names -> SUBSET Whole] /\ SeedsGrow' /\ PythonIsWhole'
  BY <1>1 DEF SeedsGrow, DlInv, DlTypes, PythonIsWhole, Seeding
<1> HIDE DEF n, i
<1>5. CASE tmp[n] = NoFile
  <2>1. Turns(p, "idle", i, "failed", who[p].hurt) /\ UNCHANGED <<dst, tmp>>
    BY <1>1, <1>5, FinishTurns DEF i
  <2>2. who'[p].step = "idle"
    BY <1>1, <2>1 DEF Turns, DlTypes
  <2>3. KindFits(p)'
    BY <2>2 DEF KindFits
  <2>4. who[p].hurt
    BY <1>3, <1>5
  <2>5. tmp' \in [Names -> Inodes \cup {NoFile}] /\ \A m \in Names : tmp'[m] \in {tmp[m], NoFile}
    BY <1>1, <2>1 DEF DlTypes
  <2>6. "idle" \in FetchSteps
    BY DEF FetchSteps
  <2>7. what = "image" => \A q \in Fetchers \ {p} : tmp'[q] = tmp[q]
    BY <2>1
  <2> QED BY <1>1, <1>2, <1>4, <2>1, <2>3, <2>4, <2>5, <2>6, <2>7, LightStep
<1>6. CASE tmp[n] # NoFile
  <2>1. PICK s \in {"idle", "extract", "verify"}, r \in {"none", "ok", "failed", "killed"} :
          /\ Turns(p, s, i, r, who[p].hurt)
          /\ s = "extract" => what # "image"
          /\ s = "verify" => what \notin {"image", "unchecked"}
          /\ s = "idle" => r = "ok"
          /\ s # "idle" => r = who[p].res
    <3>1. CASE what = "image"
      BY <1>1, <1>6, <3>1, FinishTurns DEF i
    <3>2. CASE what = "unchecked"
      BY <1>1, <1>2, <1>6, <3>2, StepTurns DEF i
    <3>3. CASE what \notin {"image", "unchecked"}
      BY <1>1, <1>2, <1>6, <3>3, StepTurns DEF i
    <3> QED BY <3>1, <3>2, <3>3
  <2>2. /\ who'[p] = [step |-> s, ino |-> i, res |-> r, hurt |-> who[p].hurt]
        /\ \A q \in Fetchers \ {p} : who'[q] = who[q]
    BY <1>1, <2>1 DEF Turns, DlTypes
  <2>3. dst' = tmp[n] /\ tmp' = [tmp EXCEPT ![n] = NoFile]
    BY <1>1, <1>6
  <2>4. /\ tmp' \in [Names -> Inodes \cup {NoFile}] /\ dst' \in Inodes \cup {NoFile}
        /\ tmp'[n] = NoFile /\ \A m \in Names \ {n} : tmp'[m] = tmp[m]
    BY <1>1, <1>2, <2>3 DEF DlTypes
  <2>5. KindFits(p)'
    BY <1>1, <2>1, <2>2 DEF KindFits, Seeding
  <2>6. s # "idle" /\ ~who[p].hurt => Knows(p)'
    <3> SUFFICES ASSUME ~who[p].hurt, s # "idle" PROVE Knows(p)'
      OBVIOUS
    <3>1. Content(dst)' = Whole
      BY <1>1, <1>3, <1>6, <2>3 DEF Content
    <3> QED BY <2>1, <2>2, <3>1 DEF Knows
  <2>7. r = "failed" => who[p].hurt \/ (what = "unchecked" /\ overlap)
    BY <2>1 DEF DlInv, FailsForAReason
  <2>8. DlTypes' /\ HurtTells' /\ Assured' /\ FailsForAReason' /\ Active' \subseteq Active
    <3>1. s \in FetchSteps /\ data' \in [Inodes -> SUBSET Whole]
      BY <1>1 DEF FetchSteps, DlTypes
    <3> QED BY <1>1, <1>2, <1>4, <2>1, <2>4, <2>5, <2>6, <2>7, <3>1, OwnStep
  <2>9. NamesApart'
    BY <1>1, <1>2, <1>6, <2>1, <2>2, <2>3, <2>4 DEF DlInv, NamesApart
  <2>10. InodesLast'
    <3>1. Used' \subseteq Used
      BY <1>1, <1>2, <2>2, <2>3, <2>4, <2>8 DEF Used, Active, i
    <3>2. Creating' \subseteq Creating
      BY <2>1, <2>2 DEF Creating
    <3> QED BY <1>1, <3>1, <3>2, InodesFreed DEF DlInv
  <2>11. UncheckedIsWhole'
    <3> SUFFICES ASSUME ~overlap PROVE data[tmp[n]] = Whole
      BY <1>1, <2>3 DEF UncheckedIsWhole
    <3>1. ~who[p].hurt
      BY <1>1 DEF DlInv, HurtTells, Active
    <3> QED BY <1>3, <3>1
  <2>12. ImagesApart'
    <3> SUFFICES ASSUME what = "image"
                 PROVE  /\ \A q \in Fetchers :
                             /\ who'[q].step \in {"half", "rest", "rename"} => who'[q].ino # NoFile /\ tmp'[q] = who'[q].ino
                             /\ who'[q].step = "rest" => 1 \in data'[who'[q].ino]
                             /\ who'[q].step = "rename" => data'[who'[q].ino] = Whole
                        /\ dst' # NoFile => data'[dst'] = Whole
      BY <1>1 DEF ImagesApart
    <3>1. n = p
      BY DEF n, Name
    <3>2. tmp[p] = i /\ data[i] = Whole
      BY <1>1 DEF DlInv, ImagesApart, i
    <3>3. \A q \in Fetchers \ {p} : tmp'[q] = tmp[q]
      BY <2>4, <3>1 DEF Names
    <3> QED BY <1>1, <2>1, <2>2, <2>3, <3>1, <3>2, <3>3 DEF DlInv, ImagesApart
  <2> QED BY <1>4, <2>8, <2>9, <2>10, <2>11, <2>12 DEF DlInv
<1> QED BY <1>5, <1>6

LEMMA VerifyKept ==
  ASSUME DlInv, NEW p \in Fetchers, Verify(p)
  PROVE  DlInv'
<1>1. /\ DlTypes /\ who[p].step = "verify" /\ ~Seeding /\ what \notin {"image", "unchecked"}
      /\ UNCHANGED <<what, tmp, data, room, cache, marker, overlap, fetches>>
  BY DEF Verify, DlInv, DlTypes, KindFits
<1>2. who[p].ino \in Used \cup {NoFile} /\ who[p].ino \in Inodes \cup {NoFile}
      /\ who[p].res \in {"none", "ok", "failed", "killed"} /\ who[p].hurt \in BOOLEAN
  BY <1>1 DEF Used, Active, DlTypes, FetchRecs
<1>3. PICK s \in {"idle", "extract"}, r \in {"none", "ok", "failed", "killed"} :
        /\ Turns(p, s, who[p].ino, r, who[p].hurt)
        /\ \/ s = "extract" /\ r = who[p].res /\ Accepted(dst) /\ dst' = dst
           \/ s = "idle" /\ ~Accepted(dst) /\ dst' = NoFile
  BY <1>1, <1>2, StepTurns, FinishTurns DEF Verify
<1>4. who'[p] = [step |-> s, ino |-> who[p].ino, res |-> r, hurt |-> who[p].hurt]
  BY <1>1, <1>3 DEF Turns, DlTypes
<1>5. KindFits(p)'
  BY <1>1, <1>3, <1>4 DEF KindFits, Seeding
<1>6. ~who[p].hurt => Accepted(dst)
  BY <1>1 DEF DlInv, Assured, Knows, Accepted
<1>7. s # "idle" => Knows(p)'
  BY <1>1, <1>3, <1>4 DEF Knows, Accepted, Content
<1>8. r = "failed" => who[p].hurt \/ (what = "unchecked" /\ overlap)
  BY <1>3, <1>6 DEF DlInv, FailsForAReason
<1>9. /\ tmp' \in [Names -> Inodes \cup {NoFile}] /\ room' \in [Names -> SUBSET Whole] /\ s \in FetchSteps
      /\ (\A n \in Names : tmp'[n] \in {tmp[n], NoFile}) /\ (\A q \in Fetchers \ {p} : tmp'[q] = tmp[q])
      /\ SeedsGrow' /\ PythonIsWhole' /\ dst' \in {dst, NoFile}
  BY <1>1, <1>3 DEF DlTypes, DlInv, SeedsGrow, PythonIsWhole, Seeding, FetchSteps
<1> QED BY <1>1, <1>2, <1>3, <1>5, <1>7, <1>8, <1>9, LightStep

LEMMA ExtractKept ==
  ASSUME DlInv, NEW p \in Fetchers, Extract(p)
  PROVE  DlInv'
<1>1. /\ DlTypes /\ who[p].step = "extract" /\ ~Seeding /\ room' = [room EXCEPT ![p] = Content(dst)]
      /\ UNCHANGED <<what, dst, tmp, data, cache, marker, overlap, fetches>>
      /\ Finish(p, IF Content(dst) = Whole THEN "ok" ELSE "failed")
  BY DEF Extract, DlInv, DlTypes, KindFits
<1>2. who[p].ino \in Inodes \cup {NoFile} /\ who[p].hurt \in BOOLEAN
  BY <1>1 DEF DlTypes, FetchRecs
<1>3. PICK r \in {"ok", "failed"} :
        Turns(p, "idle", who[p].ino, r, who[p].hurt) /\ (r = "failed" => Content(dst) # Whole)
  BY <1>1, FinishTurns
<1>4. who'[p].step = "idle"
  BY <1>1, <1>3 DEF Turns, DlTypes
<1>5. r = "failed" => who[p].hurt \/ (what = "unchecked" /\ overlap)
  BY <1>1, <1>3 DEF DlInv, Assured, Knows
<1>6. room' \in [Names -> SUBSET Whole]
  BY <1>1 DEF DlTypes, Content
<1>7. KindFits(p)'
  BY <1>4 DEF KindFits
<1>8. /\ tmp' \in [Names -> Inodes \cup {NoFile}] /\ "idle" \in FetchSteps
      /\ (\A n \in Names : tmp'[n] \in {tmp[n], NoFile}) /\ (\A q \in Fetchers \ {p} : tmp'[q] = tmp[q])
      /\ SeedsGrow' /\ PythonIsWhole' /\ dst' \in {dst, NoFile}
  BY <1>1 DEF DlTypes, DlInv, SeedsGrow, PythonIsWhole, Seeding, FetchSteps
<1> QED BY <1>1, <1>2, <1>3, <1>5, <1>6, <1>7, <1>8, LightStep

\* What a seed's step leaves to LightStep, when it gives up or goes on.
LEMMA GivesUp ==
  ASSUME DlInv, NEW p \in Fetchers, who[p].step # "idle", Seeding, GiveUp(p), who[p].hurt,
         UNCHANGED <<what, dst, data, cache, marker, overlap, fetches>>
  PROVE  DlInv'
<1>1. DlTypes /\ Turns(p, "idle", who[p].ino, "failed", TRUE)
  BY FinishTurns DEF GiveUp, DlInv
<1>2. who'[p].step = "idle" /\ (\A q \in Fetchers \ {p} : who'[q] = who[q])
  BY <1>1 DEF Turns, DlTypes
<1>3. who[p].ino \in Inodes \cup {NoFile}
  BY <1>1 DEF DlTypes, FetchRecs
<1>4. room' \in [Names -> SUBSET Whole] /\ (what # "python" => room' = room)
  BY <1>1 DEF GiveUp, DlTypes, Names
<1>5. tmp' \in [Names -> Inodes \cup {NoFile}] /\ \A n \in Names : tmp'[n] \in {tmp[n], NoFile}
  BY <1>1 DEF GiveUp, DlTypes, Names
<1>6. SeedsGrow' /\ PythonIsWhole'
  BY <1>2, <1>4 DEF DlInv, SeedsGrow, PythonIsWhole
<1>7. KindFits(p)' /\ what # "image" /\ "idle" \in FetchSteps /\ dst' \in {dst, NoFile}
  BY <1>2 DEF KindFits, Seeding, FetchSteps
<1> QED BY <1>1, <1>3, <1>4, <1>5, <1>6, <1>7, LightStep

LEMMA OpenArchiveKept ==
  ASSUME DlInv, NEW p \in Fetchers, OpenArchive(p)
  PROVE  DlInv'
<1> DEFINE i == tmp[Public]
<1>1. /\ DlTypes /\ who[p].step = "open" /\ Seeding
      /\ UNCHANGED <<what, dst, data, cache, marker, overlap, fetches>>
  BY DEF OpenArchive, DlInv, DlTypes, KindFits
<1>2. /\ i \in Inodes \cup {NoFile} /\ i \in Used \cup {NoFile} /\ Name(p) = Public
      /\ who[p].res \in {"none", "ok", "failed", "killed"} /\ who[p].hurt \in BOOLEAN
  BY <1>1 DEF DlTypes, FetchRecs, Names, Used, Name, Seeding
<1>3. ~who[p].hurt => who[p].ino = i /\ i # NoFile /\ Content(i) = Whole
  BY <1>1, <1>2 DEF DlInv, Assured, Knows, Content
<1>4. CASE i # NoFile /\ (what = "zip" => 2 \in Content(i))
           /\ who' = [who EXCEPT ![p].step = "untar", ![p].ino = i]
           /\ room' = (IF what = "python" THEN [room EXCEPT ![Public] = {}] ELSE room)
           /\ tmp' = tmp
  <2>1. Turns(p, "untar", i, who[p].res, who[p].hurt)
    <3> HIDE DEF i
    <3>1. who[p] \in FetchRecs
      BY <1>1 DEF DlTypes
    <3>2. PICK x : x = [who[p] EXCEPT !.step = "untar"]
      OBVIOUS
    <3>3. x \in FetchRecs /\ x = [step |-> "untar", ino |-> who[p].ino, res |-> who[p].res, hurt |-> who[p].hurt]
      BY <3>1, <3>2 DEF FetchRecs, FetchSteps
    <3>4. [x EXCEPT !.ino = i] = [step |-> "untar", ino |-> i, res |-> who[p].res, hurt |-> who[p].hurt]
      BY <3>3 DEF FetchRecs
    <3>5. who' = [who EXCEPT ![p] = [who[p] EXCEPT !.step = "untar", !.ino = i]]
      BY <1>1, <1>4 DEF DlTypes
    <3> QED BY <3>2, <3>4, <3>5 DEF Turns
  <2>2. /\ who'[p] = [step |-> "untar", ino |-> i, res |-> who[p].res, hurt |-> who[p].hurt]
        /\ \A q \in Fetchers \ {p} : who'[q] = who[q]
    BY <1>1, <2>1 DEF Turns, DlTypes
  <2> HIDE DEF i
  <2>3. KindFits(p)'
    BY <1>1, <2>2 DEF KindFits, Seeding
  <2>4. ~who[p].hurt => Knows(p)'
    BY <1>1, <1>3, <2>2 DEF Knows, Content
  <2>5. who[p].res = "failed" => who[p].hurt \/ (what = "unchecked" /\ overlap)
    BY DEF DlInv, FailsForAReason
  <2>6. room' \in [Names -> SUBSET Whole] /\ (what # "python" => room' = room)
    BY <1>1, <1>4 DEF DlTypes
  <2>7. SeedsGrow' /\ PythonIsWhole'
    BY <1>1, <2>2, <2>6 DEF DlInv, SeedsGrow, PythonIsWhole
  <2>8. /\ tmp' \in [Names -> Inodes \cup {NoFile}] /\ (\A n \in Names : tmp'[n] \in {tmp[n], NoFile})
        /\ what # "image" /\ "untar" \in FetchSteps /\ dst' \in {dst, NoFile}
    BY <1>1, <1>4 DEF DlTypes, Seeding, FetchSteps
  <2> QED BY <1>1, <1>2, <1>4, <2>1, <2>3, <2>4, <2>5, <2>6, <2>7, <2>8, LightStep
<1>5. CASE (i = NoFile \/ (what = "zip" /\ 2 \notin Content(i))) /\ GiveUp(p)
  <2>1. who[p].hurt
    BY <1>3, <1>5 DEF Whole
  <2> QED BY <1>1, <1>5, <2>1, GivesUp
<1> QED BY <1>4, <1>5 DEF OpenArchive

LEMMA UnpackKept ==
  ASSUME DlInv, NEW p \in Fetchers, Unpack(p)
  PROVE  DlInv'
<1> DEFINE h == IF who[p].step = "untar" THEN 1 ELSE 2
           s == IF h = 1 THEN "untar2" ELSE IF what = "python" THEN "setup" ELSE "mark"
           i == who[p].ino
<1>1. /\ DlTypes /\ who[p].step \in {"untar", "untar2"} /\ Seeding
      /\ UNCHANGED <<what, dst, data, cache, marker, overlap, fetches>>
  BY DEF Unpack, DlInv, DlTypes, KindFits
<1>2. /\ i \in Inodes /\ i # NoFile /\ i \in Used /\ what # "image"
      /\ who[p].res \in {"none", "ok", "failed", "killed"} /\ who[p].hurt \in BOOLEAN
  BY <1>1 DEF DlInv, NamesApart, DlTypes, FetchRecs, Used, Active, Seeding
<1>3. h \in {1, 2} /\ h \in Whole /\ (h = 1 <=> who[p].step = "untar")
  BY <1>1 DEF Whole
<1>4. ~who[p].hurt => Knows(p)
  BY <1>1 DEF DlInv, Assured
<1>5. CASE /\ room' = [room EXCEPT ![Public] = @ \cup {h}]
           /\ Step(p, s) /\ tmp' = tmp
  <2>1. Turns(p, s, i, who[p].res, who[p].hurt)
    BY <1>1, <1>5, StepTurns
  <2>2. /\ s \in {"untar2", "setup", "mark"} /\ (s = "untar2" <=> h = 1)
        /\ (s = "setup" => what = "python") /\ (s = "mark" => what # "python")
    BY <1>3
  <2> HIDE DEF s, h, i
  <2>3. /\ who'[p] = [step |-> s, ino |-> i, res |-> who[p].res, hurt |-> who[p].hurt]
        /\ \A q \in Fetchers \ {p} : who'[q] = who[q]
    BY <1>1, <2>1 DEF Turns, DlTypes
  <2>4. room' \in [Names -> SUBSET Whole] /\ room'[Public] = room[Public] \cup {h} /\ room[Public] \subseteq Whole
    BY <1>1, <1>3, <1>5 DEF DlTypes, Names
  <2>5. KindFits(p)'
    BY <1>1, <2>2, <2>3 DEF KindFits, Seeding
  <2>6. s # "untar2" /\ 1 \in room[Public] => room'[Public] = Whole
    BY <1>3, <2>2, <2>4 DEF Whole
  <2>7. ~who[p].hurt => Knows(p)'
    <3> SUFFICES ASSUME ~who[p].hurt PROVE Knows(p)'
      OBVIOUS
    <3>1. data[i] = Whole /\ (who[p].step = "untar2" => 1 \in room[Public])
      BY <1>1, <1>4 DEF Knows, i
    <3>2. s = "untar2" => 1 \in room'[Public]
      BY <2>2, <2>4
    <3>3. s = "setup" => room'[Public] = Whole
      BY <1>1, <1>3, <2>2, <2>6, <3>1
    <3> QED BY <1>1, <1>2, <2>2, <2>3, <3>1, <3>2, <3>3 DEF Knows
  <2>8. who[p].res = "failed" => who[p].hurt \/ (what = "unchecked" /\ overlap)
    BY DEF DlInv, FailsForAReason
  <2>9. SeedsGrow'
    <3> SUFFICES ASSUME what \in {"seed", "zip"}
                 PROVE  /\ \A q \in Fetchers :
                             /\ who'[q].step = "untar2" => 1 \in room'[Public]
                             /\ who'[q].step \in {"mark", "chown"} => room'[Public] = Whole
                        /\ marker' => room'[Public] = Whole
      BY <1>1 DEF SeedsGrow
    <3>1. room[Public] \subseteq room'[Public] /\ (room[Public] = Whole => room'[Public] = Whole)
      BY <1>3, <2>4
    <3>2. h = 1 => 1 \in room'[Public]
      BY <2>4
    <3>3. s # "untar2" => room'[Public] = Whole
      BY <1>1, <1>3, <2>2, <2>6 DEF DlInv, SeedsGrow
    <3>4. \A q \in Fetchers \ {p} :
             /\ who[q].step = "untar2" => 1 \in room[Public]
             /\ who[q].step \in {"mark", "chown"} => room[Public] = Whole
      BY DEF DlInv, SeedsGrow
    <3>5. marker => room[Public] = Whole
      BY DEF DlInv, SeedsGrow
    <3> QED BY <1>1, <2>2, <2>3, <3>1, <3>2, <3>3, <3>4, <3>5
  <2>10. /\ PythonIsWhole' /\ tmp' \in [Names -> Inodes \cup {NoFile}] /\ (\A n \in Names : tmp'[n] \in {tmp[n], NoFile})
         /\ s \in FetchSteps /\ dst' \in {dst, NoFile}
    BY <1>1, <1>5, <2>2 DEF DlInv, PythonIsWhole, DlTypes, FetchSteps
  <2> QED BY <1>1, <1>2, <2>1, <2>2, <2>4, <2>5, <2>7, <2>8, <2>9, <2>10, LightStep
<1>6. CASE (h \notin Content(i) \/ (what = "python" /\ who[p].hurt)) /\ GiveUp(p)
  <2>1. who[p].hurt
    <3>1. ~who[p].hurt => Content(i) = Whole
      BY <1>1, <1>4 DEF Knows, Content
    <3> QED BY <1>3, <1>6, <3>1
  <2> QED BY <1>1, <1>6, <2>1, GivesUp
<1> QED BY <1>5, <1>6 DEF Unpack

LEMMA SetupPythonKept ==
  ASSUME DlInv, NEW p \in Fetchers, SetupPython(p)
  PROVE  DlInv'
<1>1. /\ DlTypes /\ who[p].step = "setup" /\ Seeding /\ what = "python"
      /\ UNCHANGED <<what, dst, data, overlap, fetches>>
  BY DEF SetupPython, DlInv, DlTypes, KindFits
<1>2. /\ who[p].ino \in Inodes \cup {NoFile} /\ who[p].ino \in Used \cup {NoFile}
      /\ who[p].res \in {"none", "ok", "failed", "killed"} /\ who[p].hurt \in BOOLEAN
  BY <1>1 DEF DlTypes, FetchRecs, Used, Active
<1>3. ~who[p].hurt => room[Public] = Whole
  BY <1>1 DEF DlInv, Assured, Knows
<1>4. CASE cache' = room[Public] /\ marker' = TRUE /\ Step(p, "chown") /\ UNCHANGED <<tmp, room>>
  <2>1. Turns(p, "chown", who[p].ino, who[p].res, who[p].hurt)
    BY <1>1, <1>4, StepTurns
  <2>2. who'[p] = [step |-> "chown", ino |-> who[p].ino, res |-> who[p].res, hurt |-> who[p].hurt]
    BY <1>1, <2>1 DEF Turns, DlTypes
  <2>3. KindFits(p)' /\ Knows(p)'
    BY <1>1, <2>2 DEF KindFits, Seeding, Knows
  <2>4. who[p].res = "failed" => who[p].hurt \/ (what = "unchecked" /\ overlap)
    BY DEF DlInv, FailsForAReason
  <2>5. SeedsGrow'
    BY <1>1 DEF SeedsGrow
  <2>6. PythonIsWhole'
    <3>1. ~overlap => ~who[p].hurt
      BY <1>1 DEF DlInv, HurtTells, Active
    <3> QED BY <1>1, <1>3, <1>4, <3>1 DEF PythonIsWhole
  <2>7. /\ tmp' \in [Names -> Inodes \cup {NoFile}] /\ (\A n \in Names : tmp'[n] \in {tmp[n], NoFile})
        /\ room' \in [Names -> SUBSET Whole] /\ "chown" \in FetchSteps /\ dst' \in {dst, NoFile}
    BY <1>1, <1>4 DEF DlTypes, FetchSteps
  <2> QED BY <1>1, <1>2, <2>1, <2>3, <2>4, <2>5, <2>6, <2>7, LightStep
<1>5. CASE 1 \notin room[Public] /\ GiveUp(p) /\ UNCHANGED <<cache, marker>>
  <2>1. who[p].hurt
    BY <1>3, <1>5 DEF Whole
  <2> QED BY <1>1, <1>5, <2>1, GivesUp
<1> QED BY <1>4, <1>5 DEF SetupPython

LEMMA MarkSeedKept ==
  ASSUME DlInv, NEW p \in Fetchers, MarkSeed(p)
  PROVE  DlInv'
<1>1. /\ DlTypes /\ who[p].step = "mark" /\ Seeding /\ what # "python" /\ Step(p, "chown")
      /\ UNCHANGED <<what, dst, tmp, data, room, cache, overlap, fetches>>
  BY DEF MarkSeed, DlInv, DlTypes, KindFits
<1>2. /\ who[p].ino \in Inodes \cup {NoFile} /\ who[p].ino \in Used \cup {NoFile}
      /\ who[p].res \in {"none", "ok", "failed", "killed"} /\ who[p].hurt \in BOOLEAN
  BY <1>1 DEF DlTypes, FetchRecs, Used, Active
<1>3. Turns(p, "chown", who[p].ino, who[p].res, who[p].hurt)
  BY <1>1, StepTurns
<1>4. /\ who'[p] = [step |-> "chown", ino |-> who[p].ino, res |-> who[p].res, hurt |-> who[p].hurt]
      /\ \A q \in Fetchers \ {p} : who'[q] = who[q]
  BY <1>1, <1>3 DEF Turns, DlTypes
<1>5. KindFits(p)' /\ Knows(p)'
  BY <1>1, <1>4 DEF KindFits, Seeding, Knows
<1>6. who[p].res = "failed" => who[p].hurt \/ (what = "unchecked" /\ overlap)
  BY DEF DlInv, FailsForAReason
<1>7. SeedsGrow' /\ PythonIsWhole'
  BY <1>1, <1>4 DEF DlInv, SeedsGrow, PythonIsWhole
<1>8. /\ tmp' \in [Names -> Inodes \cup {NoFile}] /\ (\A n \in Names : tmp'[n] \in {tmp[n], NoFile})
      /\ room' \in [Names -> SUBSET Whole] /\ "chown" \in FetchSteps /\ what # "image" /\ dst' \in {dst, NoFile}
  BY <1>1 DEF DlTypes, FetchSteps, Seeding
<1> QED BY <1>1, <1>2, <1>3, <1>5, <1>6, <1>7, <1>8, LightStep

\* A process is done, or breaks off: its step is over, what it tidies away is its own.
LEMMA StopsKept ==
  ASSUME DlInv, NEW p \in Fetchers, ChownSeed(p) \/ StepFails(p) \/ KillFetch(p)
  PROVE  DlInv'
<1>1. /\ DlTypes /\ who[p].step # "idle" /\ (who[p].step = "chown" => Seeding)
      /\ UNCHANGED <<what, dst, data, cache, marker, overlap, fetches>>
  BY DEF ChownSeed, StepFails, KillFetch, DlInv, DlTypes, KindFits
<1>2. who[p].ino \in Inodes \cup {NoFile} /\ who[p].hurt \in BOOLEAN
  BY <1>1 DEF DlTypes, FetchRecs
<1>3. PICK r \in {"none", "ok", "failed", "killed"}, h \in BOOLEAN :
        Turns(p, "idle", who[p].ino, r, h) /\ (r = "failed" => h)
  BY <1>1, <1>2, FinishTurns, StopTurns DEF ChownSeed, StepFails, KillFetch
<1>4. who'[p].step = "idle" /\ \A q \in Fetchers \ {p} : who'[q] = who[q]
  BY <1>1, <1>3 DEF Turns, DlTypes
<1>5. /\ tmp' \in [Names -> Inodes \cup {NoFile}] /\ (\A n \in Names : tmp'[n] \in {tmp[n], NoFile})
      /\ what = "image" => \A q \in Fetchers \ {p} : tmp'[q] = tmp[q]
  <2>1. tmp' = tmp \/ tmp' = [tmp EXCEPT ![Name(p)] = NoFile] \/ (Seeding /\ tmp' = [tmp EXCEPT ![Public] = NoFile])
    BY <1>1 DEF ChownSeed, StepFails, KillFetch
  <2>2. what = "image" => Name(p) = p /\ ~Seeding
    BY DEF Name, Seeding
  <2>3. tmp \in [Names -> Inodes \cup {NoFile}] /\ p \in Names /\ Fetchers \subseteq Names
    BY <1>1 DEF DlTypes, Names
  <2>4. CASE tmp' = tmp
    BY <2>3, <2>4
  <2>5. CASE tmp' = [tmp EXCEPT ![Name(p)] = NoFile]
    <3>1. tmp' \in [Names -> Inodes \cup {NoFile}] /\ (\A n \in Names : tmp'[n] \in {tmp[n], NoFile})
      BY <2>3, <2>5
    <3> QED BY <2>2, <2>3, <2>5, <3>1
  <2>6. CASE Seeding /\ tmp' = [tmp EXCEPT ![Public] = NoFile]
    BY <2>2, <2>3, <2>6
  <2> QED BY <2>1, <2>4, <2>5, <2>6
<1>6. room' \in [Names -> SUBSET Whole] /\ (what # "python" => room' = room)
  BY <1>1 DEF ChownSeed, StepFails, KillFetch, DlTypes
<1>7. SeedsGrow' /\ PythonIsWhole'
  BY <1>1, <1>4, <1>6 DEF DlInv, SeedsGrow, PythonIsWhole
<1>8. KindFits(p)' /\ "idle" \in FetchSteps /\ dst' \in {dst, NoFile}
  BY <1>1, <1>4 DEF KindFits, FetchSteps
<1> QED BY <1>1, <1>2, <1>3, <1>5, <1>6, <1>7, <1>8, LightStep

LEMMA DlInvHolds == DlSpec => []DlInv
<1>1. DlInv /\ UNCHANGED dlVars => DlInv'
  <2> SUFFICES ASSUME DlInv, UNCHANGED dlVars PROVE DlInv'
    OBVIOUS
  <2>1. UNCHANGED <<what, dst, tmp, data, who, room, cache, marker, overlap, fetches>>
    BY DEF dlVars
  <2>2. DlTypes' /\ NamesApart' /\ InodesLast'
    BY <2>1 DEF DlInv, DlTypes, NamesApart, InodesLast, KindFits, Seeding, Used, Creating, Active
  <2>3. HurtTells' /\ Assured' /\ FailsForAReason'
    BY <2>1 DEF DlInv, HurtTells, Assured, Knows, Content, Name, FailsForAReason, Active
  <2>4. UncheckedIsWhole' /\ ImagesApart' /\ SeedsGrow' /\ PythonIsWhole'
    BY <2>1 DEF DlInv, UncheckedIsWhole, ImagesApart, SeedsGrow, PythonIsWhole
  <2> QED BY <2>2, <2>3, <2>4 DEF DlInv
<1>2. DlInv /\ DlNext => DlInv'
  BY BeginFetchKept, CheckCachedKept, CreateTmpKept, CopyBodyKept, RenameKept, VerifyKept, ExtractKept,
     OpenArchiveKept, UnpackKept, SetupPythonKept, MarkSeedKept, StopsKept DEF DlNext
<1> QED BY <1>1, <1>2, DlInitInv, PTL DEF DlSpec

\* What is cached can be used, and what cannot is fetched again, for any artefacts,
\* fetches at once, broken connections and kills (ensureTarball, seedTarball, seedPython,
\* seedDinDImageCache).
THEOREM CachesStayWhole == DlSpec => []CachesAreWhole
<1>1. DlInv => CachesAreWhole
  <2> SUFFICES ASSUME DlInv PROVE CachesAreWhole
    OBVIOUS
  <2>1. MarkerMeansWhole
    BY DEF DlInv, SeedsGrow, PythonIsWhole, MarkerMeansWhole
  <2>2. ImageIsWhole
    BY DEF DlInv, ImagesApart, ImageIsWhole, Content
  <2> QED BY <2>1, <2>2 DEF DlInv, CachesAreWhole
<1> QED BY <1>1, DlInvHolds, PTL

-----------------------------------------------------------------------------
(* The layout of the install root                                          *)

EnsureSteps == {"account", "root", "home", "caches"}

CommandRecs == [step : EnsureSteps \cup {"idle", "pick", "unit"}, kind : {"create", "refresh", "fix", None},
                iso : BOOLEAN, org : Homes \cup {None}, box : Boxes \cup {None}, clean : BOOLEAN]

\* A command that ensures a layout or handles a row knows whose.
CommandFits(p) ==
  /\ at[p].step \in EnsureSteps \cup {"unit"} =>
       /\ at[p].org \in Homes
       /\ at[p].box \in Boxes /\ HomeOf[at[p].box] = at[p].org
       /\ at[p].kind # "create" => unit[at[p].box].svc # None
  /\ at[p].step \in EnsureSteps => at[p].kind # "fix"
  /\ at[p].step = "home" => at[p].iso

RowsFit(p) == \A b \in todo[p] : unit[b].svc # None

UnitFits(b) == unit[b] # NoUnit => unit[b].svc # None /\ home[HomeOf[b]] # None

BaseTypes ==
  /\ BaseTypeOK /\ switches \in Nat
  /\ at \in [Srms -> CommandRecs]
  /\ \A p \in Srms : CommandFits(p) /\ RowsFit(p)
  /\ \A b \in Boxes : UnitFits(b)

\* Until the mode changes the tree is in one layout, and no job runs outside it.
OneMode ==
  switches = 0 =>
    /\ \A p \in Srms : at[p].step # "idle" => at[p].iso = isolated
    /\ \A o \in Homes : home[o] \in {None, UserFor(isolated, o)}
    /\ \A b \in work : up[b] # None /\ home[HomeOf[b]] = up[b]

\* An account and an open root stay.
Traversable(iso, o) == UserFor(iso, o) \in accounts /\ (iso => root = "open")

\* The tree and the caches of o are those of its user in mode iso.
TreeIs(iso, o) == IF iso THEN home[o] = o ELSE \A x \in Homes : home[x] \in {None, Shared}
Served(iso, o) == Traversable(iso, o) /\ TreeIs(iso, o) /\ caches[UserFor(iso, o)] = UserFor(iso, o)

\* What a command has ensured is there as long as nobody works in the other mode.
EnsuredHolds(p) ==
  at[p].step # "idle" =>
    /\ at[p].step \in {"root", "home", "caches"} => UserFor(at[p].iso, at[p].org) \in accounts
    /\ at[p].step \in {"home", "caches"} => Traversable(at[p].iso, at[p].org)
    /\ at[p].clean /\ at[p].step = "caches" => TreeIs(at[p].iso, at[p].org)
    /\ at[p].clean /\ at[p].step = "unit" /\ at[p].kind # "fix" => Served(at[p].iso, at[p].org)
    /\ at[p].clean => \A o \in Homes : UserFor(at[p].iso, o) \in ensured[p] => Served(at[p].iso, o)

\* What has been reported is served in the mode of the file.
FreshIsServed ==
  \A b \in fresh :
    /\ unit[b].svc # None
    /\ unit[b].drop = DropFor(isolated, HomeOf[b]) /\ unit[b].env = CacheFor(isolated, HomeOf[b])
    /\ Served(isolated, HomeOf[b])

BaseInv == BaseTypes /\ OneMode /\ (\A p \in Srms : EnsuredHolds(p)) /\ FreshIsServed

\* A step after which a tree and caches laid out in mode iso still are.
KeepsMode(iso) ==
  /\ accounts \subseteq accounts' /\ (root = "open" => root' = "open")
  /\ \A o \in Homes : TreeIs(iso, o) => TreeIs(iso, o)'
  /\ \A o \in Homes : caches[UserFor(iso, o)] = UserFor(iso, o) => caches'[UserFor(iso, o)] = UserFor(iso, o)

LEMMA ModeKept ==
  ASSUME accounts \subseteq accounts', root = "open" => root' = "open", UNCHANGED <<home, caches>>, NEW iso
  PROVE  KeepsMode(iso)
BY DEF KeepsMode, TreeIs

LEMMA ServedKept ==
  ASSUME NEW iso \in BOOLEAN, NEW o \in Homes, KeepsMode(iso), Served(iso, o)
  PROVE  Served(iso, o)'
BY DEF KeepsMode, Served, Traversable, UserFor

LEMMA UsersNamed == None # Shared /\ \A o \in Homes : o # None /\ o # Shared /\ \A iso \in BOOLEAN : UserFor(iso, o) # None
BY BaseConstants DEF UserFor, None, Shared

\* A command that takes no step keeps what it has ensured, unless the other mode took it.
LEMMA OthersKeep ==
  ASSUME BaseInv, NEW q \in Srms, at'[q].step = at[q].step, at'[q].iso = at[q].iso, at'[q].kind = at[q].kind,
         at'[q].org = at[q].org, ensured'[q] = ensured[q],
         accounts \subseteq accounts', root = "open" => root' = "open",
         at'[q].clean => at[q].clean /\ KeepsMode(at[q].iso)
  PROVE  EnsuredHolds(q)'
<1>1. EnsuredHolds(q) /\ at[q].iso \in BOOLEAN /\ CommandFits(q)
  BY DEF BaseInv, BaseTypes, CommandRecs
<1> SUFFICES ASSUME at[q].step # "idle" PROVE EnsuredHolds(q)'
  BY DEF EnsuredHolds
<1>2. /\ at[q].step \in {"root", "home", "caches"} => UserFor(at[q].iso, at[q].org) \in accounts'
      /\ at[q].step \in {"home", "caches"} => Traversable(at[q].iso, at[q].org)'
  BY <1>1 DEF EnsuredHolds, Traversable, UserFor
<1>3. ASSUME at'[q].clean
      PROVE  /\ at[q].step = "caches" => TreeIs(at[q].iso, at[q].org)'
             /\ at[q].step = "unit" /\ at[q].kind # "fix" => Served(at[q].iso, at[q].org)'
             /\ \A o \in Homes : UserFor(at[q].iso, o) \in ensured[q] => Served(at[q].iso, o)'
  <2>1. at[q].clean /\ KeepsMode(at[q].iso)
    BY <1>3
  <2>2. at[q].step = "caches" => TreeIs(at[q].iso, at[q].org)'
    BY <1>1, <2>1 DEF EnsuredHolds, KeepsMode, CommandFits, EnsureSteps
  <2>3. at[q].step = "unit" /\ at[q].kind # "fix" => Served(at[q].iso, at[q].org)'
    BY <1>1, <2>1, ServedKept DEF EnsuredHolds, CommandFits
  <2>4. \A o \in Homes : UserFor(at[q].iso, o) \in ensured[q] => Served(at[q].iso, o)'
    BY <1>1, <2>1, ServedKept DEF EnsuredHolds
  <2> QED BY <2>2, <2>3, <2>4
<1>4. \A iso, o : UserFor(iso, o)' = UserFor(iso, o)
  BY DEF UserFor
<1> QED BY <1>2, <1>3, <1>4 DEF EnsuredHolds, Served, Traversable, TreeIs, UserFor

\* Runners reported before stay served, if the layout they are in stays.
LEMMA FreshKept ==
  ASSUME BaseInv, isolated' = isolated,
         \A b \in fresh' : \/ b \in fresh /\ unit'[b] = unit[b] /\ KeepsMode(isolated)
                           \/ /\ unit'[b].svc # None /\ Served(isolated, HomeOf[b])'
                              /\ unit'[b].drop = DropFor(isolated, HomeOf[b])
                              /\ unit'[b].env = CacheFor(isolated, HomeOf[b])
  PROVE  FreshIsServed'
<1> SUFFICES ASSUME NEW b \in fresh'
             PROVE  /\ unit'[b].svc # None
                    /\ unit'[b].drop = DropFor(isolated, HomeOf[b]) /\ unit'[b].env = CacheFor(isolated, HomeOf[b])
                    /\ Served(isolated, HomeOf[b])'
  BY DEF FreshIsServed, DropFor, CacheFor, Served, Traversable, TreeIs, UserFor
<1>1. CASE b \in fresh /\ unit'[b] = unit[b] /\ KeepsMode(isolated)
  <2>1. HomeOf[b] \in Homes /\ isolated \in BOOLEAN
    BY <1>1, BaseConstants DEF BaseInv, BaseTypes, BaseTypeOK
  <2> QED BY <1>1, <2>1, ServedKept DEF BaseInv, FreshIsServed
<1> QED BY <1>1

LEMMA BaseInitInv == BaseInit => BaseInv
<1> SUFFICES ASSUME BaseInit PROVE BaseInv
  OBVIOUS
<1>1. /\ isolated \in BOOLEAN /\ accounts = {} /\ root = None /\ work = {} /\ fresh = {}
      /\ home = [o \in Homes |-> None] /\ caches = [o \in Owners |-> None]
      /\ unit = [b \in Boxes |-> NoUnit] /\ up = [b \in Boxes |-> None]
      /\ at = [p \in Srms |-> Idle] /\ todo = [p \in Srms |-> {}] /\ ensured = [p \in Srms |-> {}]
      /\ switches = 0
  BY DEF BaseInit
<1>2. None \in Owners
  BY DEF Owners
<1>3. BaseTypeOK
  BY <1>1, <1>2 DEF BaseTypeOK, NoUnit
<1>4. \A p \in Srms : at[p].step = "idle" /\ at[p] \in CommandRecs /\ todo[p] = {}
  BY <1>1 DEF Idle, CommandRecs
<1>5. \A b \in Boxes : unit[b] = NoUnit
  BY <1>1
<1>6. at \in [Srms -> CommandRecs]
  BY <1>1, <1>4
<1>7. BaseTypes
  BY <1>1, <1>3, <1>4, <1>5, <1>6 DEF BaseTypes, CommandFits, RowsFit, UnitFits, EnsureSteps
<1>8. OneMode /\ FreshIsServed /\ \A p \in Srms : EnsuredHolds(p)
  BY <1>1, <1>4 DEF OneMode, FreshIsServed, EnsuredHolds
<1> QED BY <1>7, <1>8 DEF BaseInv

LEMMA CommandKept ==
  ASSUME BaseInv, NEW p \in Srms, NEW k \in {"create", "refresh", "fix"},
         NEW o \in Homes \cup {None}, NEW b \in Boxes \cup {None}, Command(p, k, o, b),
         k = "create" => b \in Boxes /\ o = HomeOf[b] /\ o \in Homes,
         todo' \in [Srms -> SUBSET Boxes],
         \A q \in Srms : \A c \in todo'[q] : unit[c].svc # None
  PROVE  BaseInv'
<1> DEFINE s == IF k = "create" THEN "account" ELSE "pick"
<1>1. /\ BaseTypes /\ UNCHANGED <<isolated, accounts, root, home, caches, unit, up, work, fresh, switches>>
      /\ ensured' = [ensured EXCEPT ![p] = {}]
      /\ at' = [at EXCEPT ![p] = [step |-> s, kind |-> k, iso |-> isolated, org |-> o, box |-> b, clean |-> TRUE]]
  BY DEF Command, BaseInv
<1>2. s \in {"account", "pick"} /\ (s = "account" <=> k = "create")
  OBVIOUS
<1> HIDE DEF s
<1>3. at'[p] = [step |-> s, kind |-> k, iso |-> isolated, org |-> o, box |-> b, clean |-> TRUE]
      /\ (\A q \in Srms \ {p} : at'[q] = at[q])
      /\ ensured'[p] = {} /\ (\A q \in Srms \ {p} : ensured'[q] = ensured[q])
      /\ ensured' \in [Srms -> SUBSET Owners]
  BY <1>1 DEF BaseTypes, BaseTypeOK
<1>4. at'[p] \in CommandRecs
  BY <1>1, <1>2, <1>3 DEF CommandRecs, EnsureSteps, BaseTypes, BaseTypeOK
<1>5. at' \in [Srms -> CommandRecs]
  BY <1>1, <1>3, <1>4 DEF BaseTypes
<1>6. BaseTypeOK'
  BY <1>1, <1>3 DEF BaseTypes, BaseTypeOK
<1>7. \A q \in Srms : CommandFits(q)'
  <2>1. CommandFits(p)'
    BY <1>2, <1>3 DEF CommandFits, EnsureSteps
  <2>2. \A q \in Srms \ {p} : CommandFits(q)'
    BY <1>1, <1>3 DEF BaseTypes, CommandFits
  <2> QED BY <2>1, <2>2
<1>8. BaseTypes'
  BY <1>1, <1>5, <1>6, <1>7 DEF BaseTypes, RowsFit, UnitFits
<1>9. OneMode'
  <2>1. \A q \in Srms : at'[q].step # "idle" => (at[q].step # "idle" /\ at'[q].iso = at[q].iso) \/ at'[q].iso = isolated
    BY <1>3
  <2> QED BY <1>1, <2>1 DEF BaseInv, OneMode, UserFor
<1>10. \A q \in Srms : EnsuredHolds(q)'
  <2>1. EnsuredHolds(p)'
    BY <1>2, <1>3 DEF EnsuredHolds
  <2>2. ASSUME NEW q \in Srms \ {p} PROVE EnsuredHolds(q)'
    BY <1>1, <1>3, <2>2, ModeKept, OthersKeep
  <2> QED BY <2>1, <2>2
<1>11. FreshIsServed'
  BY <1>1, ModeKept, FreshKept
<1> QED BY <1>8, <1>9, <1>10, <1>11 DEF BaseInv

LEMMA BeginsKept ==
  ASSUME BaseInv, NEW p \in Srms,
         \/ \E b \in Boxes : BeginCreate(p, b)
         \/ \E O \in {Homes} \cup {{o} : o \in Homes} : BeginRefresh(p, O)
         \/ BeginFix(p)
  PROVE  BaseInv'
<1>1. BaseTypes /\ todo \in [Srms -> SUBSET Boxes] /\ (\A q \in Srms : RowsFit(q))
      /\ (\A b \in Boxes : unit[b] # NoUnit => unit[b].svc # None)
  BY DEF BaseInv, BaseTypes, BaseTypeOK, UnitFits
<1>2. ASSUME NEW b \in Boxes, BeginCreate(p, b)
      PROVE  BaseInv'
  BY <1>1, <1>2, CommandKept, BaseConstants DEF BeginCreate, RowsFit
<1>3. ASSUME NEW T \in SUBSET Boxes, todo' = [todo EXCEPT ![p] = T], \A b \in T : unit[b] # NoUnit,
             Command(p, "refresh", None, None) \/ Command(p, "fix", None, None)
      PROVE  BaseInv'
  <2>1. todo' \in [Srms -> SUBSET Boxes] /\ \A q \in Srms : \A c \in todo'[q] : unit[c].svc # None
    BY <1>1, <1>3 DEF RowsFit
  <2> QED BY <1>3, <2>1, CommandKept
<1>4. ASSUME NEW O, BeginRefresh(p, O)
      PROVE  BaseInv'
  <2> DEFINE T == {b \in Boxes : unit[b] # NoUnit /\ HomeOf[b] \in O /\ b \notin work}
  <2>1. T \in SUBSET Boxes /\ (\A b \in T : unit[b] # NoUnit) /\ todo' = [todo EXCEPT ![p] = T]
        /\ Command(p, "refresh", None, None)
    BY <1>4 DEF BeginRefresh
  <2> QED BY <1>3, <2>1
<1>5. ASSUME BeginFix(p)
      PROVE  BaseInv'
  <2> DEFINE T == {b \in Boxes : /\ unit[b] # NoUnit /\ b \notin work
                                 /\ \/ unit[b].drop # DropFor(isolated, HomeOf[b])
                                    \/ up[b] = None}
  <2>1. T \in SUBSET Boxes /\ (\A b \in T : unit[b] # NoUnit) /\ todo' = [todo EXCEPT ![p] = T]
        /\ Command(p, "fix", None, None)
    BY <1>5 DEF BeginFix
  <2> QED BY <1>3, <2>1
<1> QED BY <1>2, <1>4, <1>5

\* In the one mode the host has known, a tree goes to the user it has or is to have.
LEMMA OneModeKept ==
  ASSUME BaseInv, UNCHANGED <<switches, isolated>>,
         \A q \in Srms : at'[q].step # "idle" => at[q].step # "idle" /\ at'[q].iso = at[q].iso,
         switches = 0 => \A o \in Homes : home'[o] \in {home[o], UserFor(isolated, o)},
         work' \subseteq work, \A b \in work' : up'[b] = up[b]
  PROVE  OneMode'
<1> SUFFICES ASSUME switches = 0
             PROVE  /\ \A p \in Srms : at'[p].step # "idle" => at'[p].iso = isolated
                    /\ \A o \in Homes : home'[o] \in {None, UserFor(isolated, o)}
                    /\ \A b \in work' : up'[b] # None /\ home'[HomeOf[b]] = up'[b]
  BY DEF OneMode, UserFor
<1>1. \A b \in work : HomeOf[b] \in Homes
  BY BaseConstants DEF BaseInv, BaseTypes, BaseTypeOK
<1> QED BY <1>1 DEF BaseInv, OneMode

\* A step of a command, in what all of them have in common.
LEMMA CommandStep ==
  ASSUME BaseInv, NEW p \in Srms,
         at' \in [Srms -> CommandRecs],
         \A q \in Srms \ {p} :
           /\ at'[q].step = at[q].step /\ at'[q].iso = at[q].iso /\ at'[q].kind = at[q].kind
           /\ at'[q].org = at[q].org /\ at'[q].box = at[q].box /\ ensured'[q] = ensured[q]
           /\ at'[q].clean => at[q].clean /\ KeepsMode(at[q].iso),
         accounts \subseteq accounts', root = "open" => root' = "open",
         BaseTypeOK', switches' = switches,
         \A b \in Boxes : unit[b].svc # None => unit'[b].svc # None,
         \A b \in Boxes : UnitFits(b)',
         \A q \in Srms : todo'[q] \subseteq todo[q],
         CommandFits(p)', EnsuredHolds(p)', OneMode', FreshIsServed'
  PROVE  BaseInv'
<1>1. \A q \in Srms : todo[q] \subseteq Boxes /\ RowsFit(q)
  BY DEF BaseInv, BaseTypes, BaseTypeOK
<1>2. \A q \in Srms : RowsFit(q)'
  BY <1>1 DEF RowsFit
<1>3. ASSUME NEW q \in Srms \ {p} PROVE CommandFits(q)' /\ EnsuredHolds(q)'
  <2>1. CommandFits(q)'
    BY <1>3 DEF BaseInv, BaseTypes, CommandFits, EnsureSteps
  <2>2. EnsuredHolds(q)'
    BY <1>3, OthersKeep
  <2> QED BY <2>1, <2>2
<1>4. BaseTypes'
  BY <1>2, <1>3 DEF BaseInv, BaseTypes
<1> QED BY <1>3, <1>4 DEF BaseInv

\* at' after a step that changes p's own record only.
LEMMA Moving ==
  ASSUME BaseInv, NEW p \in Srms, NEW s \in EnsureSteps \cup {"idle", "pick", "unit"}, Go(p, s)
  PROVE  /\ at' \in [Srms -> CommandRecs]
         /\ at'[p].step = s /\ at'[p].iso = at[p].iso /\ at'[p].kind = at[p].kind /\ at'[p].org = at[p].org
         /\ at'[p].box = at[p].box /\ at'[p].clean = at[p].clean
         /\ \A q \in Srms \ {p} : at'[q] = at[q]
BY DEF Go, BaseInv, BaseTypes, CommandRecs

LEMMA NextRowKept ==
  ASSUME BaseInv, NEW p \in Srms, NextRow(p)
  PROVE  BaseInv'
<1>1. /\ BaseTypes /\ at[p].step = "pick"
      /\ UNCHANGED <<isolated, accounts, root, home, caches, unit, up, work, ensured, fresh, switches>>
  BY DEF NextRow, BaseInv
<1>2. (\A b \in Boxes : UnitFits(b)') /\ FreshIsServed'
  <2>1. \A iso : KeepsMode(iso)
    BY <1>1, ModeKept
  <2> QED BY <1>1, <2>1, FreshKept DEF BaseTypes, UnitFits
<1>3. CASE todo[p] = {} /\ at' = [at EXCEPT ![p] = Idle] /\ UNCHANGED todo
  <2>1. at' \in [Srms -> CommandRecs] /\ at'[p].step = "idle" /\ \A q \in Srms \ {p} : at'[q] = at[q]
    BY <1>1, <1>3 DEF BaseTypes, Idle, CommandRecs
  <2>2. CommandFits(p)' /\ EnsuredHolds(p)'
    BY <2>1 DEF CommandFits, EnsuredHolds, EnsureSteps
  <2>3. OneMode'
    BY <1>1, <2>1, OneModeKept
  <2>4. BaseTypeOK'
    BY <1>1, <1>3 DEF BaseTypes, BaseTypeOK
  <2>5. \A q \in Srms : KeepsMode(at[q].iso)
    BY <1>1, ModeKept
  <2> QED BY <1>1, <1>2, <1>3, <2>1, <2>2, <2>3, <2>4, <2>5, CommandStep
<1>4. ASSUME NEW b \in todo[p], NEW skip \in BOOLEAN,
             skip = (at[p].kind = "fix" \/ UserFor(at[p].iso, HomeOf[b]) \in ensured[p]),
             todo' = [todo EXCEPT ![p] = @ \ {b}],
             at' = [at EXCEPT ![p] = [@ EXCEPT !.box = b, !.org = HomeOf[b], !.step = IF skip THEN "unit" ELSE "account"]]
      PROVE  BaseInv'
  <2>1. b \in Boxes /\ HomeOf[b] \in Homes /\ unit[b].svc # None
    BY <1>1, BaseConstants DEF BaseTypes, BaseTypeOK, RowsFit
  <2>2. /\ at' \in [Srms -> CommandRecs]
        /\ at'[p].step = (IF skip THEN "unit" ELSE "account") /\ at'[p].box = b /\ at'[p].org = HomeOf[b]
        /\ at'[p].kind = at[p].kind /\ at'[p].iso = at[p].iso /\ at'[p].clean = at[p].clean
        /\ \A q \in Srms \ {p} : at'[q] = at[q]
    BY <1>1, <1>4, <2>1 DEF BaseTypes, CommandRecs, EnsureSteps
  <2>3. CommandFits(p)'
    <3>1. at'[p].step = "unit" \/ (at'[p].step = "account" /\ at[p].kind # "fix")
      <4>1. CASE skip
        BY <2>2, <4>1
      <4>2. CASE ~skip
        BY <1>4, <2>2, <4>2
      <4> QED BY <4>1, <4>2
    <3> QED BY <1>1, <2>1, <2>2, <3>1 DEF CommandFits, EnsureSteps
  <2>4. EnsuredHolds(p)'
    <3>1. /\ at[p].clean => \A o \in Homes : UserFor(at[p].iso, o) \in ensured[p] => Served(at[p].iso, o)
      BY <1>1 DEF BaseInv, EnsuredHolds
    <3>2. \A iso, o : Served(iso, o)' = Served(iso, o) /\ UserFor(iso, o)' = UserFor(iso, o)
      BY <1>1 DEF Served, Traversable, TreeIs, UserFor
    <3>3. at'[p].step = "account" \/ (at'[p].step = "unit" /\ (at[p].kind # "fix" => UserFor(at[p].iso, HomeOf[b]) \in ensured[p]))
      BY <1>4, <2>2
    <3> QED BY <1>1, <2>1, <2>2, <3>1, <3>2, <3>3 DEF EnsuredHolds
  <2>5. OneMode'
    BY <1>1, <2>2, OneModeKept
  <2>6. BaseTypeOK' /\ \A q \in Srms : todo'[q] \subseteq todo[q]
    BY <1>1, <1>4 DEF BaseTypes, BaseTypeOK
  <2>7. \A q \in Srms : KeepsMode(at[q].iso)
    BY <1>1, ModeKept
  <2> QED BY <1>1, <1>2, <2>2, <2>3, <2>4, <2>5, <2>6, <2>7, CommandStep
<1> QED BY <1>3, <1>4 DEF NextRow

LEMMA OpeningKept ==
  ASSUME BaseInv, NEW p \in Srms, AddUser(p) \/ OpenRoot(p)
  PROVE  BaseInv'
<1> DEFINE s == IF at[p].step = "account" THEN "root" ELSE "home"
<1>1. /\ BaseTypes /\ at[p].step \in {"account", "root"} /\ Go(p, s)
      /\ UNCHANGED <<isolated, home, caches, unit, up, work, todo, ensured, fresh, switches>>
      /\ at[p].step = "root" => at[p].iso /\ root' = "open" /\ accounts' = accounts
      /\ at[p].step = "account" => accounts' = accounts \cup {UserFor(at[p].iso, at[p].org)} /\ root' = root
  BY DEF AddUser, OpenRoot, BaseInv
<1>2. s \in {"root", "home"} /\ (s = "root" <=> at[p].step = "account")
  BY <1>1
<1> HIDE DEF s
<1>3. /\ at' \in [Srms -> CommandRecs]
      /\ at'[p].step = s /\ at'[p].iso = at[p].iso /\ at'[p].kind = at[p].kind /\ at'[p].org = at[p].org
      /\ at'[p].box = at[p].box /\ at'[p].clean = at[p].clean
      /\ \A q \in Srms \ {p} : at'[q] = at[q]
  BY <1>1, <1>2, Moving DEF EnsureSteps
<1>4. CommandFits(p) /\ EnsuredHolds(p) /\ at[p].org \in Homes /\ at[p].iso \in BOOLEAN
  BY <1>1 DEF BaseInv, BaseTypes, CommandFits, EnsureSteps, CommandRecs
<1>5. accounts \subseteq accounts' /\ (root = "open" => root' = "open")
  BY <1>1
<1>6. \A iso : KeepsMode(iso)
  BY <1>1, <1>5, ModeKept
<1>7. CommandFits(p)'
  BY <1>1, <1>2, <1>3, <1>4 DEF CommandFits, EnsureSteps
<1>8. EnsuredHolds(p)'
  <2>1. at[p].clean => \A o \in Homes : UserFor(at[p].iso, o) \in ensured[p] => Served(at[p].iso, o)'
    <3>1. KeepsMode(at[p].iso)
      BY <1>6
    <3> QED BY <1>1, <1>3, <1>4, <3>1, ServedKept DEF EnsuredHolds
  <2>2. UserFor(at[p].iso, at[p].org) \in accounts'
    BY <1>1, <1>4 DEF EnsuredHolds
  <2>3. s = "home" => Traversable(at[p].iso, at[p].org)'
    BY <1>1, <1>2, <1>3, <2>2 DEF Traversable, UserFor
  <2>4. \A iso, o : UserFor(iso, o)' = UserFor(iso, o)
    BY DEF UserFor
  <2> QED BY <1>1, <1>2, <1>3, <2>1, <2>2, <2>3, <2>4 DEF EnsuredHolds, Served, Traversable, TreeIs, UserFor
<1>9. OneMode'
  BY <1>1, <1>3, OneModeKept
<1>10. FreshIsServed'
  BY <1>1, <1>6, FreshKept
<1>11. BaseTypeOK' /\ \A b \in Boxes : UnitFits(b)'
  BY <1>1, <1>4 DEF BaseTypes, BaseTypeOK, UnitFits, UserFor
<1> QED BY <1>1, <1>3, <1>5, <1>6, <1>7, <1>8, <1>9, <1>10, <1>11, CommandStep

\* A chown in p's mode.
LEMMA ClaimKept ==
  ASSUME BaseInv, NEW p \in Srms, NEW m \in BOOLEAN, NEW org \in Homes, at[p].iso = m, at[p].org = org, at[p].step \in {"root", "home", "caches"},
         NEW s \in {"caches", "unit"}, Claims(p, s), s = "caches" <=> at[p].step # "caches",
         UNCHANGED <<isolated, accounts, unit, up, work, todo, switches>>,
         root' \in {None, "closed", "open"}, root = "open" => root' = "open",
         home' \in [Homes -> Owners], caches' \in [Owners -> Owners],
         ensured' \in [Srms -> SUBSET Owners], \A q \in Srms \ {p} : ensured'[q] = ensured[q],
         KeepsMode(m),
         \A o \in Homes : home'[o] = home[o] \/ (home'[o] # None /\ home'[o] = UserFor(m, o)),
         Traversable(m, org),
         s = "caches" /\ at[p].clean => TreeIs(m, org)',
         s = "unit" /\ at[p].clean => Served(m, org)',
         \A o \in Homes : UserFor(m, o) \in ensured'[p] =>
           UserFor(m, o) \in ensured[p] \/ (s = "unit" /\ (at[p].clean => Served(m, o)'))
  PROVE  BaseInv'
<1>1. /\ BaseTypes /\ CommandFits(p) /\ EnsuredHolds(p) /\ at[p].org \in Homes /\ at[p].iso \in BOOLEAN
  BY DEF BaseInv, BaseTypes, CommandFits, EnsureSteps, CommandRecs
<1>2. /\ fresh' = IF Outdated(p) THEN {} ELSE fresh
      /\ at' = [q \in Srms |-> [at[q] EXCEPT !.clean = @ /\ ~Spoils(p, q), !.step = IF q = p THEN s ELSE @]]
  BY DEF Claims
<1>3. \A q \in Srms : /\ at'[q].iso = at[q].iso /\ at'[q].kind = at[q].kind /\ at'[q].org = at[q].org
                      /\ at'[q].box = at[q].box /\ at'[q].clean = (at[q].clean /\ at[q].iso = at[p].iso)
                      /\ at'[q].step = (IF q = p THEN s ELSE at[q].step)
                      /\ at'[q] \in CommandRecs
  <2> TAKE q \in Srms
  <2> DEFINE t == IF q = p THEN s ELSE at[q].step
             c == at[q].clean /\ at[q].iso = at[p].iso
  <2>1. at'[q] = [at[q] EXCEPT !.clean = c, !.step = t]
    BY <1>2 DEF Spoils
  <2>2. at[q] \in CommandRecs /\ c \in BOOLEAN /\ t \in EnsureSteps \cup {"idle", "pick", "unit"}
    BY <1>1 DEF BaseTypes, CommandRecs, EnsureSteps
  <2> HIDE DEF c, t
  <2>3. PICK x : x = [at[q] EXCEPT !.clean = c]
    OBVIOUS
  <2>4. /\ x \in CommandRecs /\ x.clean = c /\ x.iso = at[q].iso /\ x.kind = at[q].kind /\ x.org = at[q].org
        /\ x.box = at[q].box
    BY <2>2, <2>3 DEF CommandRecs
  <2>5. at'[q] = [x EXCEPT !.step = t]
    BY <2>1, <2>3
  <2>6. /\ at'[q] \in CommandRecs /\ at'[q].clean = c /\ at'[q].iso = at[q].iso /\ at'[q].kind = at[q].kind
        /\ at'[q].org = at[q].org /\ at'[q].box = at[q].box /\ at'[q].step = t
    BY <2>2, <2>4, <2>5 DEF CommandRecs
  <2> QED BY <2>6 DEF c, t
<1>4. at' \in [Srms -> CommandRecs]
  BY <1>2, <1>3
<1>5. CommandFits(p)'
  BY <1>1, <1>3 DEF CommandFits, EnsureSteps
<1>6. EnsuredHolds(p)'
  <2>1. at[p].clean => \A o \in Homes : UserFor(m, o) \in ensured'[p] => Served(m, o)'
    <3> SUFFICES ASSUME at[p].clean, NEW o \in Homes, UserFor(m, o) \in ensured'[p]
                 PROVE  Served(m, o)'
      BY <1>3
    <3>1. CASE UserFor(m, o) \in ensured[p]
      <4>1. Served(m, o)
        BY <1>1, <3>1 DEF EnsuredHolds
      <4> QED BY <4>1, ServedKept
    <3> QED BY <3>1
  <2>2. UserFor(m, org) \in accounts' /\ Traversable(m, org)'
    BY DEF Traversable, UserFor
  <2>3. \A iso, o : UserFor(iso, o)' = UserFor(iso, o)
    BY DEF UserFor
  <2>4. at'[p].clean <=> at[p].clean
    BY <1>1, <1>3 DEF BaseTypes, CommandRecs
  <2>5. at'[p].step = s /\ at'[p].iso = at[p].iso /\ at'[p].org = at[p].org
    BY <1>3
  <2> QED BY <2>1, <2>2, <2>3, <2>4, <2>5 DEF EnsuredHolds, Served, Traversable, TreeIs, UserFor
<1>7. OneMode'
  <2>1. switches = 0 => \A o \in Homes : home'[o] \in {home[o], UserFor(isolated, o)}
    BY DEF BaseInv, OneMode
  <2> QED BY <1>3, <2>1, OneModeKept
<1>8. FreshIsServed'
  <2>1. fresh' # {} => fresh' = fresh /\ KeepsMode(isolated)
    BY <1>1, <1>2 DEF Outdated, BaseTypes, BaseTypeOK
  <2> QED BY <2>1, FreshKept
<1>9. BaseTypeOK'
  BY <1>1, <1>2 DEF BaseTypes, BaseTypeOK
<1>10. \A b \in Boxes : UnitFits(b)'
  <2>1. \A b \in Boxes : HomeOf[b] \in Homes
    BY BaseConstants
  <2> QED BY <1>1, <2>1 DEF BaseTypes, UnitFits
<1>11. \A q \in Srms : at'[q].clean => at[q].clean /\ KeepsMode(at[q].iso)
  BY <1>3
<1> QED BY <1>3, <1>4, <1>5, <1>6, <1>7, <1>8, <1>9, <1>10, <1>11, CommandStep

LEMMA ClaimRootKept ==
  ASSUME BaseInv, NEW p \in Srms, ClaimRoot(p)
  PROVE  BaseInv'
<1>1. /\ BaseTypes /\ at[p].step = "root" /\ at[p].iso = FALSE /\ Claims(p, "caches")
      /\ root' = (IF root = None THEN "closed" ELSE root)
      /\ home' = [o \in Homes |-> IF home[o] = None THEN None ELSE Shared]
      /\ UNCHANGED <<isolated, accounts, caches, unit, up, work, todo, ensured, switches>>
  BY DEF ClaimRoot, BaseInv, BaseTypes, CommandRecs
<1>0. PICK org \in Homes : org = at[p].org
  BY <1>1 DEF BaseTypes, CommandFits, EnsureSteps
<1>2. /\ root' \in {None, "closed", "open"} /\ (root = "open" => root' = "open")
      /\ home' \in [Homes -> Owners] /\ caches' \in [Owners -> Owners] /\ ensured' \in [Srms -> SUBSET Owners]
  BY <1>1, UsersNamed DEF BaseTypes, BaseTypeOK, Owners, None
<1>3. \A o : UserFor(FALSE, o) = Shared
  BY DEF UserFor
<1>4. \A o \in Homes : home'[o] \in {None, Shared}
  BY <1>1
<1>5. KeepsMode(FALSE)
  BY <1>1, <1>2, <1>4 DEF KeepsMode, TreeIs, UserFor
<1>6. \A o \in Homes : home'[o] = home[o] \/ (home'[o] # None /\ home'[o] = UserFor(FALSE, o))
  BY <1>1, <1>3, UsersNamed
<1>7. Traversable(FALSE, org)
  BY <1>0, <1>1 DEF BaseInv, EnsuredHolds, Traversable
<1>8. TreeIs(FALSE, org)'
  BY <1>4 DEF TreeIs
<1> QED BY <1>0, <1>1, <1>2, <1>5, <1>6, <1>7, <1>8, ClaimKept

LEMMA ClaimHomeKept ==
  ASSUME BaseInv, NEW p \in Srms, ClaimHome(p)
  PROVE  BaseInv'
<1>1. /\ BaseTypes /\ at[p].step = "home" /\ at[p].iso = TRUE /\ Claims(p, "caches") 
      /\ home' = [home EXCEPT ![at[p].org] = at[p].org]
      /\ UNCHANGED <<isolated, accounts, root, caches, unit, up, work, todo, ensured, switches>>
  BY DEF ClaimHome, BaseInv, BaseTypes, CommandRecs, CommandFits
<1>0. PICK org \in Homes : org = at[p].org
  BY <1>1 DEF BaseTypes, CommandFits, EnsureSteps
<1>2. /\ root' \in {None, "closed", "open"} /\ (root = "open" => root' = "open")
      /\ home' \in [Homes -> Owners] /\ caches' \in [Owners -> Owners] /\ ensured' \in [Srms -> SUBSET Owners]
  BY <1>0, <1>1 DEF BaseTypes, BaseTypeOK, Owners
<1>3. /\ home'[org] = org /\ \A o \in Homes : home'[o] = home[o] \/ home'[o] = o
  BY <1>0, <1>1 DEF BaseTypes, BaseTypeOK
<1>4. KeepsMode(TRUE)
  BY <1>0, <1>1, <1>3 DEF KeepsMode, TreeIs, UserFor
<1>5. \A o \in Homes : home'[o] = home[o] \/ (home'[o] # None /\ home'[o] = UserFor(TRUE, o))
  BY <1>3, UsersNamed DEF UserFor
<1>6. Traversable(TRUE, org)
  BY <1>0, <1>1 DEF BaseInv, EnsuredHolds
<1>7. TreeIs(TRUE, org)'
  BY <1>0, <1>1, <1>3 DEF TreeIs
<1> QED BY <1>0, <1>1, <1>2, <1>4, <1>5, <1>6, <1>7, ClaimKept

LEMMA ClaimSharedCachesKept ==
  ASSUME BaseInv, NEW p \in Srms, ClaimSharedCaches(p)
  PROVE  BaseInv'
<1>1. /\ BaseTypes /\ at[p].step = "caches" /\ at[p].iso = FALSE /\ Claims(p, "unit") /\ Ensured(p)
      /\ caches' = [c \in Owners |-> IF c = Shared \/ caches[c] # None THEN Shared ELSE None]
      /\ UNCHANGED <<isolated, accounts, root, home, unit, up, work, todo, switches>>
  BY DEF ClaimSharedCaches, BaseInv, BaseTypes, CommandRecs
<1>0. PICK org \in Homes : org = at[p].org
  BY <1>1 DEF BaseTypes, CommandFits, EnsureSteps
<1>2. \A o : UserFor(FALSE, o) = Shared
  BY DEF UserFor
<1>3. /\ root' \in {None, "closed", "open"} /\ (root = "open" => root' = "open")
      /\ home' \in [Homes -> Owners] /\ caches' \in [Owners -> Owners]
      /\ Shared \in Owners /\ caches'[Shared] = Shared
  BY <1>1 DEF BaseTypes, BaseTypeOK, Owners
<1>4. ensured' = [ensured EXCEPT ![p] = @ \cup {Shared}]
  BY <1>1, <1>2 DEF Ensured
<1>5. ensured' \in [Srms -> SUBSET Owners] /\ \A q \in Srms \ {p} : ensured'[q] = ensured[q]
  BY <1>1, <1>3, <1>4 DEF BaseTypes, BaseTypeOK
<1>6. KeepsMode(FALSE)
  <2>1. \A o \in Homes : TreeIs(FALSE, o) => TreeIs(FALSE, o)'
    BY <1>1 DEF TreeIs
  <2>2. \A o \in Homes : caches'[UserFor(FALSE, o)] = UserFor(FALSE, o)
    BY <1>2, <1>3
  <2> QED BY <1>1, <1>3, <2>1, <2>2 DEF KeepsMode
<1>7. EnsuredHolds(p)
  BY DEF BaseInv
<1>8. Traversable(FALSE, org) /\ (at[p].clean => TreeIs(FALSE, org))
  BY <1>0, <1>1, <1>7 DEF EnsuredHolds
<1>9. \A o \in Homes : at[p].clean => Served(FALSE, o)'
  BY <1>1, <1>2, <1>3, <1>8 DEF Served, Traversable, TreeIs, UserFor
<1>10. PICK s \in {"caches", "unit"}, m \in BOOLEAN : s = "unit" /\ m = FALSE
  OBVIOUS
<1>11. /\ at[p].iso = m /\ Claims(p, s) /\ KeepsMode(m) /\ Traversable(m, org)
       /\ at[p].clean => Served(m, org)'
       /\ \A o \in Homes : at[p].clean => Served(m, o)'
  BY <1>1, <1>6, <1>8, <1>9, <1>10
<1> QED BY <1>0, <1>1, <1>3, <1>5, <1>10, <1>11, ClaimKept

LEMMA ClaimOwnCachesKept ==
  ASSUME BaseInv, NEW p \in Srms, ClaimOwnCaches(p)
  PROVE  BaseInv'
<1>1. /\ BaseTypes /\ at[p].step = "caches" /\ at[p].iso = TRUE /\ Claims(p, "unit") /\ Ensured(p)
      /\ caches' = [caches EXCEPT ![at[p].org] = at[p].org]
      /\ UNCHANGED <<isolated, accounts, root, home, unit, up, work, todo, switches>>
  BY DEF ClaimOwnCaches, BaseInv, BaseTypes, CommandRecs
<1>0. PICK org \in Homes : org = at[p].org
  BY <1>1 DEF BaseTypes, CommandFits, EnsureSteps
<1>2. \A o : UserFor(TRUE, o) = o
  BY DEF UserFor
<1>3. /\ root' \in {None, "closed", "open"} /\ (root = "open" => root' = "open")
      /\ home' \in [Homes -> Owners] /\ caches' \in [Owners -> Owners]
      /\ org \in Owners /\ caches'[org] = org /\ \A o \in Homes : caches[o] = o => caches'[o] = o
  BY <1>0, <1>1 DEF BaseTypes, BaseTypeOK, Owners
<1>4. ensured' = [ensured EXCEPT ![p] = @ \cup {org}]
  BY <1>0, <1>1, <1>2 DEF Ensured
<1>5. ensured' \in [Srms -> SUBSET Owners] /\ (\A q \in Srms \ {p} : ensured'[q] = ensured[q])
      /\ ensured'[p] = ensured[p] \cup {org}
  BY <1>1, <1>3, <1>4 DEF BaseTypes, BaseTypeOK
<1>6. KeepsMode(TRUE)
  <2>1. \A o \in Homes : TreeIs(TRUE, o) => TreeIs(TRUE, o)'
    BY <1>1 DEF TreeIs
  <2>2. \A o \in Homes : caches[UserFor(TRUE, o)] = UserFor(TRUE, o) => caches'[UserFor(TRUE, o)] = UserFor(TRUE, o)
    BY <1>2, <1>3
  <2> QED BY <1>1, <1>3, <2>1, <2>2 DEF KeepsMode
<1>7. EnsuredHolds(p)
  BY DEF BaseInv
<1>8. Traversable(TRUE, org) /\ (at[p].clean => TreeIs(TRUE, org))
  BY <1>0, <1>1, <1>7 DEF EnsuredHolds
<1>9. at[p].clean => Served(TRUE, org)'
  BY <1>1, <1>2, <1>3, <1>8 DEF Served, Traversable, TreeIs, UserFor
<1>10. PICK s \in {"caches", "unit"}, m \in BOOLEAN : s = "unit" /\ m = TRUE
  OBVIOUS
<1>11. /\ at[p].iso = m /\ Claims(p, s) /\ KeepsMode(m) /\ Traversable(m, org)
       /\ at[p].clean => Served(m, org)'
       /\ \A o \in Homes : UserFor(m, o) = o
  BY <1>1, <1>2, <1>6, <1>8, <1>9, <1>10
<1>12. \A o \in Homes : UserFor(m, o) \in ensured'[p] =>
         UserFor(m, o) \in ensured[p] \/ (s = "unit" /\ (at[p].clean => Served(m, o)'))
  BY <1>5, <1>10, <1>11
<1>13. /\ s = "caches" <=> at[p].step # "caches"
       /\ \A o \in Homes : home'[o] = home[o] \/ (home'[o] # None /\ home'[o] = UserFor(m, o))
       /\ s = "caches" /\ at[p].clean => TreeIs(m, org)'
       /\ s = "unit" /\ at[p].clean => Served(m, org)'
  BY <1>1, <1>10, <1>11
<1>14. UNCHANGED <<isolated, accounts, unit, up, work, todo, switches>>
  BY <1>1
<1>15. at[p].iso = m /\ at[p].org = org /\ at[p].step \in {"root", "home", "caches"}
  BY <1>0, <1>1, <1>11
<1>16. Claims(p, s) /\ KeepsMode(m) /\ Traversable(m, org)
  BY <1>11
<1> QED BY <1>3, <1>5, <1>12, <1>13, <1>14, <1>15, <1>16, ClaimKept

LEMMA EnsureFailsKept ==
  ASSUME BaseInv, NEW p \in Srms, EnsureFails(p)
  PROVE  BaseInv'
<1>1. /\ BaseTypes /\ at[p].step # "idle"
      /\ at' = [at EXCEPT ![p] = IF at[p].kind = "create" THEN Idle ELSE [at[p] EXCEPT !.step = "pick", !.box = None]]
      /\ UNCHANGED <<isolated, accounts, root, home, caches, unit, up, work, todo, ensured, fresh, switches>>
  BY DEF EnsureFails, BaseInv, EnsureSteps
<1>2. /\ at'[p] \in CommandRecs /\ at'[p].step \in {"idle", "pick"}
      /\ at'[p].step = "pick" => at'[p].iso = at[p].iso /\ at'[p].clean = at[p].clean
      /\ \A q \in Srms \ {p} : at'[q] = at[q]
  <2>1. Idle \in CommandRecs /\ Idle.step = "idle"
    BY DEF Idle, CommandRecs
  <2>2. PICK x : x = [at[p] EXCEPT !.step = "pick"]
    OBVIOUS
  <2>3. x \in CommandRecs /\ x.step = "pick" /\ x.iso = at[p].iso /\ x.clean = at[p].clean
    BY <1>1, <2>2 DEF BaseTypes, CommandRecs
  <2>4. PICK y : y = [x EXCEPT !.box = None]
    OBVIOUS
  <2>5. y \in CommandRecs /\ y.step = "pick" /\ y.iso = at[p].iso /\ y.clean = at[p].clean
    BY <2>3, <2>4 DEF CommandRecs
  <2>6. at'[p] = IF at[p].kind = "create" THEN Idle ELSE y
    BY <1>1, <2>2, <2>4 DEF BaseTypes
  <2>7. \A q \in Srms \ {p} : at'[q] = at[q]
    BY <1>1 DEF BaseTypes
  <2> QED BY <2>1, <2>5, <2>6, <2>7
<1>3. at' \in [Srms -> CommandRecs]
  BY <1>1, <1>2 DEF BaseTypes
<1>4. \A iso : KeepsMode(iso)
  BY <1>1, ModeKept
<1>5. CommandFits(p)' /\ EnsuredHolds(p)'
  <2>1. EnsuredHolds(p)
    BY DEF BaseInv
  <2> QED BY <1>1, <1>2, <2>1 DEF CommandFits, EnsureSteps, EnsuredHolds, Served, Traversable, TreeIs, UserFor
<1>6. OneMode'
  BY <1>1, <1>2, OneModeKept
<1>7. FreshIsServed'
  BY <1>1, <1>4, FreshKept
<1>8. BaseTypeOK' /\ \A b \in Boxes : UnitFits(b)'
  BY <1>1 DEF BaseTypes, BaseTypeOK, UnitFits
<1> QED BY <1>1, <1>2, <1>3, <1>4, <1>5, <1>6, <1>7, <1>8, CommandStep

LEMMA InstallRunnerKept ==
  ASSUME BaseInv, NEW p \in Srms, InstallRunner(p)
  PROVE  BaseInv'
<1>1. BaseTypes /\ at[p].step = "unit" /\ at[p].kind = "create" /\ CommandFits(p) /\ EnsuredHolds(p)
  BY DEF InstallRunner, BaseInv, BaseTypes
<1>2. PICK b \in Boxes, o \in Homes, m \in BOOLEAN :
        b = at[p].box /\ o = HomeOf[b] /\ o = at[p].org /\ m = at[p].iso
  BY <1>1 DEF BaseTypes, CommandFits, CommandRecs, EnsureSteps
<1> DEFINE x == [svc |-> UserFor(m, o), drop |-> DropFor(m, o), env |-> CacheFor(m, o)]
<1>3. /\ home' = [home EXCEPT ![o] = x.svc] /\ unit' = [unit EXCEPT ![b] = x]
      /\ up' = [up EXCEPT ![b] = IF x.svc \in accounts /\ (root = "open" \/ x.svc = Shared) THEN x.svc ELSE None]
      /\ work' = work \ {b}
      /\ IF Outdated(p) THEN fresh' = {} ELSE Reported(p, b)
      /\ at' = [q \in Srms |-> IF q = p THEN Idle ELSE [at[q] EXCEPT !.clean = @ /\ ~Spoils(p, q)]]
      /\ UNCHANGED <<isolated, accounts, root, caches, todo, ensured, switches>>
  BY <1>2 DEF InstallRunner
<1>4. x.svc = UserFor(m, o) /\ x.drop = DropFor(m, o) /\ x.env = CacheFor(m, o)
      /\ x \in [svc : Owners, drop : Owners, env : Owners] /\ x.svc # None /\ x.svc \in Owners
  BY UsersNamed DEF UserFor, DropFor, CacheFor, Owners
<1> HIDE DEF x
<1>5. /\ unit'[b] = x /\ \A c \in Boxes \ {b} : unit'[c] = unit[c] /\ up'[c] = up[c]
      /\ home'[o] = UserFor(m, o) /\ \A h \in Homes \ {o} : home'[h] = home[h]
  BY <1>1, <1>3, <1>4 DEF BaseTypes, BaseTypeOK
<1>6. BaseTypeOK'
  <2>1. fresh' \subseteq Boxes
    BY <1>1, <1>3 DEF Reported, BaseTypes, BaseTypeOK
  <2>2. home' \in [Homes -> Owners] /\ unit' \in [Boxes -> [svc : Owners, drop : Owners, env : Owners]]
        /\ up' \in [Boxes -> Owners] /\ work' \subseteq Boxes
    BY <1>1, <1>3, <1>4 DEF BaseTypes, BaseTypeOK, Owners
  <2> QED BY <1>1, <1>3, <2>1, <2>2 DEF BaseTypes, BaseTypeOK
<1>7. /\ at'[p].step = "idle" /\ at'[p] \in CommandRecs
      /\ \A q \in Srms \ {p} :
           /\ at'[q].step = at[q].step /\ at'[q].iso = at[q].iso /\ at'[q].kind = at[q].kind
           /\ at'[q].org = at[q].org /\ at'[q].box = at[q].box /\ at'[q] \in CommandRecs
           /\ at'[q].clean = (at[q].clean /\ at[q].iso = m)
  <2>1. Idle \in CommandRecs /\ Idle.step = "idle"
    BY DEF Idle, CommandRecs
  <2>2. at'[p] = Idle /\ \A q \in Srms \ {p} : at'[q] = [at[q] EXCEPT !.clean = @ /\ at[q].iso = m]
    BY <1>2, <1>3 DEF Spoils
  <2>3. \A q \in Srms : at[q] \in CommandRecs
    BY <1>1 DEF BaseTypes
  <2>4. ASSUME NEW q \in Srms \ {p}
        PROVE  /\ at'[q].step = at[q].step /\ at'[q].iso = at[q].iso /\ at'[q].kind = at[q].kind
               /\ at'[q].org = at[q].org /\ at'[q].box = at[q].box /\ at'[q] \in CommandRecs
               /\ at'[q].clean = (at[q].clean /\ at[q].iso = m)
    <3> DEFINE c == at[q].clean /\ at[q].iso = m
    <3>1. at'[q] = [at[q] EXCEPT !.clean = c] /\ c \in BOOLEAN /\ at[q] \in CommandRecs
      BY <2>2, <2>3, <2>4
    <3> HIDE DEF c
    <3>2. /\ at'[q].step = at[q].step /\ at'[q].iso = at[q].iso /\ at'[q].kind = at[q].kind
          /\ at'[q].org = at[q].org /\ at'[q].box = at[q].box /\ at'[q] \in CommandRecs
          /\ at'[q].clean = c
      BY <3>1 DEF CommandRecs
    <3> QED BY <3>2 DEF c
  <2> QED BY <2>1, <2>2, <2>4
<1>8. at' \in [Srms -> CommandRecs]
  BY <1>3, <1>7
<1>9. KeepsMode(m)
  <2>1. \A h \in Homes : TreeIs(m, h) => TreeIs(m, h)'
    BY <1>5 DEF TreeIs, UserFor
  <2> QED BY <1>3, <2>1 DEF KeepsMode
<1>10. CommandFits(p)' /\ EnsuredHolds(p)'
  BY <1>7 DEF CommandFits, EnsuredHolds, EnsureSteps
<1>11. OneMode'
  <2>1. switches = 0 => m = isolated
    BY <1>1, <1>2 DEF BaseInv, OneMode
  <2>2. switches = 0 => \A h \in Homes : home'[h] \in {home[h], UserFor(isolated, h)}
    BY <1>5, <2>1
  <2>3. \A q \in Srms : at'[q].step # "idle" => at[q].step # "idle" /\ at'[q].iso = at[q].iso
    BY <1>7
  <2>4. work' \subseteq work /\ \A c \in work' : up'[c] = up[c]
    BY <1>1, <1>3, <1>5 DEF BaseTypes, BaseTypeOK
  <2> QED BY <1>3, <2>2, <2>3, <2>4, OneModeKept
<1>12. FreshIsServed'
  <2>1. ASSUME NEW c \in fresh', c # b
        PROVE  c \in fresh /\ unit'[c] = unit[c] /\ KeepsMode(isolated)
    <3>1. ~Outdated(p) /\ c \in fresh
      BY <1>3, <2>1 DEF Reported
    <3> QED BY <1>1, <1>2, <1>5, <1>9, <2>1, <3>1 DEF Outdated, BaseTypes, BaseTypeOK
  <2>2. ASSUME b \in fresh'
        PROVE  /\ unit'[b].svc # None /\ Served(isolated, HomeOf[b])'
               /\ unit'[b].drop = DropFor(isolated, HomeOf[b]) /\ unit'[b].env = CacheFor(isolated, HomeOf[b])
    <3>1. at[p].clean /\ m = isolated
      BY <1>2, <1>3, <2>2 DEF Reported, Outdated
    <3>2. Served(m, o)
      BY <1>1, <1>2, <3>1 DEF EnsuredHolds
    <3>3. Served(m, o)'
      BY <1>9, <3>2, ServedKept
    <3> QED BY <1>2, <1>3, <1>4, <1>5, <3>1, <3>3
  <2> QED BY <1>3, <2>1, <2>2, FreshKept
<1>13. \A c \in Boxes : (unit[c].svc # None => unit'[c].svc # None) /\ UnitFits(c)'
  <2> TAKE c \in Boxes
  <2>1. HomeOf[c] \in Homes
    BY BaseConstants
  <2>2. home[HomeOf[c]] # None => home'[HomeOf[c]] # None
    BY <1>5, <2>1, UsersNamed
  <2>3. CASE c = b
    BY <1>2, <1>4, <1>5, <2>3, UsersNamed DEF UnitFits
  <2>4. CASE c # b
    BY <1>1, <1>5, <2>2, <2>4 DEF UnitFits, BaseTypes
  <2> QED BY <2>3, <2>4
<1> QED BY <1>3, <1>6, <1>7, <1>8, <1>9, <1>10, <1>11, <1>12, <1>13, CommandStep

LEMMA RefreshUnitKept ==
  ASSUME BaseInv, NEW p \in Srms, RefreshUnit(p)
  PROVE  BaseInv'
<1>1. BaseTypes /\ at[p].step = "unit" /\ at[p].kind # "create" /\ CommandFits(p) /\ EnsuredHolds(p)
  BY DEF RefreshUnit, BaseInv, BaseTypes
<1>2. PICK b \in Boxes, o \in Homes, m \in BOOLEAN :
        b = at[p].box /\ o = HomeOf[b] /\ o = at[p].org /\ m = at[p].iso /\ unit[b].svc # None
  BY <1>1 DEF BaseTypes, CommandFits, CommandRecs, EnsureSteps
<1> DEFINE x == [unit[b] EXCEPT !.drop = DropFor(m, o), !.env = CacheFor(m, o)]
<1>3. /\ unit' = [unit EXCEPT ![b] = x] /\ up' = [up EXCEPT ![b] = Started(b, x)] /\ work' = work \ {b}
      /\ IF at[p].kind = "refresh" THEN Reported(p, b) ELSE fresh' = fresh \ {b}
      /\ at' = [at EXCEPT ![p] = [@ EXCEPT !.step = "pick", !.box = None]]
      /\ UNCHANGED <<isolated, accounts, root, home, caches, todo, ensured, switches>>
  BY <1>2 DEF RefreshUnit
<1>4. /\ x \in [svc : Owners, drop : Owners, env : Owners]
      /\ x.svc = unit[b].svc /\ x.drop = DropFor(m, o) /\ x.env = CacheFor(m, o)
  <2>1. PICK y : y = [unit[b] EXCEPT !.drop = DropFor(m, o)]
    OBVIOUS
  <2>2. DropFor(m, o) \in Owners /\ CacheFor(m, o) \in Owners /\ unit[b] \in [svc : Owners, drop : Owners, env : Owners]
    BY <1>1 DEF DropFor, CacheFor, Owners, BaseTypes, BaseTypeOK
  <2>3. y \in [svc : Owners, drop : Owners, env : Owners] /\ y.svc = unit[b].svc /\ y.drop = DropFor(m, o)
    BY <2>1, <2>2
  <2>4. x = [y EXCEPT !.env = CacheFor(m, o)]
    BY <2>1
  <2> HIDE DEF x
  <2> QED BY <2>2, <2>3, <2>4
<1>5. Started(b, x) \in Owners
  <2> HIDE DEF x
  <2> QED BY <1>4 DEF Started, Effective, Owners
<1> HIDE DEF x
<1>6. unit'[b] = x /\ \A c \in Boxes \ {b} : unit'[c] = unit[c] /\ up'[c] = up[c]
  BY <1>1, <1>3 DEF BaseTypes, BaseTypeOK
<1>7. BaseTypeOK'
  <2>1. fresh' \subseteq Boxes
    BY <1>1, <1>3 DEF Reported, BaseTypes, BaseTypeOK
  <2>2. unit' \in [Boxes -> [svc : Owners, drop : Owners, env : Owners]] /\ up' \in [Boxes -> Owners] /\ work' \subseteq Boxes
    BY <1>1, <1>3, <1>4, <1>5 DEF BaseTypes, BaseTypeOK
  <2> QED BY <1>1, <1>3, <2>1, <2>2 DEF BaseTypes, BaseTypeOK
<1>8. /\ at'[p] \in CommandRecs /\ at'[p].step = "pick" /\ at'[p].iso = m /\ at'[p].clean = at[p].clean
      /\ \A q \in Srms \ {p} : at'[q] = at[q]
  <2>1. PICK y : y = [at[p] EXCEPT !.step = "pick"]
    OBVIOUS
  <2>2. y \in CommandRecs /\ y.step = "pick" /\ y.iso = m /\ y.clean = at[p].clean
    BY <1>1, <1>2, <2>1 DEF BaseTypes, CommandRecs
  <2>3. PICK z : z = [y EXCEPT !.box = None]
    OBVIOUS
  <2>4. z \in CommandRecs /\ z.step = "pick" /\ z.iso = m /\ z.clean = at[p].clean
    BY <2>2, <2>3 DEF CommandRecs
  <2>5. at'[p] = z /\ \A q \in Srms \ {p} : at'[q] = at[q]
    BY <1>1, <1>3, <2>1, <2>3 DEF BaseTypes
  <2> QED BY <2>4, <2>5
<1>9. at' \in [Srms -> CommandRecs]
  BY <1>1, <1>3, <1>8 DEF BaseTypes
<1>10. \A iso : KeepsMode(iso)
  BY <1>3, ModeKept
<1>11. CommandFits(p)' /\ EnsuredHolds(p)'
  BY <1>1, <1>2, <1>3, <1>8 DEF CommandFits, EnsureSteps, EnsuredHolds, Served, Traversable, TreeIs, UserFor
<1>12. OneMode'
  <2>1. work' \subseteq work /\ \A c \in work' : up'[c] = up[c]
    BY <1>1, <1>3, <1>6 DEF BaseTypes, BaseTypeOK
  <2>2. \A q \in Srms : at'[q].step # "idle" => at[q].step # "idle" /\ at'[q].iso = at[q].iso
    BY <1>1, <1>2, <1>8
  <2> QED BY <1>3, <2>1, <2>2, OneModeKept
<1>13. FreshIsServed'
  <2>1. ASSUME NEW c \in fresh', c # b
        PROVE  c \in fresh /\ unit'[c] = unit[c] /\ KeepsMode(isolated)
    <3>1. c \in fresh
      BY <1>3, <2>1 DEF Reported
    <3> QED BY <1>1, <1>6, <1>10, <2>1, <3>1 DEF BaseTypes, BaseTypeOK
  <2>2. ASSUME b \in fresh'
        PROVE  /\ unit'[b].svc # None /\ Served(isolated, HomeOf[b])'
               /\ unit'[b].drop = DropFor(isolated, HomeOf[b]) /\ unit'[b].env = CacheFor(isolated, HomeOf[b])
    <3>1. at[p].kind = "refresh" /\ at[p].clean /\ m = isolated
      BY <1>2, <1>3, <2>2 DEF Reported, Outdated
    <3>2. Served(m, o)
      BY <1>1, <1>2, <3>1 DEF EnsuredHolds
    <3>3. Served(m, o)'
      BY <1>10, <3>2, ServedKept
    <3> QED BY <1>2, <1>3, <1>4, <1>6, <3>1, <3>3
  <2> QED BY <1>3, <2>1, <2>2, FreshKept
<1>14. \A c \in Boxes : (unit[c].svc # None => unit'[c].svc # None) /\ UnitFits(c)'
  <2> TAKE c \in Boxes
  <2>1. UnitFits(c)
    BY <1>1 DEF BaseTypes
  <2>2. CASE c = b
    BY <1>2, <1>3, <1>4, <1>6, <2>1, <2>2 DEF UnitFits, NoUnit
  <2>3. CASE c # b
    BY <1>3, <1>6, <2>1, <2>3 DEF UnitFits
  <2> QED BY <2>2, <2>3
<1> QED BY <1>3, <1>7, <1>8, <1>9, <1>10, <1>11, <1>12, <1>13, <1>14, CommandStep

LEMMA HostStepsKept ==
  ASSUME BaseInv, SwitchMode \/ Reboot \/ (\E b \in Boxes : TakeJob(b) \/ EndJob(b)) \/ UNCHANGED baseVars
  PROVE  BaseInv'
<1>1. BaseTypes /\ UNCHANGED <<accounts, root, home, caches, unit, ensured>>
  BY DEF BaseInv, SwitchMode, Reboot, TakeJob, EndJob, baseVars
<1>2. \A b \in Boxes : UnitFits(b)'
  BY <1>1 DEF BaseTypes, UnitFits
<1>3. \A iso : KeepsMode(iso)
  BY <1>1, ModeKept
<1>4. \A q \in Srms : at'[q] = at[q] => EnsuredHolds(q)' /\ CommandFits(q)' /\ (todo' = todo => RowsFit(q)')
  <2> SUFFICES ASSUME NEW q \in Srms, at'[q] = at[q]
               PROVE  EnsuredHolds(q)' /\ CommandFits(q)' /\ (todo' = todo => RowsFit(q)')
    OBVIOUS
  <2>1. EnsuredHolds(q)'
    BY <1>1, <1>3, OthersKeep
  <2> QED BY <1>1, <2>1 DEF BaseTypes, CommandFits, RowsFit
<1>5. CASE SwitchMode
  <2>1. /\ isolated' = ~isolated /\ fresh' = {} /\ switches' = switches + 1
        /\ UNCHANGED <<up, work, at, todo>>
    BY <1>5 DEF SwitchMode
  <2>2. BaseTypes'
    BY <1>1, <1>2, <1>4, <2>1 DEF BaseTypes, BaseTypeOK
  <2>3. OneMode'
    BY <1>1, <2>1 DEF OneMode, BaseTypes
  <2> QED BY <1>4, <2>1, <2>2, <2>3 DEF BaseInv, FreshIsServed
<1>6. CASE Reboot
  <2>1. /\ up' = [b \in Boxes |-> IF unit[b] = NoUnit THEN None ELSE Started(b, unit[b])]
        /\ work' = {} /\ at' = [p \in Srms |-> Idle] /\ todo' = [p \in Srms |-> {}]
        /\ UNCHANGED <<isolated, fresh, switches>>
    BY <1>6 DEF Reboot
  <2>2. \A b \in Boxes : Started(b, unit[b]) \in Owners /\ None \in Owners
    BY <1>1 DEF Started, Effective, BaseTypes, BaseTypeOK, Owners
  <2>3. up' \in [Boxes -> Owners]
    BY <2>1, <2>2
  <2>4. Idle \in CommandRecs /\ Idle.step = "idle"
    BY DEF Idle, CommandRecs
  <2>5. \A p \in Srms : CommandFits(p)' /\ RowsFit(p)' /\ EnsuredHolds(p)'
    BY <2>1, <2>4 DEF CommandFits, RowsFit, EnsuredHolds, EnsureSteps
  <2>6. BaseTypes'
    BY <1>1, <1>2, <2>1, <2>3, <2>4, <2>5 DEF BaseTypes, BaseTypeOK
  <2>7. OneMode'
    <3>1. \A q \in Srms : at'[q].step = "idle"
      BY <2>1, <2>4
    <3> QED BY <1>1, <2>1, <3>1, OneModeKept
  <2>8. FreshIsServed'
    BY <1>1, <1>3, <2>1, FreshKept
  <2> QED BY <2>5, <2>6, <2>7, <2>8 DEF BaseInv
<1>7. CASE (\E b \in Boxes : TakeJob(b) \/ EndJob(b)) \/ UNCHANGED baseVars
  <2>1. UNCHANGED <<isolated, fresh, switches, up, at, todo>> /\ work' \subseteq Boxes
    BY <1>1, <1>7 DEF TakeJob, EndJob, baseVars, BaseTypes, BaseTypeOK
  <2>2. \A b \in work' \ work : up[b] # None /\ home[HomeOf[b]] = up[b]
    BY <1>7 DEF TakeJob, EndJob, baseVars
  <2>3. BaseTypes'
    BY <1>1, <1>2, <1>4, <2>1 DEF BaseTypes, BaseTypeOK
  <2>4. OneMode'
    BY <1>1, <2>1, <2>2 DEF BaseInv, OneMode, UserFor
  <2>5. FreshIsServed'
    BY <1>1, <1>3, <2>1, FreshKept
  <2> QED BY <1>4, <2>1, <2>3, <2>4, <2>5 DEF BaseInv
<1> QED BY <1>5, <1>6, <1>7

LEMMA BaseInvHolds == BaseSpec => []BaseInv
<1>1. BaseInv /\ (BaseNext \/ UNCHANGED baseVars) => BaseInv'
  BY BeginsKept, NextRowKept, OpeningKept, ClaimRootKept, ClaimHomeKept, ClaimSharedCachesKept, ClaimOwnCachesKept,
     EnsureFailsKept, InstallRunnerKept, RefreshUnitKept, HostStepsKept DEF BaseNext
<1> QED BY <1>1, BaseInitInv, PTL DEF BaseSpec

\* The layout of the install root serves the jobs that run in it and the units that start
\* next, for any orgs, runners, processes, failing steps, reboots and changes of the mode
\* (EnsureBase, RefreshLocalUnits, CreateRunner).
THEOREM LayoutKeepsServing == BaseSpec => []LayoutServes
<1>1. BaseInv => LayoutServes
  <2> SUFFICES ASSUME BaseInv PROVE LayoutServes
    OBVIOUS
  <2>1. BaseTypeOK /\ JobKeepsTree
    BY DEF BaseInv, BaseTypes, OneMode, JobKeepsTree
  <2>2. MigratesInPlace
    <3> SUFFICES ASSUME NEW b \in fresh, isolated \/ unit[b].svc = Shared PROVE Usable(b)
      BY DEF MigratesInPlace
    <3>1. /\ unit[b].svc # None /\ unit[b].drop = DropFor(isolated, HomeOf[b])
          /\ unit[b].env = CacheFor(isolated, HomeOf[b]) /\ Served(isolated, HomeOf[b])
      BY DEF BaseInv, FreshIsServed
    <3>2. b \in Boxes /\ HomeOf[b] \in Homes
      BY BaseConstants DEF BaseInv, BaseTypes, BaseTypeOK
    <3>3. home[HomeOf[b]] # None
      <4>1. NoUnit.svc = None
        BY DEF NoUnit
      <4> QED BY <3>1, <3>2, <4>1 DEF BaseInv, BaseTypes, UnitFits
    <3>4. CASE isolated
      <4>1. HomeOf[b] # None
        BY <3>2, UsersNamed
      <4> QED BY <3>1, <3>2, <3>4, <4>1
              DEF Usable, Reaches, Effective, DropFor, CacheFor, Served, Traversable, TreeIs, UserFor
    <3>5. CASE ~isolated
      BY <3>1, <3>2, <3>3, <3>5 DEF Usable, Reaches, Effective, DropFor, CacheFor, Served, Traversable, TreeIs, UserFor
    <3> QED BY <3>4, <3>5
  <2> QED BY <2>1, <2>2 DEF LayoutServes
<1> QED BY <1>1, BaseInvHolds, PTL

=============================================================================
