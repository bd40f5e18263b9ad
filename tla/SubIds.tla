------------------------------- MODULE SubIds -------------------------------
(***************************************************************************)
(* The subordinate id ranges of rootless Docker.  ensureSubIDRange gives a *)
(* service user a block in /etc/subuid and in /etc/subgid: it reads the    *)
(* file, keeps a block that is wide enough, refuses a narrow one, else     *)
(* appends a block past the highest end and rewrites the whole file, which *)
(* truncates it first.  No lock: several srm processes may do so at once,  *)
(* and one may be killed anywhere.                                         *)
(***************************************************************************)
EXTENDS Integers, Sequences

CONSTANTS
  Users,       \* whoever may have a block in the files
  Services,    \* the service users among them
  Procs,       \* srm processes
  Width,       \* SubIDCount
  Books,       \* what the files may hold before srm's first run
  MaxEnsures, MaxKills

Base  == 100000
Files == {"subuid", "subgid"}

Lines == [user : Users, start : Nat, count : Nat]
End(l) == l.start + l.count

\* No two users' blocks overlap.
Disjoint(B) == \A i, j \in DOMAIN B :
  B[i].user # B[j].user => End(B[i]) <= B[j].start \/ End(B[j]) <= B[i].start

ASSUME SubIdConstants ==
  /\ Width \in Nat \ {0} /\ Services \subseteq Users
  /\ \A B \in Books : B \in Seq(Lines) /\ Disjoint(B)
  /\ MaxEnsures \in Nat /\ MaxKills \in Nat

VARIABLES
  book,     \* the lines of the two files
  act,      \* per process: its step, the user it serves and the file it is at
  copy,     \* per process: the lines it has read
  next,     \* per process: where it will put the new block
  granted,  \* history: the users EnsureBase has returned for
  raced,    \* history: a rewrite has begun while another process held a copy
            \* of the file, or one was killed with the file truncated
  torn,     \* history: a file has been opened while another process wrote it
  ensures, kills

subVars == <<book, act, copy, next, granted, raced, torn, ensures, kills>>

Resting == [step |-> "idle", user |-> CHOOSE u \in Users : TRUE, file |-> "subuid"]

Mentions(B, u) == \E i \in DOMAIN B : B[i].user = u

\* The first line of the user decides.
Adequate(B, u) == \E i \in DOMAIN B :
  /\ B[i].user = u /\ B[i].count >= Width
  /\ \A j \in 1..(i - 1) : B[j].user # u

\* The end of whatever line comes last.
IsNextLast(n, B) == IF B = <<>> THEN n = Base ELSE n = End(B[Len(B)])

\* An end of B's blocks no other exceeds, never below the base.
IsNext(n, B) == /\ n >= Base /\ \A i \in DOMAIN B : End(B[i]) <= n
                /\ n = Base \/ \E i \in DOMAIN B : End(B[i]) = n

-----------------------------------------------------------------------------
SubInit ==
  /\ book \in [Files -> Books]
  /\ act = [p \in Procs |-> Resting]
  /\ copy = [p \in Procs |-> <<>>] /\ next = [p \in Procs |-> Base]
  /\ granted = {} /\ raced = FALSE /\ torn = FALSE /\ ensures = 0 /\ kills = 0

Ensure(p, u) ==
  /\ act[p].step = "idle" /\ ensures < MaxEnsures
  /\ ensures' = ensures + 1
  /\ act' = [act EXCEPT ![p] = [step |-> "read", user |-> u, file |-> "subuid"]]
  /\ UNCHANGED <<book, copy, next, granted, raced, torn, kills>>

\* The user has both blocks once the second file is done.
Done(p, f) ==
  IF f = "subuid"
  THEN /\ act' = [act EXCEPT ![p] = [@ EXCEPT !.step = "read", !.file = "subgid"]]
       /\ UNCHANGED granted
  ELSE /\ act' = [act EXCEPT ![p] = [@ EXCEPT !.step = "idle"]]
       /\ granted' = granted \cup {act[p].user}

ReadBook(p) ==
  LET f == act[p].file  u == act[p].user  B == book[f]
  IN /\ act[p].step = "read"
     /\ \/ /\ Adequate(B, u) /\ Done(p, f)
           /\ UNCHANGED <<copy, next>>
        \/ /\ Mentions(B, u) /\ ~Adequate(B, u)
           /\ act' = [act EXCEPT ![p] = [@ EXCEPT !.step = "idle"]]
           /\ UNCHANGED <<copy, next, granted>>
        \/ /\ ~Mentions(B, u)
           /\ copy' = [copy EXCEPT ![p] = B]
           /\ \E n \in {Base} \cup {End(B[i]) : i \in DOMAIN B} :
                IsNext(n, B) /\ next' = [next EXCEPT ![p] = n]
           /\ act' = [act EXCEPT ![p] = [@ EXCEPT !.step = "open"]]
           /\ UNCHANGED granted
     /\ UNCHANGED <<book, raced, torn, ensures, kills>>

\* os.WriteFile opens with O_TRUNC, ...
OpenBook(p) ==
  /\ act[p].step = "open"
  /\ book' = [book EXCEPT ![act[p].file] = <<>>]
  /\ raced' = (raced \/ \E q \in Procs \ {p} :
       act[q].step \in {"open", "write"} /\ act[q].file = act[p].file)
  /\ torn' = (torn \/ \E q \in Procs \ {p} :
       act[q].step = "write" /\ act[q].file = act[p].file)
  /\ act' = [act EXCEPT ![p] = [@ EXCEPT !.step = "write"]]
  /\ UNCHANGED <<copy, next, granted, ensures, kills>>

\* ... and writes, from the start of the file.  What another process has written
\* meanwhile is overwritten from its start; whole lines at its end may outlive
\* it (how many depends on the names' lengths; of a line cut in two nothing is
\* read).
WriteOver(p, new) ==
  LET f == act[p].file
  IN /\ act[p].step = "write"
     /\ \E k \in 0..Len(book[f]) :
          /\ k = 0 => book[f] = <<>>
          /\ book' = [book EXCEPT ![f] = new \o SubSeq(@, k + 1, Len(@))]
     /\ raced' = (raced \/ \E q \in Procs \ {p} :
          act[q].step \in {"open", "write"} /\ act[q].file = f)
     /\ Done(p, f)
     /\ UNCHANGED <<copy, next, torn, ensures, kills>>

Block(p) == [user |-> act[p].user, start |-> next[p], count |-> Width]

WriteBookAnew(p) == WriteOver(p, <<Block(p)>>)

\* The lines that were read, with the new block appended.
WriteBook(p) == WriteOver(p, Append(copy[p], Block(p)))

\* srm is killed; a truncated file stays truncated.
KillEnsure(p) ==
  /\ act[p].step # "idle" /\ kills < MaxKills
  /\ kills' = kills + 1
  /\ act' = [act EXCEPT ![p] = [@ EXCEPT !.step = "idle"]]
  /\ raced' = (raced \/ act[p].step = "write")
  /\ UNCHANGED <<book, copy, next, granted, torn, ensures>>

SubNext == \E p \in Procs :
  \/ \E u \in Services : Ensure(p, u)
  \/ ReadBook(p) \/ OpenBook(p) \/ WriteBook(p) \/ KillEnsure(p)

SubSpec == SubInit /\ [][SubNext]_subVars

-----------------------------------------------------------------------------
\* Two users' blocks never overlap, as the comment on subIDBase demands: they
\* are the boundary between the orgs' user namespaces.
BlocksNeverOverlap == \A f \in Files : Disjoint(book[f])

\* Blocks stay disjoint however stale the copies are that processes rewrite the
\* files from, and wherever those are killed, as long as no file is opened while
\* another process has it truncated and still to be written (ensureSubIDFile).
RangesDisjoint == ~torn => BlocksNeverOverlap

\* A user EnsureBase has returned for keeps a wide enough block in both files,
\* unless two rewrites of a file overlapped or one was cut short: without a
\* lock the later write then drops the earlier one's line.
GrantedIsKept ==
  ~raced => \A u \in granted, f \in Files :
    Adequate(book[f], u) \/ \E p \in Procs :
      /\ act[p].step = "write" /\ act[p].file = f
      /\ Adequate(copy[p], u)
=============================================================================
