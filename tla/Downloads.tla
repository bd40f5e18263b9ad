------------------------------ MODULE Downloads -----------------------------
(***************************************************************************)
(* The big files srm fetches, by several processes at once and through     *)
(* crashes: the agent tarball (fetched to one fixed temporary name beside  *)
(* the cache entry, renamed, checked, extracted), a tool-cache seed        *)
(* (fetched to one fixed name in the temporary directory, unpacked into    *)
(* the shared cache, marked complete, chowned; a zip on Windows), a Python *)
(* seed (the same, through one fixed directory and its setup.sh), and the  *)
(* BuildKit image of the rootless lanes (saved under a name of the lane's, *)
(* then renamed).                                                          *)
(*                                                                         *)
(* A file is an inode whose content is a set of halves: two writers of one *)
(* inode each keep their own position, and O_TRUNC empties it under both.  *)
(***************************************************************************)
EXTENDS Integers, FiniteSets

CONSTANTS
  Fetchers,   \* srm processes
  Artefacts,  \* what may be fetched
  MaxFetches, MaxTrouble

NoFile == 0
Inodes == 1..MaxFetches
Whole  == {1, 2}
Public == "tmp"   \* the one temporary name every process uses

ASSUME DownloadConstants ==
  /\ Artefacts \subseteq {"tarball", "unchecked", "seed", "zip", "python", "image"}
  /\ Public \notin Fetchers
  /\ MaxFetches \in Nat /\ MaxTrouble \in Nat

VARIABLES
  what,     \* the artefact everybody fetches; "unchecked": no published checksum
  dst,      \* the inode in the cache (tarball, image)
  tmp,      \* per temporary name, the inode it names
  data,     \* the content of an inode
  who,      \* per process: its step, the inode it has open, the result of its
            \* last fetch, and (history) whether anything got in its way
  room,     \* what lies in the directory an archive is unpacked into (Public:
            \* the tool cache, or the one Python directory)
  cache,    \* what a Python setup.sh has copied into the tool cache
  marker,   \* x64.complete
  overlap,  \* history: two processes have been at work at once
  fetches, trouble

dlVars == <<what, dst, tmp, data, who, room, cache, marker, overlap, fetches, trouble>>

Asleep == [step |-> "idle", ino |-> NoFile, res |-> "none", hurt |-> FALSE]

-----------------------------------------------------------------------------
\* The temporary name: one for every process, but docker save has one per lane.
Name(p)    == IF what = "image" THEN p ELSE Public
Seeding    == what \in {"seed", "zip", "python"}
Content(i) == IF i = NoFile THEN {} ELSE data[i]
Active     == {p \in Fetchers : who[p].step # "idle"}

\* verifySHA256; without a checksum any content will do.
Accepted(i) == IF what = "unchecked" THEN Content(i) # {} ELSE Content(i) = Whole

Step(p, s)   == who' = [who EXCEPT ![p].step = s]
Finish(p, r) == who' = [who EXCEPT ![p].step = "idle", ![p].res = r]

\* A seed gives up: the deferred removals take the temporary name, whosever it
\* is by now, and the Python directory.
GiveUp(p) ==
  /\ Finish(p, "failed")
  /\ tmp' = [tmp EXCEPT ![Public] = NoFile]
  /\ room' = IF what = "python" THEN [room EXCEPT ![Public] = {}] ELSE room

DlInit ==
  /\ what \in Artefacts
  /\ dst = NoFile /\ tmp = [n \in Fetchers \cup {Public} |-> NoFile]
  /\ data = [i \in Inodes |-> {}]
  /\ who = [p \in Fetchers |-> Asleep]
  /\ room = [n \in Fetchers \cup {Public} |-> {}]
  /\ cache = {} /\ marker = FALSE /\ overlap = FALSE /\ fetches = 0 /\ trouble = 0

\* ensureTarball, seedTarball, seedPython, seedRootlessBuilder: what is cached
\* already is not fetched again.
BeginFetch(p) ==
  /\ who[p].step = "idle" /\ fetches < MaxFetches
  /\ fetches' = fetches + 1
  /\ overlap' = (overlap \/ Active # {})
  /\ LET fresh == [Asleep EXCEPT !.hurt = Active # {}]
         mine  == CASE Seeding /\ marker        -> [fresh EXCEPT !.res = "ok"]
                    [] Seeding /\ ~marker       -> [fresh EXCEPT !.step = "create"]
                    [] ~Seeding /\ Content(dst) = {} -> [fresh EXCEPT !.step = "create"]
                    [] OTHER                    -> [fresh EXCEPT !.step = "stat"]
     IN who' = [q \in Fetchers |->
                  IF q = p THEN mine ELSE [who[q] EXCEPT !.hurt = @ \/ q \in Active]]
  /\ room' = [room EXCEPT ![p] = {}]
  /\ UNCHANGED <<what, dst, tmp, data, cache, marker, trouble>>

\* A cached file is kept if it passes, else removed and fetched anew; the image is
\* loaded unseen.
CheckCached(p) ==
  /\ who[p].step = "stat"
  /\ \/ Accepted(dst) /\ what # "image" /\ Step(p, "extract") /\ UNCHANGED dst
     \/ Accepted(dst) /\ what = "image" /\ Finish(p, "ok") /\ UNCHANGED dst
     \/ ~Accepted(dst) /\ dst' = NoFile /\ Step(p, "create")
  /\ UNCHANGED <<what, tmp, data, room, cache, marker, overlap, fetches, trouble>>

\* os.Create: an existing file of that name is truncated and shared.
CreateTmp(p) ==
  /\ who[p].step = "create"
  /\ LET n    == Name(p)
         used == {dst} \cup {tmp[m] : m \in DOMAIN tmp} \cup {who[q].ino : q \in Active}
         i    == IF tmp[n] # NoFile THEN tmp[n]
                 ELSE CHOOSE j \in Inodes \ used : \A k \in Inodes \ used : j <= k
     IN /\ tmp' = [tmp EXCEPT ![n] = i]
        /\ data' = [data EXCEPT ![i] = {}]
        /\ who' = [who EXCEPT ![p].step = "half", ![p].ino = i]
  /\ UNCHANGED <<what, dst, room, cache, marker, overlap, fetches, trouble>>

CopyBody(p) ==
  /\ \/ /\ who[p].step = "half" /\ Step(p, "rest")
        /\ data' = [data EXCEPT ![who[p].ino] = @ \cup {1}]
     \/ /\ who[p].step = "rest" /\ Step(p, IF Seeding THEN "open" ELSE "rename")
        /\ data' = [data EXCEPT ![who[p].ino] = @ \cup {2}]
  /\ UNCHANGED <<what, dst, tmp, room, cache, marker, overlap, fetches, trouble>>

\* os.Rename of the name, whatever inode it names by now; it may be gone.
Rename(p) ==
  LET n == Name(p) IN
  /\ who[p].step = "rename"
  /\ \/ /\ tmp[n] # NoFile
        /\ dst' = tmp[n] /\ tmp' = [tmp EXCEPT ![n] = NoFile]
        /\ CASE what = "image"     -> Finish(p, "ok")
             [] what = "unchecked" -> Step(p, "extract")
             [] OTHER              -> Step(p, "verify")
     \/ /\ tmp[n] = NoFile /\ Finish(p, "failed") /\ UNCHANGED <<dst, tmp>>
  /\ UNCHANGED <<what, data, room, cache, marker, overlap, fetches, trouble>>

Verify(p) ==
  /\ who[p].step = "verify"
  /\ \/ Accepted(dst) /\ Step(p, "extract") /\ UNCHANGED dst
     \/ ~Accepted(dst) /\ dst' = NoFile /\ Finish(p, "failed")
  /\ UNCHANGED <<what, tmp, data, room, cache, marker, overlap, fetches, trouble>>

\* extractTarGz into the runner's own tree: a hole or a short file is an error.
Extract(p) ==
  /\ who[p].step = "extract"
  /\ room' = [room EXCEPT ![p] = Content(dst)]
  /\ Finish(p, IF Content(dst) = Whole THEN "ok" ELSE "failed")
  /\ UNCHANGED <<what, dst, tmp, data, cache, marker, overlap, fetches, trouble>>

-----------------------------------------------------------------------------
\* The archive is opened by its name; Python's directory is made anew first, and
\* a zip is read from the directory at its end.
OpenArchive(p) ==
  LET i == tmp[Public] IN
  /\ who[p].step = "open"
  /\ \/ /\ i # NoFile /\ (what = "zip" => 2 \in Content(i))
        /\ who' = [who EXCEPT ![p].step = "untar", ![p].ino = i]
        /\ room' = IF what = "python" THEN [room EXCEPT ![Public] = {}] ELSE room
        /\ UNCHANGED tmp
     \/ /\ i = NoFile \/ (what = "zip" /\ 2 \notin Content(i))
        /\ GiveUp(p)
  /\ UNCHANGED <<what, dst, data, cache, marker, overlap, fetches, trouble>>

\* The marker is written although tar has failed.
UnpackMarks(p) ==
  LET h == IF who[p].step = "untar" THEN 1 ELSE 2 IN
  /\ who[p].step \in {"untar", "untar2"}
  /\ room' = [room EXCEPT ![Public] = @ \cup ({h} \cap Content(who[p].ino))]
  /\ Step(p, IF h = 1 THEN "untar2" ELSE IF what = "python" THEN "setup" ELSE "mark")
  /\ UNCHANGED <<what, dst, tmp, data, cache, marker, overlap, fetches, trouble>>

\* Each half that is read is checked by the archive's own sums.  Another process
\* may have removed Python's directory.
Unpack(p) ==
  LET h == IF who[p].step = "untar" THEN 1 ELSE 2 IN
  /\ who[p].step \in {"untar", "untar2"}
  /\ \/ /\ h \in Content(who[p].ino)
        /\ room' = [room EXCEPT ![Public] = @ \cup {h}]
        /\ Step(p, IF h = 1 THEN "untar2" ELSE IF what = "python" THEN "setup" ELSE "mark")
        /\ UNCHANGED tmp
     \/ /\ h \notin Content(who[p].ino) \/ (what = "python" /\ who[p].hurt)
        /\ GiveUp(p)
  /\ UNCHANGED <<what, dst, data, cache, marker, overlap, fetches, trouble>>

\* The asset's setup.sh is in the first half of the archive; it copies its
\* directory and writes the marker itself.
SetupPython(p) ==
  /\ who[p].step = "setup"
  /\ \/ /\ 1 \in room[Public]
        /\ cache' = room[Public] /\ marker' = TRUE
        /\ Step(p, "chown") /\ UNCHANGED <<tmp, room>>
     \/ /\ 1 \notin room[Public] /\ GiveUp(p) /\ UNCHANGED <<cache, marker>>
  /\ UNCHANGED <<what, dst, data, overlap, fetches, trouble>>

MarkSeed(p) ==
  /\ who[p].step = "mark" /\ marker' = TRUE /\ Step(p, "chown")
  /\ UNCHANGED <<what, dst, tmp, data, room, cache, overlap, fetches, trouble>>

ChownSeed(p) ==
  /\ who[p].step = "chown" /\ Finish(p, "ok")
  /\ tmp' = [tmp EXCEPT ![Public] = NoFile]
  /\ room' = IF what = "python" THEN [room EXCEPT ![Public] = {}] ELSE room
  /\ UNCHANGED <<what, dst, data, cache, marker, overlap, fetches, trouble>>

-----------------------------------------------------------------------------
\* The connection breaks off, docker save fails, or the chown does.  Only docker
\* save's file and an archive fetched whole are removed.
StepFails(p) ==
  /\ who[p].step \in {"create", "half", "rest", "chown"} /\ trouble < MaxTrouble
  /\ trouble' = trouble + 1
  /\ who' = [who EXCEPT ![p].step = "idle", ![p].res = "failed", ![p].hurt = TRUE]
  /\ tmp' = IF what = "image" \/ who[p].step = "chown"
            THEN [tmp EXCEPT ![Name(p)] = NoFile] ELSE tmp
  /\ room' = IF what = "python" /\ who[p].step = "chown"
             THEN [room EXCEPT ![Public] = {}] ELSE room
  /\ UNCHANGED <<what, dst, data, cache, marker, overlap, fetches>>

KillFetch(p) ==
  /\ who[p].step # "idle" /\ trouble < MaxTrouble
  /\ trouble' = trouble + 1
  /\ who' = [who EXCEPT ![p].step = "idle", ![p].res = "killed", ![p].hurt = TRUE]
  /\ UNCHANGED <<what, dst, tmp, data, room, cache, marker, overlap, fetches>>

DlNext == \E p \in Fetchers :
  \/ BeginFetch(p) \/ CheckCached(p) \/ CreateTmp(p) \/ CopyBody(p)
  \/ Rename(p) \/ Verify(p) \/ Extract(p)
  \/ OpenArchive(p) \/ Unpack(p) \/ SetupPython(p) \/ MarkSeed(p) \/ ChownSeed(p)
  \/ StepFails(p) \/ KillFetch(p)

DlSpec == DlInit /\ [][DlNext]_dlVars

-----------------------------------------------------------------------------
\* Whatever earlier runs left behind, torn, half-unpacked or still under its
\* temporary name, a fetch that meets no trouble of its own and no other process
\* succeeds (ensureTarball removes and refetches, download truncates).  Only an
\* agent without a published checksum stays broken, once two processes have
\* fetched it together.
FailsForAReason ==
  \A p \in Fetchers : who[p].res = "failed" =>
    who[p].hurt \/ (what = "unchecked" /\ overlap)

\* A marked tool-cache entry is whole, by however many processes at once and
\* wherever they died; for Python, unless two of them have used its one
\* directory together (seedTarball, seedPython).
MarkerMeansWhole ==
  /\ marker /\ what \in {"seed", "zip"} => room[Public] = Whole
  /\ marker /\ what = "python" /\ ~overlap => cache = Whole

\* No lane ever loads a half-written image (seedDinDImageCache).
ImageIsWhole == what = "image" /\ dst # NoFile => Content(dst) = Whole

\* What is cached can be used, and what cannot is fetched again (ensureTarball,
\* seedTarball, seedPython, seedDinDImageCache).
CachesAreWhole == FailsForAReason /\ MarkerMeansWhole /\ ImageIsWhole
=============================================================================
