-------------------------- MODULE ConfigDirProofs ---------------------------
(***************************************************************************)
(* The config directory, for any orgs, processes, documents, passphrases,  *)
(* commands and kills.  secrets.age opens with the passphrase in           *)
(* secrets.pass and every key stays where a unit finds it, as long as no   *)
(* process writes over a file it has not seen (OrgKeys); and config.yaml   *)
(* keeps what its commands asked for (ConfigFile).                         *)
(***************************************************************************)
EXTENDS ConfigFile, OrgKeys, TLAPS

\* A process that moves a key moves an org's key.
MovesAnOrg(p) == p.at \notin {"off", "form", "idle"} => p.org \in KeyOrgs

\* With secrets.pass holding file, process p has a passphrase to work with; once it
\* is past persisting one there is one in the file.
HasPhrase(p, file) ==
  /\ p.at = "resolve" => p.env # NoPhrase \/ p.typed # NoPhrase \/ file # NoPhrase
  /\ p.at \in {"persist", "rename"} => p.pass # NoPhrase
  /\ p.at \in {"open", "rename"} => file # NoPhrase

\* Who is about to write secrets.pass has seen that it holds nothing, or will write
\* over what it has not seen.
PersistsFirst(p, file) == p.at = "persist" /\ "pass" \in p.fresh => file = NoPhrase

Fits(p, file) == MovesAnOrg(p) /\ HasPhrase(p, file) /\ PersistsFirst(p, file)

Unseen == overwrote \cap {"pass", "secrets"} # {}

\* The store about to be renamed into place is encrypted with what secrets.pass holds.
EncryptsWithFile(p, file) == p.at = "rename" => p.pass = file

KeysInv ==
  /\ KeysTypeOK
  /\ \A s \in Sessions : Fits(proc[s], passFile)
  /\ Unseen \/ \A s \in Sessions : EncryptsWithFile(proc[s], passFile)
  /\ StoreMatchesFile

-----------------------------------------------------------------------------
\* What Becomes does: one process is another record, the others only lose sight of
\* the files written, and what was overwritten unseen stays recorded.
LEMMA BecomesOther ==
  ASSUME KeysTypeOK, NEW s \in Sessions, NEW p \in Processes, NEW W \in SUBSET KeyFile,
         Becomes(s, p, W)
  PROVE  /\ proc' \in [Sessions -> Processes] /\ overwrote' \subseteq KeyFile
         /\ proc'[s] = p
         /\ \A q \in Sessions \ {s} :
              /\ proc'[q].at = proc[q].at /\ proc'[q].org = proc[q].org
              /\ proc'[q].env = proc[q].env /\ proc'[q].typed = proc[q].typed
              /\ proc'[q].pass = proc[q].pass /\ proc'[q].fresh = proc[q].fresh \ W
              /\ proc'[q].cfg = proc[q].cfg /\ proc'[q].how = proc[q].how
              /\ proc'[q].loaded = proc[q].loaded
         /\ Unseen => Unseen'
<1>1. \A q \in Sessions : proc[q] \in Processes
  BY DEF KeysTypeOK
<1>2. ASSUME NEW q \in Sessions
      PROVE  [proc[q] EXCEPT !.fresh = @ \ W] \in Processes
  BY <1>1 DEF Processes
<1>3. proc' = [q \in Sessions |-> IF q = s THEN p ELSE [proc[q] EXCEPT !.fresh = @ \ W]]
  BY DEF Becomes
<1>4. proc' \in [Sessions -> Processes]
  BY <1>2, <1>3
<1>5. overwrote' = overwrote \cup (W \ proc[s].fresh)
  BY DEF Becomes
<1>6. ASSUME NEW q \in Sessions \ {s}
      PROVE  /\ proc'[q].at = proc[q].at /\ proc'[q].org = proc[q].org
             /\ proc'[q].env = proc[q].env /\ proc'[q].typed = proc[q].typed
             /\ proc'[q].pass = proc[q].pass /\ proc'[q].fresh = proc[q].fresh \ W
             /\ proc'[q].cfg = proc[q].cfg /\ proc'[q].how = proc[q].how
             /\ proc'[q].loaded = proc[q].loaded
  <2>1. proc'[q] = [proc[q] EXCEPT !.fresh = @ \ W]
    BY <1>3
  <2>2. proc[q] \in Processes
    BY <1>1
  <2> QED BY <2>1, <2>2 DEF Processes
<1>7. Unseen => Unseen'
  BY <1>5 DEF Unseen
<1> QED BY <1>3, <1>4, <1>5, <1>6, <1>7 DEF KeysTypeOK

Stores == [phrase : Phrases, keys : (SUBSET KeyOrgs) \ {{}}] \cup {NoStore}

\* A step that leaves the passphrase alone, and the store unless it is encrypted with
\* it, keeps the invariant when the process that takes it fits them afterwards.
LEMMA OthersStay ==
  ASSUME KeysInv, NEW s \in Sessions, NEW p \in Processes, NEW W \in SUBSET KeyFile,
         Becomes(s, p, W), UNCHANGED passFile,
         \/ UNCHANGED secretsAge
         \/ secretsAge' \in Stores /\ (Unseen \/ secretsAge'.phrase = passFile),
         keyAt' \in [KeyOrgs -> Places], pems' \subseteq PemFiles,
         unstored' \subseteq KeyOrgs, astray' \subseteq KeyOrgs, moves' \in 0..MaxMoves,
         Fits(p, passFile), Unseen \/ EncryptsWithFile(p, passFile)
  PROVE  KeysInv'
<1>1. /\ proc' \in [Sessions -> Processes] /\ overwrote' \subseteq KeyFile
      /\ proc'[s] = p
      /\ \A q \in Sessions \ {s} :
           /\ proc'[q].at = proc[q].at /\ proc'[q].org = proc[q].org
           /\ proc'[q].env = proc[q].env /\ proc'[q].typed = proc[q].typed
           /\ proc'[q].pass = proc[q].pass /\ proc'[q].fresh = proc[q].fresh \ W
      /\ Unseen => Unseen'
  BY BecomesOther DEF KeysInv
<1>2. secretsAge' \in Stores /\ secretsAge \in Stores
  BY DEF KeysInv, KeysTypeOK, Stores
<1>3. KeysTypeOK'
  <2>1. passFile' \in Phrases \cup {NoPhrase} /\ pems' \subseteq PemFiles'
    BY DEF KeysInv, KeysTypeOK, PemFiles
  <2> QED BY <1>1, <1>2, <2>1 DEF KeysTypeOK, Stores
<1>4. ASSUME NEW q \in Sessions PROVE Fits(proc'[q], passFile')
  <2>1. CASE q = s
    BY <2>1, <1>1
  <2>2. CASE q # s
    <3>1. Fits(proc[q], passFile)
      BY DEF KeysInv
    <3> QED BY <2>2, <3>1, <1>1 DEF Fits, MovesAnOrg, HasPhrase, PersistsFirst
  <2> QED BY <2>1, <2>2
<1>5. Unseen' \/ \A q \in Sessions : EncryptsWithFile(proc'[q], passFile')
  <2>1. CASE Unseen
    BY <2>1, <1>1
  <2>2. CASE ~Unseen
    BY <2>2, <1>1 DEF KeysInv, EncryptsWithFile
  <2> QED BY <2>1, <2>2
<1>6. StoreMatchesFile'
  BY <1>1 DEF KeysInv, StoreMatchesFile, Unseen
<1> QED BY <1>3, <1>4, <1>5, <1>6 DEF KeysInv

\* A process that is over, or the terminal UI back on its screen, fits anything.
LEMMA OverFits ==
  ASSUME KeysTypeOK, NEW s \in Sessions, NEW p \in Processes, NEW R \in SUBSET KeyFile,
         NEW W \in SUBSET KeyFile, Over(s, p, R, W)
  PROVE  \E r \in Processes : /\ Becomes(s, r, W) /\ Fits(r, passFile)
                              /\ EncryptsWithFile(r, passFile)
<1> DEFINE Idle == [Off EXCEPT !.at = "idle", !.cfg = p.cfg, !.env = p.env,
                               !.fresh = p.fresh \cup R]
           r == IF s = TuiSession THEN Idle ELSE Off
<1>1. Off \in Processes /\ Off.at = "off"
  BY DEF Off, Processes, Places, Hows
<1>2. Idle \in Processes /\ Idle.at = "idle"
  BY DEF Off, Processes, Hows
<1>3. r \in Processes /\ r.at \in {"off", "idle"}
  BY <1>1, <1>2
<1>4. Becomes(s, r, W)
  BY DEF Over
<1> HIDE DEF r
<1> QED BY <1>3, <1>4 DEF Fits, MovesAnOrg, HasPhrase, PersistsFirst, EncryptsWithFile

\* A process that goes on has read and written some files and is otherwise as asked.
Steps == {"off", "form", "idle", "resolve", "persist", "open", "rename", "grant", "write",
          "reload", "check", "remove"}
Encrypting == {"resolve", "persist", "open", "rename"}
Resting    == {"off", "form", "idle"}

GoesOn(r, step, p, seen) ==
  /\ r.at = step /\ r.fresh = p.fresh \cup seen
  /\ r.org = p.org /\ r.env = p.env /\ r.typed = p.typed /\ r.pass = p.pass
  /\ r.cfg = p.cfg /\ r.how = p.how /\ r.loaded = p.loaded

LEMMA GotoIs ==
  ASSUME NEW s \in Sessions, NEW step \in Steps, NEW p \in Processes, NEW R \in SUBSET KeyFile,
         NEW W \in SUBSET KeyFile, Goto(s, step, p, R, W)
  PROVE  \E r \in Processes : Becomes(s, r, W) /\ GoesOn(r, step, p, R \cup W)
<1> DEFINE r == [p EXCEPT !.at = step, !.fresh = @ \cup R \cup W]
<1>1. r \in Processes /\ GoesOn(r, step, p, R \cup W)
  BY DEF Processes, Steps, KeyFile, GoesOn
<1>2. Becomes(s, r, W)
  BY DEF Goto
<1> HIDE DEF r
<1> QED BY <1>1, <1>2

\* The same for a process that ends up at a step where no passphrase is in use.
LEMMA GotoKeeps ==
  ASSUME KeysInv, NEW s \in Sessions, NEW step \in Steps, NEW p \in Processes,
         NEW R \in SUBSET KeyFile, NEW W \in SUBSET KeyFile, Goto(s, step, p, R, W),
         UNCHANGED <<passFile, secretsAge>>,
         keyAt' \in [KeyOrgs -> Places], pems' \subseteq PemFiles,
         unstored' \subseteq KeyOrgs, astray' \subseteq KeyOrgs, moves' \in 0..MaxMoves,
         step \notin Encrypting, step \in Resting \/ p.org \in KeyOrgs
  PROVE  KeysInv'
<1>1. PICK r \in Processes : Becomes(s, r, W) /\ GoesOn(r, step, p, R \cup W)
  BY GotoIs
<1>2. Fits(r, passFile) /\ EncryptsWithFile(r, passFile)
  BY <1>1 DEF GoesOn, Fits, MovesAnOrg, HasPhrase, PersistsFirst, EncryptsWithFile,
              Encrypting, Resting
<1> QED BY <1>1, <1>2, OthersStay

\* And for one whose command is over.
LEMMA OverKeeps ==
  ASSUME KeysInv, NEW s \in Sessions, NEW p \in Processes,
         NEW R \in SUBSET KeyFile, NEW W \in SUBSET KeyFile, Over(s, p, R, W),
         UNCHANGED <<passFile, secretsAge>>,
         keyAt' \in [KeyOrgs -> Places], pems' \subseteq PemFiles,
         unstored' \subseteq KeyOrgs, astray' \subseteq KeyOrgs, moves' \in 0..MaxMoves
  PROVE  KeysInv'
<1>1. PICK r \in Processes : Becomes(s, r, W) /\ Fits(r, passFile) /\ EncryptsWithFile(r, passFile)
  BY OverFits DEF KeysInv
<1> QED BY <1>1, OthersStay

-----------------------------------------------------------------------------
LEMMA KeysInvInit == KeysInit => KeysInv
<1> SUFFICES ASSUME KeysInit PROVE KeysInv
  OBVIOUS
<1>1. Off \in Processes /\ Off.at = "off"
  BY DEF Off, Processes, Places, Hows
<1>2. \A s \in Sessions : proc[s] = Off
  BY DEF KeysInit
<1>3. /\ keyAt \in [KeyOrgs -> Places] /\ pems \subseteq PemFiles
      /\ passFile \in Phrases \cup {NoPhrase} /\ proc \in [Sessions -> Processes]
      /\ overwrote \subseteq KeyFile /\ moves \in 0..MaxMoves
      /\ unstored \subseteq KeyOrgs /\ astray \subseteq KeyOrgs
  BY <1>1, KeyConstants DEF KeysInit
<1>4. /\ secretsAge \in [phrase : Phrases, keys : (SUBSET KeyOrgs) \ {{}}] \cup {NoStore}
      /\ StoreMatchesFile
  <2> DEFINE keys == {o \in KeyOrgs : keyAt[o] = "store"}
  <2>1. CASE keys = {}
    BY <2>1 DEF KeysInit, StoreMatchesFile, NoStore
  <2>2. CASE keys # {}
    <3>1. secretsAge = [phrase |-> passFile, keys |-> keys] /\ passFile \in Phrases
      BY <2>2, <1>3 DEF KeysInit
    <3> QED BY <2>2, <3>1 DEF StoreMatchesFile
  <2> QED BY <2>1, <2>2
<1>5. \A s \in Sessions : Fits(proc[s], passFile) /\ EncryptsWithFile(proc[s], passFile)
  BY <1>1, <1>2 DEF Fits, MovesAnOrg, HasPhrase, PersistsFirst, EncryptsWithFile
<1> QED BY <1>3, <1>4, <1>5 DEF KeysInv, KeysTypeOK

\* How a command starts: from a process that is off, at a step of its own.
LEMMA BeginKeeps ==
  ASSUME KeysInv, NEW s \in Sessions, NEW step \in Steps, NEW p \in Processes,
         Begin(s, step, p), moves' \in 0..MaxMoves,
         \/ step \in Resting
         \/ /\ step \in {"resolve"} /\ p.org \in KeyOrgs
            /\ p.env # NoPhrase \/ p.typed # NoPhrase \/ passFile # NoPhrase
  PROVE  KeysInv'
<1> DEFINE q == [p EXCEPT !.cfg = keyAt]
<1>1. keyAt \in [KeyOrgs -> Places]
  BY DEF KeysInv, KeysTypeOK
<1>2. /\ q \in Processes /\ q.org = p.org /\ q.env = p.env /\ q.typed = p.typed
  BY <1>1 DEF Processes
<1>3. Goto(s, step, q, {"config"}, {}) /\ UNCHANGED <<diskVars, unstored, astray>>
  BY DEF Begin
<1> HIDE DEF q
<1>4. PICK r \in Processes : Becomes(s, r, {}) /\ GoesOn(r, step, q, {"config"} \cup {})
  <2>1. {"config"} \in SUBSET KeyFile /\ {} \in SUBSET KeyFile
    BY DEF KeyFile
  <2> QED BY <1>2, <1>3, <2>1, GotoIs
<1>5. Fits(r, passFile) /\ EncryptsWithFile(r, passFile)
  BY <1>2, <1>4 DEF GoesOn, Resting, Fits, MovesAnOrg, HasPhrase, PersistsFirst, EncryptsWithFile
<1>6. /\ keyAt' \in [KeyOrgs -> Places] /\ pems' \subseteq PemFiles
      /\ unstored' \subseteq KeyOrgs /\ astray' \subseteq KeyOrgs
      /\ UNCHANGED <<passFile, secretsAge>>
  BY <1>3 DEF KeysInv, KeysTypeOK, diskVars
<1> QED BY <1>4, <1>5, <1>6, OthersStay

-----------------------------------------------------------------------------
\* One lemma per kind of step.  First the steps that start a command.
LEMMA Starts ==
  ASSUME KeysInv, NEW s \in Sessions, NEW e \in Phrases \cup {NoPhrase},
         \/ OpenForm(s, e) \/ StartTui(s, e)
         \/ \E o \in KeyOrgs, t \in Phrases \cup {NoPhrase}, r \in BOOLEAN :
              ImportKey(s, e, o, t, r)
  PROVE  KeysInv'
<1>1. Off \in Processes
  BY DEF Off, Processes, Places, Hows
<1>2. ASSUME Move PROVE moves' \in 0..MaxMoves
  BY <1>2, KeyConstants DEF KeysInv, KeysTypeOK, Move
<1>3. CASE OpenForm(s, e)
  <2>1. [Off EXCEPT !.env = e] \in Processes
    BY <1>1 DEF Processes
  <2>2. Begin(s, "form", [Off EXCEPT !.env = e]) /\ moves' \in 0..MaxMoves
    BY <1>2, <1>3 DEF OpenForm, Begin
  <2> QED BY <2>1, <2>2, BeginKeeps DEF Steps, Resting
<1>4. CASE StartTui(s, e)
  <2>1. [Off EXCEPT !.env = e] \in Processes
    BY <1>1 DEF Processes
  <2>2. Begin(s, "idle", [Off EXCEPT !.env = e]) /\ moves' \in 0..MaxMoves
    BY <1>4 DEF StartTui, KeysInv, KeysTypeOK
  <2> QED BY <2>1, <2>2, BeginKeeps DEF Steps, Resting
<1>5. ASSUME NEW o \in KeyOrgs, NEW t \in Phrases \cup {NoPhrase}, NEW r \in BOOLEAN,
             ImportKey(s, e, o, t, r)
      PROVE  KeysInv'
  <2> DEFINE p == [Off EXCEPT !.env = e, !.how = "import", !.org = o, !.typed = t, !.remove = r]
  <2>1. p \in Processes /\ p.org = o /\ p.env = e /\ p.typed = t
    BY <1>1 DEF Processes, Hows
  <2>2. Begin(s, "resolve", p) /\ moves' \in 0..MaxMoves
    BY <1>2, <1>5 DEF ImportKey, Begin
  <2>3. p.env # NoPhrase \/ p.typed # NoPhrase \/ passFile # NoPhrase
    BY <1>5, <2>1 DEF ImportKey, ResolvePassphrase
  <2> HIDE DEF p
  <2> QED BY <2>1, <2>2, <2>3, BeginKeeps DEF Steps
<1> QED BY <1>3, <1>4, <1>5

LEMMA Submits ==
  ASSUME KeysInv, NEW s \in Sessions, NEW o \in KeyOrgs, NEW h \in Hows \ {"import"},
         NEW t \in Phrases \cup {NoPhrase}, SubmitForm(s, o, h, t)
  PROVE  KeysInv'
<1> DEFINE p == [proc[s] EXCEPT !.how = h, !.org = o, !.typed = t,
                                !.cfg[o] = ToOrgConfig(s, o, h)]
           step == IF h \in {"paste", "encrypt"} THEN "resolve" ELSE "write"
<1>1. proc[s] \in Processes
  BY DEF KeysInv, KeysTypeOK
<1>2. ToOrgConfig(s, o, h) \in Places
  BY <1>1 DEF ToOrgConfig, Processes, Places
<1>3. p \in Processes /\ p.org = o /\ p.env = proc[s].env /\ p.typed = t
  BY <1>1, <1>2 DEF Processes
<1>4. Goto(s, step, p, {}, {}) /\ UNCHANGED diskVars
  BY DEF SubmitForm
<1>5. /\ keyAt' \in [KeyOrgs -> Places] /\ pems' \subseteq PemFiles
      /\ unstored' \subseteq KeyOrgs /\ astray' \subseteq KeyOrgs /\ moves' \in 0..MaxMoves
      /\ UNCHANGED <<passFile, secretsAge>>
  BY <1>4, KeyConstants DEF KeysInv, KeysTypeOK, diskVars, SubmitForm, Move
<1>6. {} \in SUBSET KeyFile
  OBVIOUS
<1>7. CASE h \in {"paste", "encrypt"}
  <2>1. t # NoPhrase \/ proc[s].env # NoPhrase \/ passFile # NoPhrase
    BY <1>7 DEF SubmitForm, ResolvePassphrase
  <2>2. step = "resolve"
    BY <1>7
  <2> HIDE DEF p, step
  <2>3. PICK r \in Processes : Becomes(s, r, {}) /\ GoesOn(r, step, p, {} \cup {})
    <3>1. step \in Steps
      BY <2>2 DEF Steps
    <3> QED BY <1>3, <1>4, <1>6, <3>1, GotoIs
  <2>4. Fits(r, passFile) /\ EncryptsWithFile(r, passFile)
    BY <1>3, <2>1, <2>2, <2>3
       DEF GoesOn, Fits, MovesAnOrg, HasPhrase, PersistsFirst, EncryptsWithFile
  <2> QED BY <1>5, <2>3, <2>4, OthersStay
<1>8. CASE h \notin {"paste", "encrypt"}
  <2>1. step \in Steps /\ step \notin Encrypting
    BY <1>8 DEF Steps, Encrypting
  <2> HIDE DEF p, step
  <2> QED BY <1>3, <1>4, <1>5, <1>6, <2>1, GotoKeeps
<1> QED BY <1>7, <1>8

\* What every process is, spelt out once.
LEMMA OneProcess ==
  ASSUME KeysInv, NEW s \in Sessions
  PROVE  /\ proc[s] \in Processes /\ Fits(proc[s], passFile)
         /\ Unseen \/ EncryptsWithFile(proc[s], passFile)
         /\ keyAt \in [KeyOrgs -> Places] /\ pems \subseteq PemFiles
         /\ unstored \subseteq KeyOrgs /\ astray \subseteq KeyOrgs /\ moves \in 0..MaxMoves
         /\ secretsAge \in Stores
BY DEF KeysInv, KeysTypeOK, Stores

LEMMA Resolving ==
  ASSUME KeysInv, NEW s \in Sessions, Resolve(s)
  PROVE  KeysInv'
<1> DEFINE known == ResolvePassphrase(proc[s].env)
           phrase == IF known # NoPhrase THEN known ELSE proc[s].typed
           step == IF passFile = NoPhrase THEN "persist" ELSE "open"
           p == [proc[s] EXCEPT !.pass = phrase]
<1>1. proc[s] \in Processes /\ Fits(proc[s], passFile)
  BY OneProcess
<1>2. At(s, "resolve") /\ Goto(s, step, p, {"pass"}, {})
      /\ UNCHANGED <<diskVars, unstored, astray, moves>>
  BY DEF Resolve, ResolveAs
<1>3. phrase \in Phrases \cup {NoPhrase} /\ phrase # NoPhrase
  <2>1. passFile \in Phrases \cup {NoPhrase}
    BY DEF KeysInv, KeysTypeOK
  <2>2. proc[s].env # NoPhrase \/ proc[s].typed # NoPhrase \/ passFile # NoPhrase
    BY <1>1, <1>2 DEF Fits, HasPhrase, At
  <2> QED BY <1>1, <2>1, <2>2 DEF ResolvePassphrase, Processes
<1>4. p \in Processes /\ p.org = proc[s].org /\ p.pass = phrase
  BY <1>1, <1>3 DEF Processes
<1>5. p.org \in KeyOrgs
  BY <1>1, <1>2, <1>4 DEF Fits, MovesAnOrg, At
<1>6. step \in Steps /\ step \in {"persist", "open"}
  BY DEF Steps
<1> HIDE DEF p, phrase
<1>7. PICK r \in Processes : Becomes(s, r, {}) /\ GoesOn(r, step, p, {"pass"} \cup {})
  <2>1. {"pass"} \in SUBSET KeyFile /\ {} \in SUBSET KeyFile
    BY DEF KeyFile
  <2> HIDE DEF step
  <2> QED BY <1>2, <1>4, <1>6, <2>1, GotoIs
<1>8. Fits(r, passFile) /\ EncryptsWithFile(r, passFile)
  BY <1>3, <1>4, <1>5, <1>7
     DEF GoesOn, Fits, MovesAnOrg, HasPhrase, PersistsFirst, EncryptsWithFile
<1>9. /\ keyAt' \in [KeyOrgs -> Places] /\ pems' \subseteq PemFiles
      /\ unstored' \subseteq KeyOrgs /\ astray' \subseteq KeyOrgs /\ moves' \in 0..MaxMoves
      /\ UNCHANGED <<passFile, secretsAge>>
  BY <1>2, OneProcess DEF diskVars
<1>10. {} \in SUBSET KeyFile
  OBVIOUS
<1> QED BY <1>7, <1>8, <1>9, <1>10, OthersStay

\* The only step that writes secrets.pass.  Who has seen that it holds nothing finds
\* no store either and nobody about to encrypt; anybody else overwrites the unseen.
LEMMA Persisting ==
  ASSUME KeysInv, NEW s \in Sessions, PersistPassphrase(s)
  PROVE  KeysInv'
<1>1. proc[s] \in Processes /\ Fits(proc[s], passFile)
  BY OneProcess
<1>2. /\ At(s, "persist") /\ passFile' = proc[s].pass
      /\ Goto(s, "open", proc[s], {}, {"pass"})
      /\ UNCHANGED <<keyAt, pems, secretsAge, unstored, astray, moves>>
  BY DEF PersistPassphrase
<1>3. passFile' \in Phrases \cup {NoPhrase} /\ passFile' # NoPhrase
  BY <1>1, <1>2 DEF Processes, Fits, HasPhrase, At
<1>4. {"pass"} \in SUBSET KeyFile /\ {} \in SUBSET KeyFile
  BY DEF KeyFile
<1>5. PICK p \in Processes : Becomes(s, p, {"pass"}) /\ GoesOn(p, "open", proc[s], {} \cup {"pass"})
  <2>1. "open" \in Steps
    BY DEF Steps
  <2> QED BY <1>1, <1>2, <1>4, <2>1, GotoIs
<1>6. /\ proc' \in [Sessions -> Processes] /\ overwrote' \subseteq KeyFile
      /\ proc'[s] = p
      /\ \A q \in Sessions \ {s} :
           /\ proc'[q].at = proc[q].at /\ proc'[q].org = proc[q].org
           /\ proc'[q].env = proc[q].env /\ proc'[q].typed = proc[q].typed
           /\ proc'[q].pass = proc[q].pass /\ proc'[q].fresh = proc[q].fresh \ {"pass"}
      /\ Unseen => Unseen'
  BY <1>4, <1>5, BecomesOther DEF KeysInv
<1>7. KeysTypeOK'
  <2>1. pems' \subseteq PemFiles'
    BY <1>2 DEF KeysInv, KeysTypeOK, PemFiles
  <2> QED BY <1>2, <1>3, <1>6, <2>1 DEF KeysInv, KeysTypeOK
<1>8. ASSUME NEW q \in Sessions PROVE Fits(proc'[q], passFile')
  <2>1. CASE q = s
    <3>1. p.at = "open" /\ p.org \in KeyOrgs
      BY <1>1, <1>2, <1>5 DEF GoesOn, Fits, MovesAnOrg, At
    <3> QED BY <1>3, <1>6, <2>1, <3>1 DEF Fits, MovesAnOrg, HasPhrase, PersistsFirst
  <2>2. CASE q # s
    <3>1. Fits(proc[q], passFile)
      BY OneProcess
    <3> QED BY <1>3, <1>6, <2>2, <3>1 DEF Fits, MovesAnOrg, HasPhrase, PersistsFirst
  <2> QED BY <2>1, <2>2
<1>9. CASE Unseen' \* nothing is promised any more
  BY <1>6, <1>7, <1>8, <1>9 DEF KeysInv, StoreMatchesFile, Unseen
<1>10. CASE ~Unseen'
  <2>1. ~Unseen
    BY <1>6, <1>10
  <2>2. "pass" \in proc[s].fresh
    <3>1. overwrote' = overwrote \cup ({"pass"} \ proc[s].fresh)
      BY <1>5 DEF Becomes
    <3> QED BY <1>10, <3>1 DEF Unseen
  <2>3. passFile = NoPhrase
    BY <1>1, <1>2, <2>2 DEF Fits, PersistsFirst, At
  <2>4. secretsAge.phrase = NoPhrase
    BY <2>1, <2>3 DEF KeysInv, StoreMatchesFile, Unseen
  <2>5. StoreMatchesFile'
    BY <1>2, <2>4 DEF StoreMatchesFile
  <2>6. ASSUME NEW q \in Sessions PROVE proc'[q].at # "rename"
    <3>1. CASE q = s
      BY <1>5, <1>6, <3>1 DEF GoesOn
    <3>2. CASE q # s
      <4>1. Fits(proc[q], passFile)
        BY OneProcess
      <4> QED BY <1>6, <2>3, <3>2, <4>1 DEF Fits, HasPhrase
    <3> QED BY <3>1, <3>2
  <2> QED BY <1>7, <1>8, <2>5, <2>6 DEF KeysInv, EncryptsWithFile
<1> QED BY <1>9, <1>10

LEMMA Opening ==
  ASSUME KeysInv, NEW s \in Sessions, OpenStore(s)
  PROVE  KeysInv'
<1> DEFINE p == [proc[s] EXCEPT !.pass = passFile, !.loaded = secretsAge.keys]
<1>1. proc[s] \in Processes /\ Fits(proc[s], passFile) /\ secretsAge \in Stores
  BY OneProcess
<1>2. /\ At(s, "open") /\ Goto(s, "rename", p, {"pass", "secrets"}, {})
      /\ UNCHANGED <<diskVars, unstored, astray, moves>>
  BY DEF OpenStore, OpenWith
<1>3. p \in Processes /\ p.org = proc[s].org /\ p.pass = passFile
  <2>1. secretsAge.keys \in SUBSET KeyOrgs
    BY <1>1 DEF Stores, NoStore
  <2>2. passFile \in Phrases \cup {NoPhrase}
    BY DEF KeysInv, KeysTypeOK
  <2> QED BY <1>1, <2>1, <2>2 DEF Processes
<1>4. p.org \in KeyOrgs /\ passFile # NoPhrase
  BY <1>1, <1>2, <1>3 DEF Fits, MovesAnOrg, HasPhrase, At
<1> HIDE DEF p
<1>5. {"pass", "secrets"} \in SUBSET KeyFile /\ {} \in SUBSET KeyFile
  BY DEF KeyFile
<1>6. PICK r \in Processes : Becomes(s, r, {}) /\ GoesOn(r, "rename", p, {"pass", "secrets"} \cup {})
  <2>1. "rename" \in Steps
    BY DEF Steps
  <2> QED BY <1>2, <1>3, <1>5, <2>1, GotoIs
<1>7. Fits(r, passFile) /\ EncryptsWithFile(r, passFile)
  BY <1>3, <1>4, <1>6
     DEF GoesOn, Fits, MovesAnOrg, HasPhrase, PersistsFirst, EncryptsWithFile
<1>8. /\ keyAt' \in [KeyOrgs -> Places] /\ pems' \subseteq PemFiles
      /\ unstored' \subseteq KeyOrgs /\ astray' \subseteq KeyOrgs /\ moves' \in 0..MaxMoves
      /\ UNCHANGED <<passFile, secretsAge>>
  BY <1>2, OneProcess DEF diskVars
<1> QED BY <1>5, <1>6, <1>7, <1>8, OthersStay

LEMMA Setting ==
  ASSUME KeysInv, NEW s \in Sessions, Set(s)
  PROVE  KeysInv'
<1> DEFINE step == IF proc[s].how = "import" THEN "grant" ELSE "write"
<1>1. /\ proc[s] \in Processes /\ Fits(proc[s], passFile)
      /\ Unseen \/ EncryptsWithFile(proc[s], passFile)
  BY OneProcess
<1>2. /\ At(s, "rename")
      /\ secretsAge' = [phrase |-> proc[s].pass, keys |-> proc[s].loaded \cup {proc[s].org}]
      /\ unstored' = unstored \ {proc[s].org}
      /\ Goto(s, step, proc[s], {}, {"secrets"})
      /\ UNCHANGED <<keyAt, pems, passFile, astray, moves>>
  BY DEF Set, SetKeys
<1>3. proc[s].org \in KeyOrgs /\ proc[s].pass \in Phrases /\ proc[s].loaded \subseteq KeyOrgs
  BY <1>1, <1>2 DEF Processes, Fits, MovesAnOrg, HasPhrase, At
<1>4. secretsAge' \in Stores /\ (Unseen \/ secretsAge'.phrase = passFile)
  BY <1>1, <1>2, <1>3 DEF Stores, EncryptsWithFile, At
<1>5. step \in Steps /\ step \notin Encrypting
  BY DEF Steps, Encrypting
<1> HIDE DEF step
<1>6. {"secrets"} \in SUBSET KeyFile /\ {} \in SUBSET KeyFile
  BY DEF KeyFile
<1>7. PICK r \in Processes : Becomes(s, r, {"secrets"}) /\ GoesOn(r, step, proc[s], {} \cup {"secrets"})
  BY <1>1, <1>2, <1>5, <1>6, GotoIs
<1>8. Fits(r, passFile) /\ EncryptsWithFile(r, passFile)
  BY <1>3, <1>5, <1>7
     DEF GoesOn, Encrypting, Fits, MovesAnOrg, HasPhrase, PersistsFirst, EncryptsWithFile
<1>9. /\ keyAt' \in [KeyOrgs -> Places] /\ pems' \subseteq PemFiles
      /\ unstored' \subseteq KeyOrgs /\ astray' \subseteq KeyOrgs /\ moves' \in 0..MaxMoves
  BY <1>2, OneProcess
<1> QED BY <1>2, <1>4, <1>6, <1>7, <1>8, <1>9, OthersStay

LEMMA Saving ==
  ASSUME KeysInv, NEW s \in Sessions, SaveSettings(s)
  PROVE  KeysInv'
<1>1. /\ proc[s] \in Processes /\ Fits(proc[s], passFile)
      /\ Unseen \/ EncryptsWithFile(proc[s], passFile)
  BY OneProcess
<1>2. /\ keyAt' = proc[s].cfg /\ Goto(s, proc[s].at, proc[s], {}, {"config"})
      /\ UNCHANGED <<pems, secretsAge, passFile, unstored, astray, moves>>
  BY DEF SaveSettings, WriteConfig
<1>3. proc[s].at \in Steps /\ proc[s].cfg \in [KeyOrgs -> Places]
  BY <1>1 DEF Processes, Steps
<1>4. {"config"} \in SUBSET KeyFile /\ {} \in SUBSET KeyFile
  BY DEF KeyFile
<1>5. PICK r \in Processes :
        Becomes(s, r, {"config"}) /\ GoesOn(r, proc[s].at, proc[s], {} \cup {"config"})
  BY <1>1, <1>2, <1>3, <1>4, GotoIs
<1>6. Fits(r, passFile) /\ (Unseen \/ EncryptsWithFile(r, passFile))
  BY <1>1, <1>5 DEF GoesOn, Fits, MovesAnOrg, HasPhrase, PersistsFirst, EncryptsWithFile
<1>7. /\ keyAt' \in [KeyOrgs -> Places] /\ pems' \subseteq PemFiles
      /\ unstored' \subseteq KeyOrgs /\ astray' \subseteq KeyOrgs /\ moves' \in 0..MaxMoves
  BY <1>2, <1>3, OneProcess
<1> QED BY <1>2, <1>4, <1>5, <1>6, <1>7, OthersStay

\* The steps after the store: the config is written, loaded again and checked.
LEMMA Writing ==
  ASSUME KeysInv, NEW s \in Sessions, ClearPath(s) \/ WriteOrg(s) \/ Reload(s)
  PROVE  KeysInv'
<1>1. /\ proc[s] \in Processes /\ Fits(proc[s], passFile)
      /\ keyAt \in [KeyOrgs -> Places] /\ pems \subseteq PemFiles
      /\ unstored \subseteq KeyOrgs /\ astray \subseteq KeyOrgs /\ moves \in 0..MaxMoves
  BY OneProcess
<1>2. {"config"} \in SUBSET KeyFile /\ {} \in SUBSET KeyFile
  BY DEF KeyFile
<1>3. CASE ClearPath(s)
  <2> DEFINE o == proc[s].org
             step == IF keyAt[o] = "pem" THEN "write" ELSE "check"
             cfg == [keyAt EXCEPT ![o] = IF @ = "pem" THEN "store" ELSE @]
             p == [proc[s] EXCEPT !.cfg = cfg]
  <2>1. Goto(s, step, p, {"config"}, {}) /\ UNCHANGED <<diskVars, unstored, astray, moves>>
    BY <1>3 DEF ClearPath
  <2>2. cfg \in [KeyOrgs -> Places]
    BY <1>1 DEF Places
  <2>3. o \in KeyOrgs
    BY <1>1, <1>3 DEF ClearPath, Fits, MovesAnOrg, At
  <2> HIDE DEF cfg
  <2>4. p \in Processes /\ p.org \in KeyOrgs
    BY <1>1, <2>2, <2>3 DEF Processes
  <2>5. step \in Steps /\ step \notin Encrypting
    BY DEF Steps, Encrypting
  <2> HIDE DEF p, step
  <2>6. UNCHANGED <<passFile, secretsAge, keyAt, pems, unstored, astray, moves>>
    BY <2>1 DEF diskVars
  <2> QED BY <1>1, <1>2, <2>1, <2>4, <2>5, <2>6, GotoKeeps
<1>4. CASE WriteOrg(s)
  <2> DEFINE step == IF s = TuiSession THEN "reload" ELSE "check"
  <2>1. /\ At(s, "write") /\ keyAt' = proc[s].cfg /\ Goto(s, step, proc[s], {}, {"config"})
        /\ UNCHANGED <<pems, secretsAge, passFile, unstored, astray, moves>>
    BY <1>4 DEF WriteOrg, WriteConfig
  <2>2. proc[s].org \in KeyOrgs /\ proc[s].cfg \in [KeyOrgs -> Places]
    BY <1>1, <2>1 DEF Fits, MovesAnOrg, At, Processes
  <2>3. step \in Steps /\ step \notin Encrypting
    BY DEF Steps, Encrypting
  <2> HIDE DEF step
  <2> QED BY <1>1, <1>2, <2>1, <2>2, <2>3, GotoKeeps
<1>5. CASE Reload(s)
  <2> DEFINE p == [proc[s] EXCEPT !.cfg = keyAt]
  <2>1. Over(s, p, {"config"}, {}) /\ UNCHANGED <<diskVars, unstored, astray, moves>>
    BY <1>5 DEF Reload
  <2>2. p \in Processes
    BY <1>1 DEF Processes
  <2> HIDE DEF p
  <2>3. UNCHANGED <<passFile, secretsAge, keyAt, pems, unstored, astray, moves>>
    BY <2>1 DEF diskVars
  <2> QED BY <1>1, <1>2, <2>1, <2>2, <2>3, OverKeeps
<1> QED BY <1>3, <1>4, <1>5

\* The steps that end a command, well or not.
LEMMA Ending ==
  ASSUME KeysInv, NEW s \in Sessions,
         EncryptFails(s) \/ ValidateOrgAuth(s) \/ RemoveSource(s) \/ KillSession(s)
  PROVE  KeysInv'
<1>1. /\ proc[s] \in Processes /\ Fits(proc[s], passFile)
      /\ keyAt \in [KeyOrgs -> Places] /\ pems \subseteq PemFiles
      /\ unstored \subseteq KeyOrgs /\ astray \subseteq KeyOrgs /\ moves \in 0..MaxMoves
  BY OneProcess
<1>2. {"config"} \in SUBSET KeyFile /\ {} \in SUBSET KeyFile
  BY DEF KeyFile
<1>3. CASE EncryptFails(s)
  <2>1. Over(s, proc[s], {}, {}) /\ UNCHANGED <<passFile, secretsAge, keyAt, pems, unstored, astray, moves>>
    BY <1>3 DEF EncryptFails, diskVars
  <2> QED BY <1>1, <1>2, <2>1, OverKeeps
<1>4. ASSUME NEW v \in BOOLEAN, AfterCheck(s, v) PROVE KeysInv'
  <2>1. /\ At(s, "check")
        /\ Goto(s, "remove", proc[s], {}, {}) \/ Over(s, proc[s], {}, {})
        /\ UNCHANGED <<passFile, secretsAge, keyAt, pems, unstored, astray, moves>>
    BY <1>4 DEF AfterCheck, diskVars
  <2>2. proc[s].org \in KeyOrgs
    BY <1>1, <2>1 DEF Fits, MovesAnOrg, At
  <2>3. "remove" \in Steps /\ "remove" \notin Encrypting
    BY DEF Steps, Encrypting
  <2>4. CASE Goto(s, "remove", proc[s], {}, {})
    BY <1>1, <1>2, <2>1, <2>2, <2>3, <2>4, GotoKeeps
  <2>5. CASE Over(s, proc[s], {}, {})
    BY <1>1, <1>2, <2>1, <2>5, OverKeeps
  <2> QED BY <2>1, <2>4, <2>5
<1>5. CASE ValidateOrgAuth(s)
  <2>1. \E v \in BOOLEAN : AfterCheck(s, v)
    BY <1>5 DEF ValidateOrgAuth, AfterCheck
  <2> QED BY <1>4, <2>1
<1>6. CASE RemoveSource(s)
  <2>1. /\ Over(s, proc[s], {}, {"config"})
        /\ UNCHANGED <<keyAt, secretsAge, passFile, unstored, moves>>
        /\ astray' \subseteq KeyOrgs
    BY <1>6 DEF RemoveSource, KeysInv, KeysTypeOK
  <2>2. pems' \subseteq PemFiles
    BY <1>1, <1>6 DEF RemoveSource
  <2> QED BY <1>1, <1>2, <2>1, <2>2, OverKeeps
<1>7. CASE KillSession(s)
  <2>1. Becomes(s, Off, {}) /\ UNCHANGED <<passFile, secretsAge, keyAt, pems, unstored, astray, moves>>
    BY <1>7 DEF KillSession, diskVars
  <2>2. Off \in Processes /\ Off.at = "off"
    BY DEF Off, Processes, Places, Hows
  <2>3. Fits(Off, passFile) /\ EncryptsWithFile(Off, passFile)
    BY <2>2 DEF Fits, MovesAnOrg, HasPhrase, PersistsFirst, EncryptsWithFile
  <2> QED BY <1>1, <1>2, <2>1, <2>2, <2>3, OthersStay
<1> QED BY <1>3, <1>5, <1>6, <1>7

-----------------------------------------------------------------------------
LEMMA KeysInvNext == KeysInv /\ [KeysNext]_keyVars => KeysInv'
<1> SUFFICES ASSUME KeysInv, [KeysNext]_keyVars PROVE KeysInv'
  OBVIOUS
<1>1. CASE UNCHANGED keyVars
  BY <1>1 DEF KeysInv, KeysTypeOK, StoreMatchesFile, Fits, MovesAnOrg, HasPhrase, PersistsFirst,
              EncryptsWithFile, Unseen, PemFiles, keyVars, diskVars
<1>2. ASSUME NEW s \in Sessions, NEW e \in Phrases \cup {NoPhrase},
             \/ OpenForm(s, e) \/ StartTui(s, e)
             \/ \E o \in KeyOrgs, t \in Phrases \cup {NoPhrase}, r \in BOOLEAN :
                  ImportKey(s, e, o, t, r)
      PROVE  KeysInv'
  BY <1>2, Starts
<1>3. ASSUME NEW s \in Sessions, NEW o \in KeyOrgs, NEW h \in Hows \ {"import"},
             NEW t \in Phrases \cup {NoPhrase}, SubmitForm(s, o, h, t)
      PROVE  KeysInv'
  BY <1>3, Submits
<1>4. ASSUME NEW s \in Sessions,
             \/ Resolve(s) \/ PersistPassphrase(s) \/ OpenStore(s) \/ Set(s) \/ EncryptFails(s)
             \/ ClearPath(s) \/ WriteOrg(s) \/ SaveSettings(s) \/ Reload(s)
             \/ ValidateOrgAuth(s) \/ RemoveSource(s) \/ KillSession(s)
      PROVE  KeysInv'
  BY <1>4, Resolving, Persisting, Opening, Setting, Saving, Writing, Ending
<1> QED BY <1>1, <1>2, <1>3, <1>4 DEF KeysNext

\* Keys are in known places and every process is at a step of a move, for any orgs,
\* processes, passphrases and number of moves.
THEOREM KeysTypeCorrect == KeysSpec => []KeysTypeOK
<1>1. KeysInv => KeysTypeOK
  BY DEF KeysInv
<1> QED BY <1>1, KeysInvInit, KeysInvNext, PTL DEF KeysSpec

\* secrets.age is always encrypted with the passphrase in secrets.pass, as long as no
\* process wrote over a passphrase or a store it had not seen.  EncryptAppKey persists
\* the passphrase only into a file that holds none, reads the file again, and encrypts
\* with what it holds.
THEOREM StoreAlwaysOpens == KeysSpec => []StoreMatchesFile
<1>1. KeysInv => StoreMatchesFile
  BY DEF KeysInv
<1> QED BY <1>1, KeysInvInit, KeysInvNext, PTL DEF KeysSpec

-----------------------------------------------------------------------------
(* Keys stay reachable *)

\* Who is about to rename a store into place and has seen the latest one has decrypted
\* every key in it.
LoadedAll(p) == p.at = "rename" /\ "secrets" \in p.fresh => p.loaded = secretsAge.keys

\* From the store's rename on, an import has its key in the store.
ImportIsStored(p) ==
  p.at \in {"grant", "remove"} \/ (p.how = "import" /\ p.at \in {"write", "check"}) =>
    p.org \in secretsAge.keys

\* A command line process that has put a key into its config as stored, and stores it
\* before it writes that config.
WillStore(s, p, o) == s # TuiSession /\ p.at \in Encrypting /\ p.org = o

\* A config as recent as the file names keys where they are.
ConfigIsTrue(s, p) ==
  "config" \in p.fresh => \A o \in KeyOrgs :
    /\ p.cfg[o] = "pem" => PemOf[o] \in pems \/ o \in astray
    /\ p.cfg[o] = "store" /\ o \notin unstored => o \in secretsAge.keys \/ WillStore(s, p, o)

\* An import clears the path before it removes the file.
PathIsCleared(p) ==
  /\ p.how = "import" /\ p.at = "write" => p.cfg[p.org] # "pem"
  /\ (p.at = "remove" \/ (p.how = "import" /\ p.at = "check")) /\ "config" \in p.fresh =>
       keyAt[p.org] # "pem"

FileIsTrue == \A o \in KeyOrgs :
  /\ keyAt[o] = "pem" => PemOf[o] \in pems \/ o \in astray
  /\ keyAt[o] = "store" /\ o \notin unstored => o \in secretsAge.keys

\* What only a command line process does.
OnCommandLine(p) == p.at \in {"form", "remove"} \/ p.how = "import"

KeptInv ==
  /\ ~OnCommandLine(proc[TuiSession])
  /\ Unseen \/ \A s \in Sessions : LoadedAll(proc[s]) /\ ImportIsStored(proc[s])
  /\ \/ overwrote # {}
     \/ FileIsTrue /\ \A s \in Sessions : ConfigIsTrue(s, proc[s]) /\ PathIsCleared(proc[s])

\* A step keeps it when it writes what it changes, drops no key from the store it has
\* seen, and what its process then is keeps it.
LEMMA OthersKeep ==
  ASSUME KeysInv, KeptInv, NEW s \in Sessions, NEW p \in Processes, NEW W \in SUBSET KeyFile,
         Becomes(s, p, W),
         "config" \in W \/ UNCHANGED <<keyAt, pems>>,
         "secrets" \in W \/ UNCHANGED secretsAge,
         Unseen' \/ secretsAge.keys \subseteq secretsAge'.keys,
         unstored \subseteq unstored' \cup secretsAge'.keys, astray \subseteq astray',
         OnCommandLine(p) => s # TuiSession,
         Unseen' \/ (LoadedAll(p)' /\ ImportIsStored(p)'),
         overwrote' # {} \/ (FileIsTrue' /\ ConfigIsTrue(s, p)' /\ PathIsCleared(p)')
  PROVE  KeptInv'
<1>1. /\ proc'[s] = p
      /\ \A q \in Sessions \ {s} :
           /\ proc'[q].at = proc[q].at /\ proc'[q].org = proc[q].org
           /\ proc'[q].env = proc[q].env /\ proc'[q].typed = proc[q].typed
           /\ proc'[q].pass = proc[q].pass /\ proc'[q].fresh = proc[q].fresh \ W
           /\ proc'[q].cfg = proc[q].cfg /\ proc'[q].how = proc[q].how
           /\ proc'[q].loaded = proc[q].loaded
      /\ Unseen => Unseen'
  BY BecomesOther DEF KeysInv
<1>2. overwrote # {} => overwrote' # {}
  BY DEF Becomes
<1>3. ASSUME ~Unseen', NEW q \in Sessions \ {s}
      PROVE  LoadedAll(proc[q])' /\ ImportIsStored(proc[q])'
  <2>1. LoadedAll(proc[q]) /\ ImportIsStored(proc[q])
    BY <1>1, <1>3 DEF KeptInv
  <2> QED BY <1>1, <1>3, <2>1 DEF LoadedAll, ImportIsStored
<1>4. ASSUME overwrote' = {}, NEW q \in Sessions \ {s}
      PROVE  ConfigIsTrue(q, proc[q])' /\ PathIsCleared(proc[q])'
  <2>1. ConfigIsTrue(q, proc[q]) /\ PathIsCleared(proc[q])
    BY <1>2, <1>4 DEF KeptInv
  <2>2. secretsAge.keys \subseteq secretsAge'.keys
    BY <1>4 DEF Unseen
  <2>3. ConfigIsTrue(q, proc[q])'
    BY <1>1, <2>1, <2>2 DEF ConfigIsTrue, WillStore
  <2>4. PathIsCleared(proc[q])'
    BY <1>1, <2>1 DEF PathIsCleared
  <2> QED BY <2>3, <2>4
<1>5. Unseen' \/ \A q \in Sessions : LoadedAll(proc[q])' /\ ImportIsStored(proc[q])'
  BY <1>1, <1>3 DEF LoadedAll, ImportIsStored
<1>6. overwrote' # {} \/ \A q \in Sessions : ConfigIsTrue(q, proc[q])' /\ PathIsCleared(proc[q])'
  BY <1>1, <1>4 DEF ConfigIsTrue, PathIsCleared, WillStore
<1>7. ~OnCommandLine(proc[TuiSession])'
  BY <1>1, KeyConstants DEF KeptInv, OnCommandLine
<1> QED BY <1>5, <1>6, <1>7 DEF KeptInv

LEMMA KeptInit == KeysInit => KeptInv
<1> SUFFICES ASSUME KeysInit PROVE KeptInv
  OBVIOUS
<1>1. \A s \in Sessions : proc[s].at = "off" /\ proc[s].fresh = {} /\ proc[s].how = "keep"
  BY DEF KeysInit, Off
<1>2. FileIsTrue
  <2> DEFINE keys == {o \in KeyOrgs : keyAt[o] = "store"}
  <2>1. secretsAge.keys = keys
    BY DEF KeysInit, NoStore
  <2>2. \A o \in KeyOrgs : keyAt[o] = "pem" => PemOf[o] \in pems
    BY DEF KeysInit
  <2> QED BY <2>1, <2>2 DEF FileIsTrue
<1> QED BY <1>1, <1>2, KeyConstants
        DEF KeptInv, LoadedAll, ImportIsStored, ConfigIsTrue, PathIsCleared, OnCommandLine

LEMMA NoFiles == {} \in SUBSET KeyFile /\ \A f \in KeyFile : {f} \in SUBSET KeyFile
OBVIOUS

\* A command starts with the config it loads.
LEMMA StartsKept ==
  ASSUME KeysInv, KeptInv, NEW s \in Sessions, NEW e \in Phrases \cup {NoPhrase},
         \/ OpenForm(s, e) \/ StartTui(s, e)
         \/ \E o \in KeyOrgs, t \in Phrases \cup {NoPhrase}, r \in BOOLEAN :
              ImportKey(s, e, o, t, r)
  PROVE  KeptInv'
<1>1. Off \in Processes /\ keyAt \in [KeyOrgs -> Places]
  BY OneProcess DEF Off, Processes, Places, Hows
<1>2. ASSUME NEW p \in Processes, NEW step \in {"form", "idle", "resolve"}, Begin(s, step, p),
             step = "form" \/ p.how = "import" => s # TuiSession
      PROVE  KeptInv'
  <2> DEFINE q == [p EXCEPT !.cfg = keyAt]
  <2>1. q \in Processes /\ q.cfg = keyAt /\ q.how = p.how
    BY <1>1 DEF Processes
  <2>2. Goto(s, step, q, {"config"}, {}) /\ UNCHANGED <<diskVars, unstored, astray>>
    BY <1>2 DEF Begin
  <2> HIDE DEF q
  <2>3. PICK r \in Processes : Becomes(s, r, {}) /\ GoesOn(r, step, q, {"config"} \cup {})
    <3>1. step \in Steps /\ "config" \in KeyFile
      BY DEF Steps, KeyFile
    <3> QED BY <2>1, <2>2, <3>1, GotoIs, NoFiles
  <2>4. r.at = step /\ r.cfg = keyAt /\ r.how = p.how
    BY <2>1, <2>3 DEF GoesOn
  <2>5. UNCHANGED <<keyAt, pems, secretsAge, unstored, astray>>
    BY <2>2 DEF diskVars
  <2>6. LoadedAll(r)' /\ ImportIsStored(r)' /\ PathIsCleared(r)'
    BY <1>2, <2>4 DEF LoadedAll, ImportIsStored, PathIsCleared
  <2>7. overwrote' # {} \/ (FileIsTrue' /\ ConfigIsTrue(s, r)')
    <3>1. overwrote # {} => overwrote' # {}
      BY <2>3 DEF Becomes
    <3>2. overwrote = {} => FileIsTrue
      BY DEF KeptInv
    <3> QED BY <2>4, <2>5, <3>1, <3>2 DEF FileIsTrue, ConfigIsTrue
  <2>8. OnCommandLine(r) => s # TuiSession
    BY <1>2, <2>4 DEF OnCommandLine
  <2> QED BY <2>3, <2>5, <2>6, <2>7, <2>8, OthersKeep, NoFiles
<1>3. CASE OpenForm(s, e)
  <2>1. [Off EXCEPT !.env = e] \in Processes
    BY <1>1 DEF Processes
  <2> QED BY <1>2, <1>3, <2>1 DEF OpenForm
<1>4. CASE StartTui(s, e)
  <2>1. [Off EXCEPT !.env = e] \in Processes /\ [Off EXCEPT !.env = e].how = "keep"
    BY <1>1 DEF Processes, Off
  <2> QED BY <1>2, <1>4, <2>1 DEF StartTui
<1>5. ASSUME NEW o \in KeyOrgs, NEW t \in Phrases \cup {NoPhrase}, NEW r \in BOOLEAN,
             ImportKey(s, e, o, t, r)
      PROVE  KeptInv'
  <2> DEFINE p == [Off EXCEPT !.env = e, !.how = "import", !.org = o, !.typed = t, !.remove = r]
  <2>1. p \in Processes
    BY <1>1 DEF Processes, Hows
  <2>2. Begin(s, "resolve", p) /\ s # TuiSession
    BY <1>5 DEF ImportKey
  <2> HIDE DEF p
  <2> QED BY <1>2, <2>1, <2>2
<1> QED BY <1>3, <1>4, <1>5

\* The form puts one org into the config: with a path that is there, or as stored when
\* it is about to be, or recorded as not stored yet.
LEMMA SubmitsKept ==
  ASSUME KeysInv, KeptInv, NEW s \in Sessions, NEW o \in KeyOrgs, NEW h \in Hows \ {"import"},
         NEW t \in Phrases \cup {NoPhrase}, SubmitForm(s, o, h, t)
  PROVE  KeptInv'
<1> DEFINE p == [proc[s] EXCEPT !.how = h, !.org = o, !.typed = t,
                                !.cfg[o] = ToOrgConfig(s, o, h)]
           step == IF h \in {"paste", "encrypt"} THEN "resolve" ELSE "write"
<1>1. proc[s] \in Processes
  BY OneProcess
<1>2. ToOrgConfig(s, o, h) \in Places
  BY <1>1 DEF ToOrgConfig, Processes, Places
<1>3. /\ p \in Processes /\ p.org = o /\ p.how = h /\ p.fresh = proc[s].fresh
      /\ p.cfg[o] = ToOrgConfig(s, o, h) /\ \A q \in KeyOrgs \ {o} : p.cfg[q] = proc[s].cfg[q]
  BY <1>1, <1>2 DEF Processes
<1>4. Goto(s, step, p, {}, {}) /\ UNCHANGED <<keyAt, pems, secretsAge>>
  BY DEF SubmitForm, diskVars
<1>5. step \in Steps /\ step \in {"resolve", "write"}
  BY DEF Steps
<1>6. h \in {"paste", "encrypt"} => step = "resolve"
  OBVIOUS
<1> HIDE DEF p, step
<1>7. PICK r \in Processes : Becomes(s, r, {}) /\ GoesOn(r, step, p, {} \cup {})
  BY <1>3, <1>4, <1>5, GotoIs, NoFiles
<1>8. /\ r.at = step /\ r.how = h /\ r.org = o /\ r.cfg = p.cfg /\ r.fresh = proc[s].fresh
  BY <1>3, <1>7 DEF GoesOn
<1>9. LoadedAll(r)' /\ ImportIsStored(r)' /\ PathIsCleared(r)'
  BY <1>5, <1>8 DEF LoadedAll, ImportIsStored, PathIsCleared
<1>10. /\ unstored \subseteq unstored' /\ (s = TuiSession /\ h = "paste" => o \in unstored')
       /\ astray \subseteq astray'
       /\ h = "path" => PemOf[o] \in pems \/ o \in astray'
  BY DEF SubmitForm
<1>11. ASSUME overwrote' = {} PROVE FileIsTrue' /\ ConfigIsTrue(s, r)'
  <2>1. overwrote = {}
    BY <1>7, <1>11 DEF Becomes
  <2>2. FileIsTrue /\ ConfigIsTrue(s, proc[s])
    BY <2>1 DEF KeptInv
  <2>3. FileIsTrue'
    BY <1>4, <1>10, <2>2 DEF FileIsTrue
  <2>4. ASSUME "config" \in r.fresh, NEW q \in KeyOrgs
        PROVE  /\ r.cfg[q] = "pem" => PemOf[q] \in pems \/ q \in astray'
               /\ r.cfg[q] = "store" /\ q \notin unstored' => q \in secretsAge.keys \/ WillStore(s, r, q)
    <3>1. ~WillStore(s, proc[s], q)
      BY DEF WillStore, Encrypting, SubmitForm, At
    <3>2. /\ proc[s].cfg[q] = "pem" => PemOf[q] \in pems \/ q \in astray
          /\ proc[s].cfg[q] = "store" /\ q \notin unstored => q \in secretsAge.keys
      BY <1>8, <2>2, <2>4, <3>1 DEF ConfigIsTrue
    <3>3. CASE q # o
      BY <1>3, <1>8, <1>10, <3>2, <3>3
    <3>4. CASE q = o
      <4>1. CASE h = "keep"
        BY <1>3, <1>8, <1>10, <3>2, <3>4, <4>1 DEF ToOrgConfig
      <4>2. CASE h = "path"
        BY <1>3, <1>8, <1>10, <3>4, <4>2 DEF ToOrgConfig
      <4>3. CASE h \in {"paste", "encrypt"}
        <5>1. r.cfg[q] = "store"
          BY <1>3, <1>8, <3>4, <4>3 DEF ToOrgConfig
        <5>2. s # TuiSession \/ h = "paste"
          BY <4>3 DEF SubmitForm, KeptInv, At, OnCommandLine
        <5> QED BY <1>6, <1>8, <1>10, <3>4, <4>3, <5>1, <5>2 DEF WillStore, Encrypting
      <4> QED BY <4>1, <4>2, <4>3 DEF Hows
    <3> QED BY <3>3, <3>4
  <2> QED BY <1>4, <2>3, <2>4 DEF ConfigIsTrue, WillStore
<1>12. ~OnCommandLine(r) BY <1>5, <1>8 DEF OnCommandLine
<1> QED BY <1>4, <1>7, <1>9, <1>10, <1>11, <1>12, OthersKeep, NoFiles

\* What is known of a process that takes a step.
LEMMA OneKept ==
  ASSUME KeptInv, NEW s \in Sessions
  PROVE  /\ Unseen \/ (LoadedAll(proc[s]) /\ ImportIsStored(proc[s]))
         /\ overwrote # {} \/ (FileIsTrue /\ ConfigIsTrue(s, proc[s]) /\ PathIsCleared(proc[s]))
         /\ OnCommandLine(proc[s]) => s # TuiSession
BY DEF KeptInv

\* A process that has found out or persisted the passphrase goes on with its config.
LEMMA PhrasesKept ==
  ASSUME KeysInv, KeptInv, NEW s \in Sessions,
         Resolve(s) \/ PersistPassphrase(s) \/ OpenStore(s)
  PROVE  KeptInv'
<1>1. proc[s] \in Processes /\ secretsAge \in Stores /\ passFile \in Phrases \cup {NoPhrase}
  BY OneProcess DEF KeysInv, KeysTypeOK
<1>2. ASSUME NEW p \in Processes, NEW step \in {"persist", "open", "rename"},
             NEW R \in SUBSET KeyFile, NEW W \in SUBSET {"pass"}, Goto(s, step, p, R, W),
             "config" \notin R, proc[s].at \in Encrypting,
             UNCHANGED <<keyAt, pems, secretsAge>>, UNCHANGED <<unstored, astray>>,
             p.cfg = proc[s].cfg /\ p.org = proc[s].org /\ p.fresh = proc[s].fresh,
             p.how = proc[s].how,
             step = "rename" => p.loaded = secretsAge.keys
      PROVE  KeptInv'
  <2>1. W \in SUBSET KeyFile /\ step \in Steps
    BY <1>2 DEF KeyFile, Steps
  <2>2. PICK r \in Processes : Becomes(s, r, W) /\ GoesOn(r, step, p, R \cup W)
    BY <1>2, <2>1, GotoIs
  <2>3. /\ r.at = step /\ r.cfg = proc[s].cfg /\ r.org = proc[s].org /\ r.loaded = p.loaded
        /\ r.how = proc[s].how
        /\ "config" \in r.fresh => "config" \in proc[s].fresh
    BY <1>2, <2>2 DEF GoesOn
  <2>4. LoadedAll(r)' /\ ImportIsStored(r)' /\ PathIsCleared(r)'
    BY <1>2, <2>3 DEF LoadedAll, ImportIsStored, PathIsCleared
  <2>5. ASSUME overwrote' = {} PROVE FileIsTrue' /\ ConfigIsTrue(s, r)'
    <3>1. overwrote = {}
      BY <2>2, <2>5 DEF Becomes
    <3>2. FileIsTrue /\ ConfigIsTrue(s, proc[s])
      BY <3>1, OneKept
    <3>3. FileIsTrue' BY <1>2, <3>2 DEF FileIsTrue
    <3>4. \A o \in KeyOrgs : WillStore(s, proc[s], o) => WillStore(s, r, o)
      BY <1>2, <2>3 DEF WillStore, Encrypting
    <3> QED BY <1>2, <2>3, <3>2, <3>3, <3>4 DEF ConfigIsTrue, WillStore
  <2>6. OnCommandLine(r) => s # TuiSession
    BY <1>2, <2>3, OneKept DEF OnCommandLine
  <2> QED BY <1>2, <2>1, <2>2, <2>4, <2>5, <2>6, OthersKeep
<1>3. /\ {"pass"} \in SUBSET KeyFile /\ "config" \notin {"pass"}
      /\ {"pass", "secrets"} \in SUBSET KeyFile /\ "config" \notin {"pass", "secrets"}
      /\ {} \in SUBSET {"pass"}
  BY DEF KeyFile
<1>4. CASE Resolve(s)
  <2> DEFINE known == ResolvePassphrase(proc[s].env)
             phrase == IF known # NoPhrase THEN known ELSE proc[s].typed
             p == [proc[s] EXCEPT !.pass = phrase]
  <2>1. ResolveAs(s, phrase)
    BY <1>4 DEF Resolve
  <2>2. phrase \in Phrases \cup {NoPhrase}
    BY <1>1 DEF Processes, ResolvePassphrase
  <2> HIDE DEF phrase
  <2>3. /\ p \in Processes /\ p.cfg = proc[s].cfg /\ p.org = proc[s].org
        /\ p.fresh = proc[s].fresh /\ p.how = proc[s].how
    BY <1>1, <2>2 DEF Processes
  <2>4. PICK step \in {"persist", "open"} : Goto(s, step, p, {"pass"}, {})
    BY <2>1 DEF ResolveAs
  <2>5. /\ proc[s].at \in Encrypting
        /\ UNCHANGED <<keyAt, pems, secretsAge>> /\ UNCHANGED <<unstored, astray>>
    BY <2>1 DEF ResolveAs, At, Encrypting, diskVars
  <2> HIDE DEF p
  <2>6. step \in {"persist", "open", "rename"} /\ step # "rename"
    OBVIOUS
  <2> QED BY <1>2, <1>3, <2>3, <2>4, <2>5, <2>6
<1>5. CASE PersistPassphrase(s)
  <2>1. /\ Goto(s, "open", proc[s], {}, {"pass"})
        /\ UNCHANGED <<keyAt, pems, secretsAge>> /\ UNCHANGED <<unstored, astray>>
    BY <1>5 DEF PersistPassphrase
  <2>2. proc[s].at \in Encrypting
    BY <1>5 DEF PersistPassphrase, At, Encrypting
  <2> QED BY <1>1, <1>2, <2>1, <2>2, NoFiles
<1>6. CASE OpenStore(s)
  <2> DEFINE p == [proc[s] EXCEPT !.pass = passFile, !.loaded = secretsAge.keys]
  <2>1. /\ At(s, "open") /\ Goto(s, "rename", p, {"pass", "secrets"}, {})
        /\ UNCHANGED <<keyAt, pems, secretsAge>> /\ UNCHANGED <<unstored, astray>>
    BY <1>6 DEF OpenStore, OpenWith, diskVars
  <2>2. secretsAge.keys \in SUBSET KeyOrgs
    BY <1>1 DEF Stores, NoStore
  <2>3. /\ p \in Processes /\ p.cfg = proc[s].cfg /\ p.org = proc[s].org
        /\ p.fresh = proc[s].fresh /\ p.loaded = secretsAge.keys /\ p.how = proc[s].how
    BY <1>1, <2>2 DEF Processes
  <2>4. proc[s].at \in Encrypting
    BY <2>1 DEF At, Encrypting
  <2> HIDE DEF p
  <2> QED BY <1>2, <1>3, <2>1, <2>3, <2>4
<1> QED BY <1>4, <1>5, <1>6

\* The store is replaced by one with a key more, by a process that has seen it.
LEMMA SetKept ==
  ASSUME KeysInv, KeptInv, NEW s \in Sessions, Set(s)
  PROVE  KeptInv'
<1> DEFINE step == IF proc[s].how = "import" THEN "grant" ELSE "write"
           o == proc[s].org
<1>1. proc[s] \in Processes
  BY OneProcess
<1>2. /\ At(s, "rename") /\ secretsAge'.keys = proc[s].loaded \cup {o}
      /\ unstored' = unstored \ {o}
      /\ Goto(s, step, proc[s], {}, {"secrets"})
      /\ UNCHANGED <<keyAt, pems, astray>>
  BY DEF Set, SetKeys
<1>3. step \in Steps /\ step \in {"grant", "write"}
  BY DEF Steps
<1>4. proc[s].how = "import" => step = "grant"
  OBVIOUS
<1> HIDE DEF step
<1>5. {"secrets"} \in SUBSET KeyFile
  BY DEF KeyFile
<1>6. PICK r \in Processes : Becomes(s, r, {"secrets"}) /\ GoesOn(r, step, proc[s], {} \cup {"secrets"})
  BY <1>1, <1>2, <1>3, <1>5, GotoIs, NoFiles
<1>7. /\ r.at = step /\ r.how = proc[s].how /\ r.org = o /\ r.cfg = proc[s].cfg
      /\ "config" \in r.fresh => "config" \in proc[s].fresh
  BY <1>6 DEF GoesOn
<1>8. ASSUME ~Unseen' PROVE secretsAge.keys \subseteq secretsAge'.keys
  <2>1. "secrets" \in proc[s].fresh /\ ~Unseen
    BY <1>6, <1>8 DEF Becomes, Unseen
  <2>2. proc[s].loaded = secretsAge.keys
    BY <1>2, <2>1, OneKept DEF LoadedAll, At
  <2> QED BY <1>2, <2>2
<1>9. unstored \subseteq unstored' \cup secretsAge'.keys
  BY <1>2
<1>10. LoadedAll(r)' /\ ImportIsStored(r)'
  BY <1>2, <1>3, <1>7 DEF LoadedAll, ImportIsStored
<1>11. ASSUME overwrote' = {} PROVE FileIsTrue' /\ ConfigIsTrue(s, r)' /\ PathIsCleared(r)'
  <2>1. overwrote = {} /\ ~Unseen'
    BY <1>6, <1>11 DEF Becomes, Unseen
  <2>2. FileIsTrue /\ ConfigIsTrue(s, proc[s])
    BY <2>1, OneKept
  <2>3. FileIsTrue'
    BY <1>2, <1>8, <2>1, <2>2 DEF FileIsTrue
  <2>4. ConfigIsTrue(s, r)'
    BY <1>2, <1>7, <1>8, <2>1, <2>2 DEF ConfigIsTrue, WillStore
  <2>5. PathIsCleared(r)'
    BY <1>3, <1>4, <1>7 DEF PathIsCleared
  <2> QED BY <2>3, <2>4, <2>5
<1>12. OnCommandLine(r) => s # TuiSession
  BY <1>3, <1>7, OneKept DEF OnCommandLine
<1> QED BY <1>2, <1>5, <1>6, <1>8, <1>9, <1>10, <1>11, <1>12, OthersKeep

\* A command that is over leaves a process that is off, or the terminal UI with the
\* config it holds.
LEMMA OverKept ==
  ASSUME KeysInv, KeptInv, NEW s \in Sessions, NEW p \in Processes, NEW R \in SUBSET {"config"},
         NEW W \in SUBSET {"config"}, Over(s, p, R, W),
         "config" \in W \/ UNCHANGED <<keyAt, pems>>, UNCHANGED <<secretsAge, unstored>>,
         astray \subseteq astray',
         overwrote' # {} \/ FileIsTrue',
         \/ overwrote' # {} \/ s # TuiSession
         \/ "config" \in p.fresh \cup R => \A o \in KeyOrgs :
              /\ p.cfg[o] = "pem" => PemOf[o] \in pems' \/ o \in astray'
              /\ p.cfg[o] = "store" /\ o \notin unstored' => o \in secretsAge'.keys
  PROVE  KeptInv'
<1> DEFINE Idle == [Off EXCEPT !.at = "idle", !.cfg = p.cfg, !.env = p.env,
                               !.fresh = p.fresh \cup R]
           r == IF s = TuiSession THEN Idle ELSE Off
<1>1. Off \in Processes /\ Off.at = "off" /\ Off.how = "keep" /\ Off.fresh = {}
  BY DEF Off, Processes, Places, Hows
<1>2. /\ Idle \in Processes /\ Idle.at = "idle" /\ Idle.how = "keep" /\ Idle.cfg = p.cfg
      /\ Idle.fresh = p.fresh \cup R
  BY DEF Off, Processes, Hows, KeyFile
<1>3. Becomes(s, r, W)
  BY DEF Over
<1>4. /\ r \in Processes /\ r.at \in {"off", "idle"} /\ r.how = "keep"
      /\ "config" \in r.fresh => s = TuiSession /\ r.cfg = p.cfg /\ "config" \in p.fresh \cup R
  BY <1>1, <1>2
<1> HIDE DEF r
<1>5. LoadedAll(r)' /\ ImportIsStored(r)' /\ PathIsCleared(r)' /\ ~OnCommandLine(r)
  BY <1>4 DEF LoadedAll, ImportIsStored, PathIsCleared, OnCommandLine
<1>6. overwrote' # {} \/ ConfigIsTrue(s, r)'
  BY <1>4 DEF ConfigIsTrue
<1>7. W \in SUBSET KeyFile
  BY DEF KeyFile
<1> QED BY <1>3, <1>4, <1>5, <1>6, <1>7, OthersKeep

\* The config is read again, and written by a process whose key is in the store.
LEMMA WritingKept ==
  ASSUME KeysInv, KeptInv, NEW s \in Sessions,
         ClearPath(s) \/ WriteOrg(s) \/ SaveSettings(s) \/ Reload(s)
  PROVE  KeptInv'
<1>1. /\ proc[s] \in Processes /\ Fits(proc[s], passFile) /\ keyAt \in [KeyOrgs -> Places]
      /\ proc[s].at \in Steps /\ {"config"} \in SUBSET KeyFile
  BY OneProcess DEF Processes, Steps, KeyFile
<1>2. CASE ClearPath(s)
  <2> DEFINE o == proc[s].org
             step == IF keyAt[o] = "pem" THEN "write" ELSE "check"
             cfg == [keyAt EXCEPT ![o] = IF @ = "pem" THEN "store" ELSE @]
             p == [proc[s] EXCEPT !.cfg = cfg]
  <2>1. At(s, "grant") /\ Goto(s, step, p, {"config"}, {}) /\ UNCHANGED <<diskVars, unstored, astray>>
    BY <1>2 DEF ClearPath
  <2>2. o \in KeyOrgs
    BY <1>1, <2>1 DEF Fits, MovesAnOrg, At
  <2>3. /\ cfg \in [KeyOrgs -> Places] /\ cfg[o] # "pem"
        /\ cfg[o] = keyAt[o] \/ cfg[o] = "store"
        /\ \A q \in KeyOrgs \ {o} : cfg[q] = keyAt[q]
    BY <1>1, <2>2 DEF Places
  <2> HIDE DEF cfg
  <2>4. p \in Processes /\ p.cfg = cfg /\ p.org = o /\ p.how = proc[s].how
    BY <1>1, <2>3 DEF Processes
  <2>5. step \in Steps /\ step \in {"write", "check"} /\ (step = "check" => keyAt[o] # "pem")
    BY DEF Steps
  <2> HIDE DEF p, step
  <2>6. PICK r \in Processes : Becomes(s, r, {}) /\ GoesOn(r, step, p, {"config"} \cup {})
    BY <1>1, <2>1, <2>4, <2>5, GotoIs, NoFiles
  <2>7. r.at = step /\ r.cfg = cfg /\ r.org = o /\ r.how = proc[s].how
    BY <2>4, <2>6 DEF GoesOn
  <2>8. UNCHANGED <<keyAt, pems, secretsAge, unstored, astray>>
    BY <2>1 DEF diskVars
  <2>9. Unseen' \/ o \in secretsAge.keys
    <3>1. Unseen => Unseen'
      BY <2>6 DEF Becomes, Unseen
    <3> QED BY <2>1, <3>1, OneKept DEF ImportIsStored, At
  <2>10. Unseen' \/ (LoadedAll(r)' /\ ImportIsStored(r)')
    BY <2>5, <2>7, <2>8, <2>9 DEF LoadedAll, ImportIsStored
  <2>11. overwrote' # {} \/ (FileIsTrue' /\ ConfigIsTrue(s, r)' /\ PathIsCleared(r)')
    <3> SUFFICES ASSUME overwrote' = {} PROVE FileIsTrue' /\ ConfigIsTrue(s, r)' /\ PathIsCleared(r)'
      OBVIOUS
    <3>1. FileIsTrue /\ ~Unseen'
      BY <2>6, OneKept DEF Becomes, Unseen
    <3>2. FileIsTrue' BY <2>8, <3>1 DEF FileIsTrue
    <3>3. ConfigIsTrue(s, r)' BY <2>3, <2>7, <2>8, <2>9, <3>1 DEF ConfigIsTrue, FileIsTrue
    <3>4. PathIsCleared(r)' BY <2>3, <2>5, <2>7, <2>8 DEF PathIsCleared
    <3> QED BY <3>2, <3>3, <3>4
  <2>12. OnCommandLine(r) => s # TuiSession
    BY <2>5, <2>7, OneKept DEF OnCommandLine
  <2> QED BY <2>6, <2>8, <2>10, <2>11, <2>12, OthersKeep, NoFiles
<1>3. CASE WriteOrg(s) \/ SaveSettings(s)
  <2>1. PICK step \in Steps :
          /\ Goto(s, step, proc[s], {}, {"config"}) /\ keyAt' = proc[s].cfg
          /\ \/ proc[s].at = "write" /\ step \in {"reload", "check"}
             \/ s = TuiSession /\ step = proc[s].at
    BY <1>1, <1>3 DEF WriteOrg, SaveSettings, WriteConfig, At, Steps
  <2>2. UNCHANGED <<pems, secretsAge, unstored, astray>>
    BY <1>3 DEF WriteOrg, SaveSettings, WriteConfig
  <2>3. PICK r \in Processes : Becomes(s, r, {"config"}) /\ GoesOn(r, step, proc[s], {} \cup {"config"})
    BY <1>1, <2>1, GotoIs, NoFiles
  <2>4. /\ r.at = step /\ r.cfg = proc[s].cfg /\ r.org = proc[s].org /\ r.how = proc[s].how
        /\ r.loaded = proc[s].loaded /\ ("secrets" \in r.fresh => "secrets" \in proc[s].fresh)
    BY <2>3 DEF GoesOn
  <2>5. Unseen' \/ (LoadedAll(r)' /\ ImportIsStored(r)')
    <3>1. Unseen => Unseen'
      BY <2>3 DEF Becomes, Unseen
    <3>2. Unseen \/ (LoadedAll(proc[s]) /\ ImportIsStored(proc[s]))
      BY OneKept
    <3> QED BY <2>1, <2>2, <2>4, <3>1, <3>2 DEF LoadedAll, ImportIsStored
  <2>6. OnCommandLine(r) => s # TuiSession
    BY <2>1, <2>4, OneKept DEF OnCommandLine
  <2>7. overwrote' # {} \/ (FileIsTrue' /\ ConfigIsTrue(s, r)' /\ PathIsCleared(r)')
    <3> SUFFICES ASSUME overwrote' = {} PROVE FileIsTrue' /\ ConfigIsTrue(s, r)' /\ PathIsCleared(r)'
      OBVIOUS
    <3>1. overwrote = {} /\ "config" \in proc[s].fresh
      BY <2>3 DEF Becomes
    <3>2. ConfigIsTrue(s, proc[s]) /\ PathIsCleared(proc[s])
      BY <3>1, OneKept
    <3>3. \A o \in KeyOrgs : ~WillStore(s, proc[s], o)
      BY <2>1 DEF WillStore, Encrypting
    <3>4. FileIsTrue' BY <2>1, <2>2, <3>1, <3>2, <3>3 DEF FileIsTrue, ConfigIsTrue
    <3>5. ConfigIsTrue(s, r)'
      BY <2>2, <2>4, <3>1, <3>2, <3>3 DEF ConfigIsTrue
    <3>6. PathIsCleared(r)'
      BY <2>1, <2>4, <2>6, <3>2 DEF PathIsCleared, OnCommandLine
    <3> QED BY <3>4, <3>5, <3>6
  <2> QED BY <1>1, <2>2, <2>3, <2>5, <2>6, <2>7, OthersKeep
<1>4. CASE Reload(s)
  <2> DEFINE p == [proc[s] EXCEPT !.cfg = keyAt]
  <2>1. Over(s, p, {"config"}, {}) /\ UNCHANGED <<keyAt, pems, secretsAge, unstored, astray>>
    BY <1>4 DEF Reload, diskVars
  <2>2. p \in Processes /\ p.cfg = keyAt
    BY <1>1 DEF Processes
  <2> HIDE DEF p
  <2>3. overwrote' # {} \/ FileIsTrue
    BY <2>1, OneKept DEF Over, Becomes
  <2>4. overwrote' # {} \/ FileIsTrue'
    BY <2>1, <2>3 DEF FileIsTrue
  <2>5. overwrote' # {} \/ \A o \in KeyOrgs :
              /\ p.cfg[o] = "pem" => PemOf[o] \in pems' \/ o \in astray'
              /\ p.cfg[o] = "store" /\ o \notin unstored' => o \in secretsAge'.keys
    BY <2>1, <2>2, <2>3 DEF FileIsTrue
  <2> QED BY <2>1, <2>2, <2>4, <2>5, OverKept
<1> QED BY <1>2, <1>3, <1>4

\* The removed file is one that, of its own org, no config as recent as the file names:
\* the path was cleared before; every other org that names it is recorded as astray.
LEMMA EndingKept ==
  ASSUME KeysInv, KeptInv, NEW s \in Sessions,
         EncryptFails(s) \/ ValidateOrgAuth(s) \/ RemoveSource(s) \/ KillSession(s)
  PROVE  KeptInv'
<1>1. /\ proc[s] \in Processes /\ Fits(proc[s], passFile)
      /\ Off \in Processes /\ Off.at = "off" /\ Off.how = "keep" /\ Off.fresh = {}
  BY OneProcess DEF Off, Processes, Places, Hows
<1>2. ASSUME Over(s, proc[s], {}, {}), UNCHANGED <<keyAt, pems, secretsAge, unstored, astray>>
      PROVE  KeptInv'
  <2>1. overwrote' # {} \/ (FileIsTrue /\ ConfigIsTrue(s, proc[s]))
    BY <1>2, OneKept DEF Over, Becomes
  <2>2. overwrote' # {} \/ FileIsTrue'
    BY <1>2, <2>1 DEF FileIsTrue
  <2> QED BY <1>1, <1>2, <2>1, <2>2, OverKept DEF ConfigIsTrue, WillStore
<1>3. CASE EncryptFails(s)
  BY <1>2, <1>3 DEF EncryptFails, diskVars
<1>4. ASSUME NEW v \in BOOLEAN, AfterCheck(s, v) PROVE KeptInv'
  <2>1. UNCHANGED <<keyAt, pems, secretsAge, unstored, astray>> /\ At(s, "check")
    BY <1>4 DEF AfterCheck, diskVars
  <2>2. CASE Over(s, proc[s], {}, {})
    BY <1>2, <2>1, <2>2
  <2>3. CASE proc[s].how = "import" /\ Goto(s, "remove", proc[s], {}, {})
    <3>1. PICK r \in Processes : Becomes(s, r, {}) /\ GoesOn(r, "remove", proc[s], {} \cup {})
      BY <1>1, <2>3, GotoIs, NoFiles DEF Steps
    <3>2. /\ r.at = "remove" /\ r.cfg = proc[s].cfg /\ r.org = proc[s].org /\ r.how = "import"
          /\ r.fresh = proc[s].fresh
      BY <2>3, <3>1 DEF GoesOn
    <3>3. Unseen' \/ (LoadedAll(r)' /\ ImportIsStored(r)')
      <4>1. Unseen => Unseen'
        BY <3>1 DEF Becomes, Unseen
      <4> QED BY <2>1, <2>3, <3>2, <4>1, OneKept DEF LoadedAll, ImportIsStored, At
    <3>4. overwrote' # {} \/ (FileIsTrue' /\ ConfigIsTrue(s, r)' /\ PathIsCleared(r)')
      <4>1. overwrote' # {} \/ (FileIsTrue /\ ConfigIsTrue(s, proc[s]) /\ PathIsCleared(proc[s]))
        BY <3>1, OneKept DEF Becomes
      <4>2. \A o \in KeyOrgs : ~WillStore(s, proc[s], o)
        BY <2>1 DEF WillStore, Encrypting, At
      <4> QED BY <2>1, <2>3, <3>2, <4>1, <4>2 DEF FileIsTrue, ConfigIsTrue, PathIsCleared, At
    <3>5. OnCommandLine(r) => s # TuiSession
      BY <2>3, <3>2, OneKept DEF OnCommandLine
    <3> QED BY <2>1, <3>1, <3>3, <3>4, <3>5, OthersKeep, NoFiles
  <2> QED BY <1>4, <2>2, <2>3 DEF AfterCheck
<1>5. CASE ValidateOrgAuth(s)
  <2>1. \E v \in BOOLEAN : AfterCheck(s, v)
    BY <1>5 DEF ValidateOrgAuth, AfterCheck
  <2> QED BY <1>4, <2>1
<1>6. CASE RemoveSource(s)
  <2> DEFINE o == proc[s].org
  <2>1. /\ At(s, "remove") /\ pems' = pems \ {PemOf[o]} /\ Over(s, proc[s], {}, {"config"})
        /\ UNCHANGED <<keyAt, secretsAge, unstored>>
        /\ astray' = astray \cup {q \in KeyOrgs \ {o} : PemOf[q] = PemOf[o]}
    BY <1>6 DEF RemoveSource
  <2>2. o \in KeyOrgs /\ s # TuiSession
    BY <1>1, <2>1, OneKept DEF Fits, MovesAnOrg, OnCommandLine, At
  <2>3. overwrote' # {} \/ FileIsTrue'
    <3> SUFFICES ASSUME overwrote' = {} PROVE FileIsTrue'
      OBVIOUS
    <3>1. overwrote = {} /\ "config" \in proc[s].fresh
      BY <2>1 DEF Over, Becomes
    <3>2. FileIsTrue /\ PathIsCleared(proc[s])
      BY <3>1, OneKept
    <3>3. keyAt[o] # "pem"
      BY <2>1, <3>1, <3>2 DEF PathIsCleared, At
    <3>4. ASSUME NEW q \in KeyOrgs, keyAt[q] = "pem" PROVE PemOf[q] \in pems' \/ q \in astray'
      <4>1. q # o BY <3>3, <3>4
      <4> QED BY <2>1, <3>2, <3>4, <4>1 DEF FileIsTrue
    <3> QED BY <2>1, <3>2, <3>4 DEF FileIsTrue
  <2> QED BY <1>1, <2>1, <2>2, <2>3, OverKept
<1>7. CASE KillSession(s)
  <2>1. Becomes(s, Off, {}) /\ UNCHANGED <<keyAt, pems, secretsAge, unstored, astray>>
    BY <1>7 DEF KillSession, diskVars
  <2>2. LoadedAll(Off)' /\ ImportIsStored(Off)' /\ PathIsCleared(Off)' /\ ConfigIsTrue(s, Off)'
        /\ ~OnCommandLine(Off)
    BY <1>1 DEF LoadedAll, ImportIsStored, PathIsCleared, ConfigIsTrue, OnCommandLine
  <2>3. overwrote' # {} \/ FileIsTrue'
    BY <2>1, OneKept DEF Becomes, FileIsTrue
  <2> QED BY <1>1, <2>1, <2>2, <2>3, OthersKeep, NoFiles
<1> QED BY <1>3, <1>5, <1>6, <1>7

LEMMA KeptStep ==
  ASSUME KeysInv, KeptInv, [KeysNext]_keyVars
  PROVE  KeptInv'
<1>1. CASE UNCHANGED keyVars
  BY <1>1 DEF KeptInv, LoadedAll, ImportIsStored, FileIsTrue, ConfigIsTrue, WillStore, PathIsCleared,
              OnCommandLine, Unseen, keyVars, diskVars
<1>2. ASSUME NEW s \in Sessions, NEW e \in Phrases \cup {NoPhrase},
             \/ OpenForm(s, e) \/ StartTui(s, e)
             \/ \E o \in KeyOrgs, t \in Phrases \cup {NoPhrase}, r \in BOOLEAN :
                  ImportKey(s, e, o, t, r)
      PROVE  KeptInv'
  BY <1>2, StartsKept
<1>3. ASSUME NEW s \in Sessions, NEW o \in KeyOrgs, NEW h \in Hows \ {"import"},
             NEW t \in Phrases \cup {NoPhrase}, SubmitForm(s, o, h, t)
      PROVE  KeptInv'
  BY <1>3, SubmitsKept
<1>4. ASSUME NEW s \in Sessions,
             \/ Resolve(s) \/ PersistPassphrase(s) \/ OpenStore(s) \/ Set(s) \/ EncryptFails(s)
             \/ ClearPath(s) \/ WriteOrg(s) \/ SaveSettings(s) \/ Reload(s)
             \/ ValidateOrgAuth(s) \/ RemoveSource(s) \/ KillSession(s)
      PROVE  KeptInv'
  BY <1>4, PhrasesKept, SetKept, WritingKept, EndingKept
<1> QED BY <1>1, <1>2, <1>3, <1>4 DEF KeysNext

\* The .pem an import removes has its key in a store that secrets.pass opens.
LEMMA RemovalsKept ==
  ASSUME KeysInv, KeptInv
  PROVE  overwrote \cap {"pass", "secrets"} = {} =>
           \A s \in Sessions :
             RemoveSource(s) /\ pems' # pems =>
               proc[s].org \in secretsAge.keys /\ secretsAge.phrase = passFile
<1> SUFFICES ASSUME ~Unseen, NEW s \in Sessions, RemoveSource(s)
             PROVE  proc[s].org \in secretsAge.keys /\ secretsAge.phrase = passFile
  BY DEF Unseen
<1>1. proc[s].org \in secretsAge.keys
  BY OneKept DEF RemoveSource, At, ImportIsStored
<1>2. secretsAge \in Stores /\ StoreMatchesFile
  BY OneProcess DEF KeysInv
<1>3. secretsAge.phrase # NoPhrase
  BY <1>1, <1>2, KeyConstants DEF Stores, NoStore
<1> QED BY <1>1, <1>2, <1>3 DEF StoreMatchesFile, Unseen

\* No key is lost on its way from a file to the store, however orgs share .pem files:
\* at every step of every command, in any order and wherever one is killed, the
\* detached units find every key config.yaml refers to, but for a path given without
\* a file or one whose file an import of another org has removed, and a pasted key the
\* terminal UI has not stored; and import-key removes only files whose key, as its
\* org's, they find in the store.
THEOREM KeysAreKept == KeysSpec => KeysStayReachable
<1>1. KeysInv /\ KeptInv /\ [KeysNext]_keyVars => KeptInv'
  BY KeptStep
<1>2. KeysInv /\ KeptInv => KeyResolves
  <2> SUFFICES ASSUME KeysInv, KeptInv, overwrote = {}, NEW o \in KeyOrgs,
                      keyAt[o] # "absent",
                      keyAt[o] = "pem" => o \notin astray,
                      keyAt[o] = "store" => o \notin unstored
               PROVE  Resolves(o)
    BY DEF KeyResolves
  <2>1. FileIsTrue /\ keyAt[o] \in Places
    BY DEF KeptInv, KeysInv, KeysTypeOK
  <2>2. CASE keyAt[o] = "pem"
    BY <2>1, <2>2 DEF FileIsTrue, Resolves, FindsKey
  <2>3. CASE keyAt[o] = "store"
    <3>1. o \in secretsAge.keys
      BY <2>1, <2>3 DEF FileIsTrue
    <3>2. secretsAge \in Stores /\ StoreMatchesFile
      BY KeyConstants DEF KeysInv, KeysTypeOK, Stores
    <3>3. secretsAge.phrase # NoPhrase
      BY <3>1, <3>2, KeyConstants DEF Stores, NoStore
    <3>4. secretsAge.phrase = passFile
      BY <3>2, <3>3 DEF StoreMatchesFile
    <3> QED BY <2>3, <3>1, <3>4 DEF Resolves, FindsKey
  <2> QED BY <2>1, <2>2, <2>3 DEF Places
<1>3. KeysInv => KeysTypeOK
  BY DEF KeysInv
<1>4. KeysInv /\ KeptInv =>
        [overwrote \cap {"pass", "secrets"} = {} =>
           \A s \in Sessions :
             RemoveSource(s) /\ pems' # pems =>
               proc[s].org \in secretsAge.keys /\ secretsAge.phrase = passFile]_keyVars
  BY RemovalsKept
<1> QED BY <1>1, <1>2, <1>3, <1>4, KeysInvInit, KeysInvNext, KeptInit, PTL
        DEF KeysSpec, KeysStayReachable, RemovedKeyHasACopy
-----------------------------------------------------------------------------
(* config.yaml                                                              *)

\* Two documents agree on all that commands ask for but for the fields in H; of the orgs
\* in E, that went through the edit form, only on what the form shows.
Agree(d, g, E, H) ==
  /\ "limits" \in H \/ (d.mode = g.mode /\ d.cap = g.cap)
  /\ "policy" \in H \/ d.perOrgUsers = g.perOrgUsers
  /\ "host" \in H \/ d.host = g.host
  /\ \A o \in DocOrgs \ H : /\ d.orgs[o].app = g.orgs[o].app
                            /\ o \notin E => d.orgs[o] = g.orgs[o]

\* A document has been changed in the fields F alone.
OnlyIn(d, new, F) ==
  /\ "limits" \in F \/ (new.mode = d.mode /\ new.cap = d.cap)
  /\ "policy" \in F \/ new.perOrgUsers = d.perOrgUsers
  /\ "host" \in F \/ new.host = d.host
  /\ \A o \in DocOrgs \ F : new.orgs[o] = d.orgs[o]

\* A process that has seen the file's latest content holds what was asked for, but for
\* refused changes; on top of it it lays what its command asks for, which until it is
\* written is all that it holds beside; and it writes nothing else.  Only the settings
\* panel saves twice.
HoldsTheAsked(p) ==
  /\ p.org # "none" => p.second = "none"
  /\ p.at \in {"ready", "reload"} /\ p.fresh =>
       whole = "whole" /\ Agree(p.mem, asked, edited, spilled \cup p.held)
  /\ p.at = "truncate" /\ p.fresh =>
       /\ whole = "whole"
       /\ Agree(p.mem, p.goal, edited \cup {p.org}, spilled \cup p.held)
       /\ Agree(p.mem, asked, edited, spilled \cup p.held \cup p.what)
  /\ p.at = "fill" => Agree(p.mem, p.goal, edited \cup {p.org}, spilled \cup p.held)

\* No process holds a document of a newer srm, nor has seen the one in the file.
KnowsNoNewer(p) ==
  /\ p.mem.schema <= CurrentSchemaVersion
  /\ p.fresh => disk.schema <= CurrentSchemaVersion

DocInv ==
  /\ DocTypeOK
  /\ \A e \in Editors : KnowsNoNewer(ed[e])
  /\ \/ unseen \/ cut
     \/ /\ whole = "whole" => Agree(disk, asked, edited, spilled)
        /\ \A e \in Editors : HoldsTheAsked(ed[e])

-----------------------------------------------------------------------------
\* What the forms do to an org and to its profile leaves them well-formed.
LEMMA OrgsAreOrgs ==
  ASSUME NEW r \in Orgs, NEW v \in {1, 2}
  PROVE  /\ r.profile \in Profile \cup {NoProfile}
         /\ [r EXCEPT !.app = v] \in Orgs /\ [r EXCEPT !.app = v].app = v
         /\ r = NoOrg <=> r.app = 0
<1> DEFINE Ps   == Profile \cup {NoProfile}
           Made == [app : {1, 2}, user : {"", "own"}, cap : {"", "org"}, profile : Ps]
<1>1. Orgs = Made \cup {NoOrg}
  BY DEF Orgs
<1>2. NoOrg.profile = NoProfile /\ NoOrg.app = 0
  BY DEF NoOrg
<1>3. [NoOrg EXCEPT !.app = v] \in Made /\ [NoOrg EXCEPT !.app = v].app = v
  BY DEF NoOrg
<1> HIDE DEF Ps
<1>4. ASSUME r \in Made
      PROVE  /\ r.profile \in Ps /\ r.app \in {1, 2}
             /\ [r EXCEPT !.app = v] \in Made /\ [r EXCEPT !.app = v].app = v
  BY <1>4
<1>5. CASE r = NoOrg
  BY <1>1, <1>2, <1>3, <1>5 DEF Ps
<1>6. CASE r \in Made
  <2>1. [r EXCEPT !.app = v] \in Orgs /\ [r EXCEPT !.app = v].app = v
    BY <1>1, <1>4, <1>6
  <2>2. r.profile \in Profile \cup {NoProfile}
    BY <1>4, <1>6 DEF Ps
  <2>3. r.app # 0
    <3>1. r.app \in {1, 2}
      BY <1>4, <1>6, Zenon
    <3> QED BY <3>1
  <2> QED BY <1>2, <2>1, <2>2, <2>3
<1> QED BY <1>1, <1>5, <1>6

LEMMA OverlayIsProfile ==
  ASSUME NEW r \in Profile \cup {NoProfile}, NEW v \in {1, 2}
  PROVE  Overlay(r, v) \in Profile
<1>1. r.manifest \in BOOLEAN
  <2>1. NoProfile.manifest \in BOOLEAN
    BY DEF NoProfile
  <2>2. r \in Profile => r.manifest \in BOOLEAN
    BY DEF Profile
  <2> QED BY <2>1, <2>2
<1> QED BY <1>1 DEF Overlay, Profile

\* The defaults and a process that is not there are well-formed.
LEMMA GoneIsState ==
  /\ Defaults \in Docs /\ Gone \in EditorStates
  /\ Gone.at = "off" /\ Gone.org = "none" /\ ~Gone.fresh /\ Gone.mem.schema <= CurrentSchemaVersion
  /\ Gone.held = {}
<1>1. NoOrg \in Orgs
  BY DEF Orgs, NoOrg
<1>2. Defaults \in Docs /\ Defaults.schema = 0
  BY <1>1 DEF Docs, Defaults, CurrentSchemaVersion
<1> QED BY <1>2 DEF Gone, EditorStates, CurrentSchemaVersion

\* A loaded document is of this srm's schema and otherwise what the file holds.
LEMMA LoadKeeps ==
  ASSUME NEW d \in Docs, NEW dry \in BOOLEAN
  PROVE  LET l == [Load(d) EXCEPT !.dryRun = @ \/ dry] IN
         /\ Load(d) \in Docs /\ l \in Docs
         /\ Load(d).schema <= CurrentSchemaVersion /\ l.schema <= CurrentSchemaVersion
         /\ \A g, E, H : Agree(d, g, E, H) => Agree(Load(d), g, E, H) /\ Agree(l, g, E, H)
<1>1. Load(d) \in Docs /\ Load(d).schema = CurrentSchemaVersion
  <2>1. CurrentSchemaVersion \in 0..CurrentSchemaVersion + 1
    BY DEF CurrentSchemaVersion
  <2> QED BY <2>1 DEF Load, Docs
<1> DEFINE l == [Load(d) EXCEPT !.dryRun = @ \/ dry]
<1>2. l \in Docs
  <2>1. (Load(d).dryRun \/ dry) \in BOOLEAN OBVIOUS
  <2> QED BY <1>1, <2>1 DEF Docs
<1>3. l.schema = Load(d).schema
  BY <1>1 DEF Docs
<1>4. /\ Load(d).mode = d.mode /\ Load(d).cap = d.cap /\ Load(d).perOrgUsers = d.perOrgUsers
      /\ Load(d).host = d.host /\ Load(d).orgs = d.orgs
  BY DEF Load, Docs
<1>5. /\ l.mode = d.mode /\ l.cap = d.cap /\ l.perOrgUsers = d.perOrgUsers
      /\ l.host = d.host /\ l.orgs = d.orgs
  BY <1>1, <1>4 DEF Docs
<1> HIDE DEF l
<1>6. \A g, E, H : Agree(d, g, E, H) => Agree(Load(d), g, E, H) /\ Agree(l, g, E, H)
  BY <1>4, <1>5 DEF Agree
<1>7. Load(d).schema <= CurrentSchemaVersion /\ l.schema <= CurrentSchemaVersion
  BY <1>1, <1>3 DEF CurrentSchemaVersion
<1> QED BY <1>1, <1>2, <1>6, <1>7 DEF l

LEMMA OneEditor ==
  ASSUME DocInv, NEW e \in Editors
  PROVE  /\ ed[e] \in EditorStates /\ ed[e].mem \in Docs /\ ed[e].goal \in Docs
         /\ ed[e].fresh \in BOOLEAN /\ ed[e].what \subseteq Fields /\ ed[e].held \subseteq Fields
         /\ KnowsNoNewer(ed[e]) /\ (unseen \/ cut \/ HoldsTheAsked(ed[e]))
BY DEF DocInv, DocTypeOK, EditorStates

LEMMA DocInvInit == DocInit => DocInv
<1> SUFFICES ASSUME DocInit PROVE DocInv
  OBVIOUS
<1>1. DocTypeOK
  <2>1. disk \in Docs /\ asked \in Docs
    BY DocumentsAssumption DEF DocInit
  <2>2. ed \in [Editors -> EditorStates]
    BY GoneIsState DEF DocInit
  <2>3. saves \in 0..MaxSaves /\ strokes \in 0..MaxStrokes
    BY DocConstants DEF DocInit
  <2> QED BY <2>1, <2>2, <2>3 DEF DocInit, DocTypeOK
<1>2. \A e \in Editors : KnowsNoNewer(ed[e]) /\ HoldsTheAsked(ed[e])
  BY GoneIsState DEF DocInit, KnowsNoNewer, HoldsTheAsked
<1>3. Agree(disk, asked, edited, spilled)
  BY DEF DocInit, Agree
<1> QED BY <1>1, <1>2, <1>3 DEF DocInv

-----------------------------------------------------------------------------
\* A step of one process that writes nothing keeps the invariant when it leaves that
\* process in a state that does.
LEMMA OthersHold ==
  ASSUME DocInv, NEW e \in Editors, NEW p \in EditorStates, ed' = [ed EXCEPT ![e] = p],
         UNCHANGED <<disk, whole, asked, edited, spilled, unseen>>, cut' \in BOOLEAN, cut => cut',
         saves' \in 0..MaxSaves, strokes' \in 0..MaxStrokes,
         KnowsNoNewer(p), unseen \/ cut' \/ HoldsTheAsked(p)
  PROVE  DocInv'
<1>1. DocTypeOK'
  BY DEF DocInv, DocTypeOK
<1>2. \A q \in Editors : ed'[q] = IF q = e THEN p ELSE ed[q]
  BY DEF DocInv, DocTypeOK
<1>3. ASSUME NEW q \in Editors PROVE KnowsNoNewer(ed[q])'
  BY <1>2 DEF DocInv, KnowsNoNewer
<1>4. ASSUME ~unseen, ~cut', NEW q \in Editors PROVE HoldsTheAsked(ed[q])'
  BY <1>2, <1>4 DEF DocInv, HoldsTheAsked
<1> QED BY <1>1, <1>3, <1>4 DEF DocInv

\* What is changed in some fields alone agrees with what it agreed with in the others.
LEMMA OnlyInAgrees ==
  ASSUME NEW d, NEW new, NEW F, OnlyIn(d, new, F), NEW g, NEW E, NEW H, Agree(d, g, E, H)
  PROVE  Agree(new, g, E, H \cup F)
BY DEF OnlyIn, Agree

\* Agreeing but for some fields is agreeing but for more.
LEMMA AgreeMore ==
  ASSUME NEW d, NEW g, NEW E, NEW H, Agree(d, g, E, H), NEW E2, NEW H2,
         E \subseteq E2, H \subseteq H2
  PROVE  Agree(d, g, E2, H2)
BY DEF Agree

\* A command keeps the invariant when what it asks for is what it changes.
LEMMA SavesHold ==
  ASSUME DocInv, NEW e \in Editors, NEW doc \in Docs, NEW goal \in Docs, NEW what \in SUBSET Fields,
         NEW second \in {"none", "on", "off"}, NEW org \in DocOrgs \cup {"none"},
         Saves(e, doc, goal, what, second, org), doc.schema = ed[e].mem.schema,
         org # "none" => second = "none", OnlyIn(ed[e].mem, doc, what),
         \A H : Agree(ed[e].mem, asked, edited, H) => Agree(doc, goal, edited \cup {org}, H)
  PROVE  DocInv'
<1> DEFINE p == [ed[e] EXCEPT !.at = "truncate", !.mem = doc, !.goal = goal, !.what = what,
                              !.second = second, !.org = org]
<1>1. p \in EditorStates
  BY OneEditor DEF EditorStates
<1>2. ed' = [ed EXCEPT ![e] = p]
  BY DEF Saves, DocInv, DocTypeOK
<1>3. /\ p.at = "truncate" /\ p.mem = doc /\ p.goal = goal /\ p.org = org /\ p.what = what
      /\ p.fresh = ed[e].fresh /\ p.second = second /\ p.held = ed[e].held
  BY OneEditor DEF EditorStates
<1>4. KnowsNoNewer(p)
  BY <1>3, OneEditor DEF KnowsNoNewer
<1>5. unseen \/ cut \/ HoldsTheAsked(p)
  <2> SUFFICES ASSUME ~unseen, ~cut, p.fresh
               PROVE  /\ whole = "whole"
                      /\ Agree(doc, goal, edited \cup {org}, spilled \cup ed[e].held)
                      /\ Agree(doc, asked, edited, spilled \cup ed[e].held \cup what)
    BY <1>3 DEF HoldsTheAsked
  <2>1. whole = "whole" /\ Agree(ed[e].mem, asked, edited, spilled \cup ed[e].held)
    BY <1>3, OneEditor DEF HoldsTheAsked, Saves, Doing
  <2>2. Agree(doc, asked, edited, (spilled \cup ed[e].held) \cup what)
    BY <2>1, OnlyInAgrees
  <2> QED BY <2>1, <2>2
<1>6. saves' \in 0..MaxSaves /\ strokes' \in 0..MaxStrokes /\ cut' \in BOOLEAN
  BY DocConstants DEF Saves, DocInv, DocTypeOK
<1> HIDE DEF p
<1> QED BY <1>1, <1>2, <1>4, <1>5, <1>6, OthersHold DEF Saves

\* Setting the policy or the limits of documents that agree keeps them agreeing.
LEMMA PolicyAgrees ==
  ASSUME NEW d \in Docs, NEW on \in BOOLEAN
  PROVE  /\ WithPolicy(d, on) \in Docs /\ WithPolicy(d, on).schema = d.schema
         /\ OnlyIn(d, WithPolicy(d, on), {"policy"})
         /\ \A g \in Docs : \A E, H :
              Agree(d, g, E, H) => Agree(WithPolicy(d, on), WithPolicy(g, on), E, H)
BY DEF WithPolicy, Docs, Agree, OnlyIn

LEMMA LimitsAgree ==
  ASSUME NEW d \in Docs, NEW m \in {"", "auto"}, NEW c \in {"", "host"}
  PROVE  /\ WithLimits(d, m, c) \in Docs /\ WithLimits(d, m, c).schema = d.schema
         /\ OnlyIn(d, WithLimits(d, m, c), {"limits"})
         /\ \A g \in Docs : \A E, H :
              Agree(d, g, E, H) => Agree(WithLimits(d, m, c), WithLimits(g, m, c), E, H)
BY DEF WithLimits, Docs, Agree, OnlyIn

LEMMA ProfileIsDoc ==
  ASSUME NEW d \in Docs, NEW o \in DocOrgs, NEW pr \in Profile \cup {NoProfile}
  PROVE  /\ WithProfile(d, o, pr) \in Docs /\ WithProfile(d, o, pr).schema = d.schema
         /\ WithProfile(d, o, pr).mode = d.mode /\ WithProfile(d, o, pr).cap = d.cap
         /\ WithProfile(d, o, pr).perOrgUsers = d.perOrgUsers
         /\ WithProfile(d, o, pr).host = d.host
         /\ \A q \in DocOrgs \ {o} : WithProfile(d, o, pr).orgs[q] = d.orgs[q]
<1>1. d.orgs \in [DocOrgs -> Orgs]
  BY DEF Docs
<1>2. CASE o \in Known(d)
  <2>1. [d.orgs[o] EXCEPT !.profile = pr] \in Orgs
    BY <1>1, <1>2 DEF Known, Orgs, NoOrg
  <2>2. [d.orgs EXCEPT ![o].profile = pr] \in [DocOrgs -> Orgs]
    BY <1>1, <2>1
  <2>3. WithProfile(d, o, pr) = [d EXCEPT !.orgs = [d.orgs EXCEPT ![o].profile = pr]]
    BY <1>2 DEF WithProfile
  <2> QED BY <1>1, <1>2, <2>2, <2>3 DEF Docs
<1>3. CASE o \notin Known(d)
  BY <1>3 DEF WithProfile
<1> QED BY <1>2, <1>3

LEMMA ProfileOf ==
  ASSUME NEW d \in Docs, NEW o \in DocOrgs, NEW pr
  PROVE  WithProfile(d, o, pr).orgs[o] = IF o \in Known(d) THEN [d.orgs[o] EXCEPT !.profile = pr]
                                                           ELSE d.orgs[o]
BY DEF WithProfile, Docs

\* Orgs in documents that agree are known in both or in neither.
LEMMA AgreeKnown ==
  ASSUME NEW d \in Docs, NEW g \in Docs, NEW E, NEW H, Agree(d, g, E, H), NEW o \in DocOrgs \ H
  PROVE  o \in Known(d) <=> o \in Known(g)
<1>1. d.orgs[o] \in Orgs /\ g.orgs[o] \in Orgs /\ d.orgs[o].app = g.orgs[o].app
  BY DEF Docs, Agree
<1>2. ASSUME NEW r \in Orgs PROVE r = NoOrg <=> r.app = 0
  BY OrgsAreOrgs
<1> QED BY <1>1, <1>2 DEF Known

LEMMA ProfilesAgree ==
  ASSUME NEW d \in Docs, NEW g \in Docs, NEW E, NEW H, Agree(d, g, E, H), NEW o \in DocOrgs,
         NEW pd \in Profile \cup {NoProfile}, NEW pg \in Profile \cup {NoProfile},
         o \notin E \cup H => pd = pg
  PROVE  Agree(WithProfile(d, o, pd), WithProfile(g, o, pg), E, H)
<1> DEFINE d2 == WithProfile(d, o, pd)
           g2 == WithProfile(g, o, pg)
<1>1. o \notin H => (o \in Known(d) <=> o \in Known(g))
  BY AgreeKnown
<1>2. /\ d2.orgs[o] = IF o \in Known(d) THEN [d.orgs[o] EXCEPT !.profile = pd] ELSE d.orgs[o]
      /\ \A q \in DocOrgs \ {o} : d2.orgs[q] = d.orgs[q]
      /\ d2.mode = d.mode /\ d2.cap = d.cap /\ d2.perOrgUsers = d.perOrgUsers /\ d2.host = d.host
  BY ProfileIsDoc, ProfileOf
<1>3. /\ g2.orgs[o] = IF o \in Known(g) THEN [g.orgs[o] EXCEPT !.profile = pg] ELSE g.orgs[o]
      /\ \A q \in DocOrgs \ {o} : g2.orgs[q] = g.orgs[q]
      /\ g2.mode = g.mode /\ g2.cap = g.cap /\ g2.perOrgUsers = g.perOrgUsers /\ g2.host = g.host
  BY ProfileIsDoc, ProfileOf
<1>4. d.orgs[o] \in Orgs /\ g.orgs[o] \in Orgs
  BY DEF Docs
<1> HIDE DEF d2, g2
<1>5. o \notin H => d2.orgs[o].app = g2.orgs[o].app /\ (o \notin E => d2.orgs[o] = g2.orgs[o])
  <2> SUFFICES ASSUME o \notin H
               PROVE  d2.orgs[o].app = g2.orgs[o].app /\ (o \notin E => d2.orgs[o] = g2.orgs[o])
    OBVIOUS
  <2>1. d.orgs[o].app = g.orgs[o].app /\ (o \notin E => d.orgs[o] = g.orgs[o])
    BY DEF Agree
  <2>2. \A r \in Orgs : \A pr : [r EXCEPT !.profile = pr].app = r.app
    BY DEF Orgs, NoOrg
  <2> QED BY <1>1, <1>2, <1>3, <1>4, <2>1, <2>2
<1>6. \A q \in DocOrgs \ ({o} \cup H) :
        d2.orgs[q].app = g2.orgs[q].app /\ (q \notin E => d2.orgs[q] = g2.orgs[q])
  BY <1>2, <1>3 DEF Agree
<1>7. /\ "limits" \in H \/ (d2.mode = g2.mode /\ d2.cap = g2.cap)
      /\ "policy" \in H \/ d2.perOrgUsers = g2.perOrgUsers
      /\ "host" \in H \/ d2.host = g2.host
  BY <1>2, <1>3 DEF Agree
<1>8. Agree(d2, g2, E, H)
  <2>1. ASSUME NEW q \in DocOrgs \ H
        PROVE  d2.orgs[q].app = g2.orgs[q].app /\ (q \notin E => d2.orgs[q] = g2.orgs[q])
    <3>1. CASE q = o
      BY <1>5, <2>1, <3>1
    <3>2. CASE q # o
      BY <1>6, <2>1, <3>2
    <3> QED BY <3>1, <3>2
  <2> QED BY <1>7, <2>1 DEF Agree
<1> QED BY <1>8 DEF d2, g2

-----------------------------------------------------------------------------
\* Every command: what it changes in what the process holds it changes in what was asked.
LEMMA CommandsHold ==
  ASSUME DocInv, NEW e \in Editors
  PROVE  /\ \A on \in BOOLEAN : ApplyHostPolicy(e, on) => DocInv'
         /\ \A m \in {"", "auto", "typo"}, c \in {"", "host"}, on \in BOOLEAN :
              SavePanel(e, m, c, on) => DocInv'
         /\ \A S \in SUBSET Pkgs : AddManifest(e, S) \/ RemoveManifest(e, S) => DocInv'
         /\ \A o \in DocOrgs, v \in {1, 2} : UpsertProfile(e, o, v) => DocInv'
         /\ \A o \in DocOrgs : RemoveProfile(e, o) => DocInv'
         /\ \A o \in DocOrgs, v \in {1, 2} : SaveOrg(e, o, v) => DocInv'
<1> DEFINE mem == ed[e].mem
           E   == edited \cup {"none"}
<1>1. mem \in Docs /\ asked \in Docs
  BY OneEditor DEF DocInv, DocTypeOK
<1>2. ASSUME NEW H, Agree(mem, asked, edited, H), NEW F, edited \subseteq F
      PROVE  Agree(mem, asked, F, H)
  BY <1>2 DEF Agree
<1> HIDE DEF mem
<1>3. ASSUME NEW on \in BOOLEAN, ApplyHostPolicy(e, on) PROVE DocInv'
  <2>1. Saves(e, WithPolicy(mem, on), WithPolicy(asked, on), {"policy"}, "none", "none")
    BY <1>3 DEF ApplyHostPolicy, Command, mem
  <2>2. ASSUME NEW H, Agree(mem, asked, edited, H)
        PROVE  Agree(WithPolicy(mem, on), WithPolicy(asked, on), E, H)
    <3>1. Agree(mem, asked, E, H)
      BY <1>2, <2>2
    <3> QED BY <1>1, <3>1, PolicyAgrees
  <2>3. {"policy"} \in SUBSET Fields
    BY DEF Fields
  <2> QED BY <1>1, <2>1, <2>2, <2>3, PolicyAgrees, SavesHold DEF mem
<1>4. ASSUME NEW m \in {"", "auto", "typo"}, NEW c \in {"", "host"}, NEW on \in BOOLEAN,
             SavePanel(e, m, c, on)
      PROVE  DocInv'
  <2>1. /\ m \in {"", "auto"}
        /\ Saves(e, WithLimits(mem, m, c), WithLimits(asked, m, c), {"limits"},
                 IF on THEN "on" ELSE "off", "none")
    BY <1>4 DEF SavePanel, mem
  <2>2. ASSUME NEW H, Agree(mem, asked, edited, H)
        PROVE  Agree(WithLimits(mem, m, c), WithLimits(asked, m, c), E, H)
    <3>1. Agree(mem, asked, E, H)
      BY <1>2, <2>2
    <3> QED BY <1>1, <2>1, <3>1, LimitsAgree
  <2>3. /\ WithLimits(mem, m, c) \in Docs /\ WithLimits(asked, m, c) \in Docs
        /\ WithLimits(mem, m, c).schema = mem.schema /\ OnlyIn(mem, WithLimits(mem, m, c), {"limits"})
    BY <1>1, <2>1, LimitsAgree
  <2>4. (IF on THEN "on" ELSE "off") \in {"none", "on", "off"} /\ {"limits"} \in SUBSET Fields
    BY DEF Fields
  <2> QED BY <2>1, <2>2, <2>3, <2>4, SavesHold DEF mem
<1>5. ASSUME NEW S \in SUBSET Pkgs, AddManifest(e, S) \/ RemoveManifest(e, S) PROVE DocInv'
  <2> DEFINE With(d)    == WithHost(d, d.host \cup S)
             Without(d) == WithHost(d, d.host \ S)
  <2>1. ASSUME NEW d \in Docs
        PROVE  /\ With(d) \in Docs /\ With(d).schema = d.schema
               /\ Without(d) \in Docs /\ Without(d).schema = d.schema
               /\ OnlyIn(d, With(d), {"host"}) /\ OnlyIn(d, Without(d), {"host"})
    BY DEF WithHost, Docs, OnlyIn
  <2>2. ASSUME NEW H, Agree(mem, asked, edited, H)
        PROVE  Agree(With(mem), With(asked), E, H) /\ Agree(Without(mem), Without(asked), E, H)
    <3>1. Agree(mem, asked, E, H)
      BY <1>2, <2>2
    <3> QED BY <1>1, <3>1 DEF Agree, WithHost, Docs
  <2>3. {"host"} \in SUBSET Fields
    BY DEF Fields
  <2>4. \/ Saves(e, With(mem), With(asked), {"host"}, "none", "none")
        \/ Saves(e, Without(mem), Without(asked), {"host"}, "none", "none")
    BY <1>5 DEF AddManifest, RemoveManifest, Command, mem
  <2> HIDE DEF With, Without
  <2> QED BY <1>1, <2>1, <2>2, <2>3, <2>4, SavesHold DEF mem
<1>6. ASSUME NEW o \in DocOrgs, NEW v \in {1, 2}, UpsertProfile(e, o, v) PROVE DocInv'
  <2> DEFINE pm == Overlay(mem.orgs[o].profile, v)
             pa == [labels |-> v, manifest |-> asked.orgs[o].profile.manifest]
  <2>1. o \in Known(mem)
        /\ Saves(e, WithProfile(mem, o, pm), WithProfile(asked, o, pa), {o}, "none", "none")
    BY <1>6 DEF UpsertProfile, Command, mem
  <2>2. ASSUME NEW d \in Docs
        PROVE  d.orgs[o].profile \in Profile \cup {NoProfile}
    <3>1. d.orgs[o] \in Orgs
      BY DEF Docs
    <3> QED BY <3>1, OrgsAreOrgs
  <2>3. pm \in Profile /\ pa \in Profile
    <3>1. pa = Overlay(asked.orgs[o].profile, v)
      BY DEF Overlay
    <3> QED BY <1>1, <2>2, <3>1, OverlayIsProfile
  <2>4. mem.orgs[o].profile = asked.orgs[o].profile => pm = pa
    BY DEF Overlay
  <2> HIDE DEF pm, pa
  <2>5. ASSUME NEW H, Agree(mem, asked, edited, H)
        PROVE  Agree(WithProfile(mem, o, pm), WithProfile(asked, o, pa), E, H)
    <3>1. o \notin E \cup H => pm = pa
      BY <2>4, <2>5 DEF Agree
    <3>2. Agree(mem, asked, E, H)
      BY <1>2, <2>5
    <3> QED BY <1>1, <2>3, <3>1, <3>2, ProfilesAgree
  <2>6. /\ WithProfile(mem, o, pm) \in Docs /\ WithProfile(asked, o, pa) \in Docs
        /\ WithProfile(mem, o, pm).schema = mem.schema /\ {o} \in SUBSET Fields
        /\ OnlyIn(mem, WithProfile(mem, o, pm), {o})
    BY <1>1, <2>3, ProfileIsDoc DEF OnlyIn, Fields
  <2> QED BY <2>1, <2>5, <2>6, SavesHold DEF mem
<1>7. ASSUME NEW o \in DocOrgs, RemoveProfile(e, o) PROVE DocInv'
  <2>1. Saves(e, WithProfile(mem, o, NoProfile), WithProfile(asked, o, NoProfile), {o}, "none", "none")
    BY <1>7 DEF RemoveProfile, Command, mem
  <2>2. ASSUME NEW H, Agree(mem, asked, edited, H)
        PROVE  Agree(WithProfile(mem, o, NoProfile), WithProfile(asked, o, NoProfile), E, H)
    <3>1. Agree(mem, asked, E, H)
      BY <1>2, <2>2
    <3> QED BY <1>1, <3>1, ProfilesAgree
  <2>3. /\ WithProfile(mem, o, NoProfile) \in Docs /\ WithProfile(asked, o, NoProfile) \in Docs
        /\ WithProfile(mem, o, NoProfile).schema = mem.schema /\ {o} \in SUBSET Fields
        /\ OnlyIn(mem, WithProfile(mem, o, NoProfile), {o})
    BY <1>1, ProfileIsDoc DEF OnlyIn, Fields
  <2> QED BY <2>1, <2>2, <2>3, SavesHold DEF mem
<1>8. ASSUME NEW o \in DocOrgs, NEW v \in {1, 2}, SaveOrg(e, o, v) PROVE DocInv'
  <2> DEFINE new  == UpsertOrg(mem, o, OrgOfForm(v))
             goal == [asked EXCEPT !.orgs[o].app = v]
  <2>1. Saves(e, new, goal, {o}, "none", o)
    BY <1>8 DEF SaveOrg, mem
  <2>2. OrgOfForm(v) \in Orgs /\ OrgOfForm(v).app = v
    BY DEF OrgOfForm, NoOrg, Orgs
  <2>3. /\ new \in Docs /\ new.schema = mem.schema /\ new.mode = mem.mode /\ new.cap = mem.cap
        /\ new.perOrgUsers = mem.perOrgUsers /\ new.host = mem.host
        /\ new.orgs = [mem.orgs EXCEPT ![o] = OrgOfForm(v)]
    BY <1>1, <2>2 DEF UpsertOrg, Docs
  <2>4. /\ goal \in Docs /\ goal.mode = asked.mode /\ goal.cap = asked.cap
        /\ goal.perOrgUsers = asked.perOrgUsers /\ goal.host = asked.host
        /\ goal.orgs[o].app = v /\ \A q \in DocOrgs \ {o} : goal.orgs[q] = asked.orgs[q]
    <3>1. asked.orgs \in [DocOrgs -> Orgs]
      BY <1>1 DEF Docs
    <3>2. [asked.orgs[o] EXCEPT !.app = v] \in Orgs /\ [asked.orgs[o] EXCEPT !.app = v].app = v
      <4>1. asked.orgs[o] \in Orgs
        BY <3>1
      <4> QED BY <4>1, OrgsAreOrgs, Zenon
    <3>3. [asked.orgs EXCEPT ![o].app = v] \in [DocOrgs -> Orgs]
      BY <3>1, <3>2
    <3>4. goal = [asked EXCEPT !.orgs = [asked.orgs EXCEPT ![o].app = v]]
      OBVIOUS
    <3> QED BY <1>1, <3>1, <3>2, <3>3, <3>4 DEF Docs
  <2> HIDE DEF new, goal
  <2>5. mem.orgs \in [DocOrgs -> Orgs]
    BY <1>1 DEF Docs
  <2>6. ASSUME NEW H, Agree(mem, asked, edited, H)
        PROVE  Agree(new, goal, edited \cup {o}, H)
    BY <2>2, <2>3, <2>4, <2>5, <2>6 DEF Agree
  <2>7. OnlyIn(mem, new, {o}) /\ {o} \in SUBSET Fields
    BY <2>3, <2>5 DEF OnlyIn, Fields
  <2> QED BY <2>1, <2>3, <2>4, <2>6, <2>7, SavesHold DEF mem
<1> QED BY <1>3, <1>4, <1>5, <1>6, <1>7, <1>8

\* A process that reads the file, ends or is killed, or whose save fails.
LEMMA ComingsHold ==
  ASSUME DocInv, NEW e \in Editors
  PROVE  /\ \A dry \in BOOLEAN : BuildManager(e, dry) => DocInv'
         /\ ReloadDoc(e) \/ Quit(e) \/ KillEditor(e) \/ SaveFails(e) => DocInv'
<1>1. InFile \in Docs /\ (whole = "whole" => InFile = disk)
  BY GoneIsState DEF InFile, DocInv, DocTypeOK
<1>2. Readable => InFile.schema <= CurrentSchemaVersion
  BY DEF Readable, Loads, Migrates
<1>3. saves \in 0..MaxSaves /\ strokes \in 0..MaxStrokes /\ cut \in BOOLEAN
  BY DEF DocInv, DocTypeOK
<1>4. unseen \/ cut \/ (whole = "whole" => Agree(disk, asked, edited, spilled))
  BY DEF DocInv
<1>5. ASSUME NEW dry \in BOOLEAN, BuildManager(e, dry) PROVE DocInv'
  <2> DEFINE l == [Load(InFile) EXCEPT !.dryRun = @ \/ dry]
             p == [Gone EXCEPT !.at = "ready", !.fresh = whole = "whole", !.mem = l]
  <2>1. /\ l \in Docs /\ l.schema <= CurrentSchemaVersion
        /\ \A g, E, H : Agree(InFile, g, E, H) => Agree(l, g, E, H)
    BY <1>1, LoadKeeps
  <2> HIDE DEF l
  <2>2. /\ p \in EditorStates /\ p.at = "ready" /\ p.org = "none" /\ p.mem = l /\ p.held = {}
        /\ p.fresh <=> whole = "whole"
    <3>1. (whole = "whole") \in BOOLEAN
      OBVIOUS
    <3> QED BY <2>1, <3>1, GoneIsState DEF EditorStates
  <2>3. ed' = [ed EXCEPT ![e] = p] /\ UNCHANGED <<disk, whole, asked, edited, spilled, unseen, cut, saves, strokes>>
    BY <1>5 DEF BuildManager, l
  <2> HIDE DEF p
  <2>4. KnowsNoNewer(p)
    BY <1>1, <1>2, <1>5, <2>1, <2>2 DEF BuildManager, KnowsNoNewer
  <2>5. unseen \/ cut \/ HoldsTheAsked(p)
    BY <1>1, <1>4, <2>1, <2>2 DEF HoldsTheAsked
  <2> QED BY <1>3, <2>2, <2>3, <2>4, <2>5, OthersHold
<1>6. ASSUME ReloadDoc(e) PROVE DocInv'
  <2>1. /\ ed[e].at = "reload"
        /\ UNCHANGED <<disk, whole, asked, edited, spilled, unseen, cut, saves, strokes>>
    BY <1>6 DEF ReloadDoc, Doing
  <2>2. CASE Readable
    <3> DEFINE p == [ed[e] EXCEPT !.at = "ready", !.mem = Load(InFile), !.held = {},
                                  !.fresh = whole = "whole"]
    <3>1. /\ Load(InFile) \in Docs /\ Load(InFile).schema <= CurrentSchemaVersion
          /\ \A g, E, H : Agree(InFile, g, E, H) => Agree(Load(InFile), g, E, H)
      BY <1>1, LoadKeeps
    <3>2. /\ p \in EditorStates /\ p.at = "ready" /\ p.mem = Load(InFile)
          /\ p.org = ed[e].org /\ p.second = ed[e].second /\ p.held = {}
          /\ p.fresh <=> whole = "whole"
      <4>1. (whole = "whole") \in BOOLEAN
        OBVIOUS
      <4> QED BY <3>1, <4>1, OneEditor DEF EditorStates
    <3>3. ed' = [ed EXCEPT ![e] = p]
      BY <1>6, <2>2 DEF ReloadDoc, DocInv, DocTypeOK
    <3> HIDE DEF p
    <3>4. KnowsNoNewer(p)
      BY <1>1, <1>2, <2>2, <3>1, <3>2 DEF KnowsNoNewer
    <3>5. unseen \/ cut \/ HoldsTheAsked(p)
      <4>1. p.org # "none" => p.second = "none" \/ unseen \/ cut
        BY <3>2, OneEditor DEF HoldsTheAsked
      <4>2. spilled \cup p.held = spilled
        BY <3>2
      <4>3. unseen \/ cut \/ (whole = "whole" => Agree(p.mem, asked, edited, spilled \cup p.held))
        BY <1>1, <1>4, <3>1, <3>2, <4>2
      <4> QED BY <3>2, <4>1, <4>3 DEF HoldsTheAsked
    <3> QED BY <1>3, <2>1, <3>2, <3>3, <3>4, <3>5, OthersHold
  <2>3. CASE ~Readable
    <3> DEFINE p == [ed[e] EXCEPT !.at = "ready"]
    <3>1. p \in EditorStates /\ p.at = "ready" /\ p.mem = ed[e].mem /\ p.fresh = ed[e].fresh
          /\ p.org = ed[e].org /\ p.second = ed[e].second /\ p.held = ed[e].held
      BY OneEditor DEF EditorStates
    <3>2. ed' = [ed EXCEPT ![e] = p]
      BY <1>6, <2>3 DEF ReloadDoc, DocInv, DocTypeOK
    <3> HIDE DEF p
    <3>3. KnowsNoNewer(p) /\ (unseen \/ cut \/ HoldsTheAsked(p))
      BY <2>1, <3>1, OneEditor DEF KnowsNoNewer, HoldsTheAsked
    <3> QED BY <1>3, <2>1, <3>1, <3>2, <3>3, OthersHold
  <2> QED BY <2>2, <2>3
<1>7. KnowsNoNewer(Gone) /\ HoldsTheAsked(Gone)
  BY GoneIsState DEF KnowsNoNewer, HoldsTheAsked
<1>8. ASSUME Quit(e) PROVE DocInv'
  BY <1>3, <1>7, <1>8, GoneIsState, OthersHold DEF Quit
<1>9. ASSUME KillEditor(e) PROVE DocInv'
  <2>1. (cut \/ Doing(e, "fill")) \in BOOLEAN
    OBVIOUS
  <2>2. /\ ed' = [ed EXCEPT ![e] = Gone] /\ cut' \in BOOLEAN /\ (cut => cut')
        /\ UNCHANGED <<disk, whole, asked, edited, spilled, unseen, saves>> /\ strokes' \in 0..MaxStrokes
    BY <1>3, <1>9, <2>1, DocConstants DEF KillEditor
  <2> QED BY <1>3, <1>7, <2>2, GoneIsState, OthersHold
<1>10. ASSUME SaveFails(e) PROVE DocInv'
  <2> DEFINE kept == [ed[e] EXCEPT !.at = "ready", !.held = @ \cup ed[e].what, !.what = {},
                                   !.second = "none", !.org = "none"]
             p    == IF e # TuiEditor THEN Gone ELSE kept
  <2>1. /\ ed[e].at = "truncate" \/ (ed[e].at = "fill" /\ cut')
        /\ cut' \in BOOLEAN /\ (cut => cut') /\ strokes' \in 0..MaxStrokes
        /\ UNCHANGED <<disk, whole, asked, edited, spilled, unseen, saves>>
    <3>1. strokes' \in 0..MaxStrokes
      BY <1>3, <1>10, DocConstants DEF SaveFails
    <3>2. cut' = (cut \/ ed[e].at = "fill") /\ ed[e].at \in {"truncate", "fill"}
      BY <1>10 DEF SaveFails, Doing
    <3>3. UNCHANGED <<disk, whole, asked, edited, spilled, unseen, saves>>
      BY <1>10 DEF SaveFails
    <3> QED BY <1>3, <3>1, <3>2, <3>3
  <2>2. ed' = [ed EXCEPT ![e] = p]
    BY <1>10 DEF SaveFails
  <2>3. /\ kept \in EditorStates /\ kept.at = "ready" /\ kept.mem = ed[e].mem
        /\ kept.fresh = ed[e].fresh /\ kept.org = "none"
        /\ kept.held = ed[e].held \cup ed[e].what
    BY OneEditor DEF EditorStates
  <2> HIDE DEF kept
  <2>4. KnowsNoNewer(kept)
    BY <2>3, OneEditor DEF KnowsNoNewer
  <2>5. unseen \/ cut' \/ HoldsTheAsked(kept)
    <3> SUFFICES ASSUME ~unseen, ~cut', kept.fresh
                 PROVE  /\ whole = "whole"
                        /\ Agree(ed[e].mem, asked, edited, spilled \cup (ed[e].held \cup ed[e].what))
      BY <2>3 DEF HoldsTheAsked
    <3>1. ed[e].at = "truncate" /\ ed[e].fresh /\ HoldsTheAsked(ed[e])
      BY <2>1, <2>3, OneEditor
    <3>2. /\ whole = "whole"
          /\ Agree(ed[e].mem, asked, edited, spilled \cup ed[e].held \cup ed[e].what)
      BY <3>1 DEF HoldsTheAsked
    <3>3. spilled \cup ed[e].held \cup ed[e].what = spilled \cup (ed[e].held \cup ed[e].what)
      OBVIOUS
    <3> QED BY <3>2, <3>3
  <2>6. p \in EditorStates /\ KnowsNoNewer(p) /\ (unseen \/ cut' \/ HoldsTheAsked(p))
    BY <1>7, <2>3, <2>4, <2>5, GoneIsState
  <2> HIDE DEF p
  <2> QED BY <1>3, <2>1, <2>2, <2>6, OthersHold
<1> QED BY <1>5, <1>6, <1>8, <1>9, <1>10

\* What a write does to the other processes: they have not seen it.
LEMMA OthersLoseSight ==
  ASSUME DocInv, NEW q \in Editors
  PROVE  LET blind == [ed[q] EXCEPT !.fresh = FALSE]
             late  == [ed[q] EXCEPT !.fresh = FALSE, !.alone = FALSE] IN
         /\ blind \in EditorStates /\ ~blind.fresh /\ blind.at = ed[q].at /\ blind.mem = ed[q].mem
         /\ blind.goal = ed[q].goal /\ blind.org = ed[q].org /\ blind.second = ed[q].second
         /\ blind.held = ed[q].held
         /\ late \in EditorStates /\ ~late.fresh /\ late.at = ed[q].at /\ late.mem = ed[q].mem
         /\ late.goal = ed[q].goal /\ late.org = ed[q].org /\ late.second = ed[q].second
         /\ late.held = ed[q].held
BY OneEditor DEF EditorStates

\* Truncating the file, which only a process that has seen it does without a trace.
LEMMA TruncateHolds ==
  ASSUME DocInv, NEW e \in Editors, Truncate(e)
  PROVE  DocInv'
<1> DEFINE p == [ed[e] EXCEPT !.at = "fill", !.alone = TRUE]
<1>1. /\ p \in EditorStates /\ p.at = "fill" /\ p.mem = ed[e].mem /\ p.goal = ed[e].goal
      /\ p.org = ed[e].org /\ p.second = ed[e].second /\ p.fresh = ed[e].fresh
      /\ p.held = ed[e].held
  BY OneEditor DEF EditorStates
<1>2. \A q \in Editors : ed'[q] = IF q = e THEN p ELSE [ed[q] EXCEPT !.fresh = FALSE]
  BY DEF Truncate
<1>3. /\ whole' = "empty" /\ unseen' \in BOOLEAN /\ (~unseen' => ~unseen /\ ed[e].fresh)
      /\ ed[e].at = "truncate" /\ UNCHANGED <<disk, asked, edited, spilled, cut, saves, strokes>>
  <2>1. unseen \in BOOLEAN /\ ed[e].fresh \in BOOLEAN
    BY OneEditor DEF DocInv, DocTypeOK
  <2> QED BY <2>1 DEF Truncate, Doing
<1> HIDE DEF p
<1>4. ed' \in [Editors -> EditorStates]
  <2>1. \A q \in Editors : ed'[q] \in EditorStates
    BY <1>1, <1>2, OthersLoseSight
  <2>2. ed' = [q \in Editors |-> ed'[q]]
    BY DEF Truncate
  <2> QED BY <2>1, <2>2
<1>5. DocTypeOK'
  BY <1>3, <1>4 DEF DocInv, DocTypeOK
<1>6. ASSUME NEW q \in Editors PROVE KnowsNoNewer(ed[q])'
  <2>1. /\ KnowsNoNewer(ed[q]) /\ disk' = disk
        /\ ed'[q].mem = ed[q].mem /\ (ed'[q].fresh => ed[q].fresh)
    BY <1>1, <1>2, <1>3, OthersLoseSight, OneEditor
  <2> QED BY <2>1 DEF KnowsNoNewer
<1>7. ASSUME ~unseen', ~cut', NEW q \in Editors PROVE HoldsTheAsked(ed[q])'
  <2>1. CASE q = e
    BY <1>1, <1>2, <1>3, <1>7, <2>1, OneEditor DEF HoldsTheAsked
  <2>2. CASE q # e
    <3>1. /\ ~ed'[q].fresh /\ ed'[q].at = ed[q].at /\ ed'[q].mem = ed[q].mem
          /\ ed'[q].goal = ed[q].goal /\ ed'[q].org = ed[q].org /\ ed'[q].second = ed[q].second
          /\ ed'[q].held = ed[q].held
      BY <1>2, <2>2, OthersLoseSight
    <3>2. HoldsTheAsked(ed[q])
      BY <1>3, <1>7, OneEditor
    <3> QED BY <1>3, <3>1, <3>2 DEF HoldsTheAsked
  <2> QED BY <2>1, <2>2
<1> QED BY <1>3, <1>5, <1>6, <1>7 DEF DocInv

\* The write itself: the file is what the process held, and so what was asked for.
LEMMA FillHolds ==
  ASSUME DocInv, NEW e \in Editors, Fill(e)
  PROVE  DocInv'
<1> DEFINE old  == ed[e]
           next == IF old.org # "none" /\ e = TuiEditor THEN "reload"
                   ELSE IF old.second # "none" THEN "truncate"
                   ELSE IF e = TuiEditor THEN "ready" ELSE "off"
           then(d) == IF old.second = "none" THEN d ELSE WithPolicy(d, old.second = "on")
           done == [old EXCEPT !.at = next, !.mem = then(old.mem), !.goal = then(old.goal),
                               !.what = IF old.second = "none" THEN {} ELSE {"policy"},
                               !.second = "none", !.org = "none"]
           p    == IF next = "off" THEN Gone ELSE done
<1>1. /\ old.at = "fill" /\ disk' = old.mem /\ asked' = old.goal
      /\ whole' \in {"whole", "garbage"} /\ (old.alone => whole' = "whole")
      /\ edited' = IF old.org # "none" THEN edited \cup {old.org} ELSE edited
      /\ spilled' = spilled \cup old.held
      /\ unseen' \in BOOLEAN /\ (~unseen' => ~unseen /\ old.alone)
      /\ UNCHANGED <<cut, saves, strokes>>
  <2>1. unseen \in BOOLEAN /\ old.alone \in BOOLEAN
    BY OneEditor DEF DocInv, DocTypeOK, EditorStates
  <2> QED BY <2>1 DEF Fill, Doing
<1>2. \A q \in Editors :
        ed'[q] = IF q = e THEN p ELSE [ed[q] EXCEPT !.fresh = FALSE, !.alone = FALSE]
  BY DEF Fill
<1>3. /\ old \in EditorStates /\ old.mem \in Docs /\ old.goal \in Docs
      /\ old.org \in DocOrgs \cup {"none"} /\ old.held \subseteq Fields
  BY OneEditor DEF EditorStates
<1>4. ASSUME NEW d \in Docs
      PROVE  /\ then(d) \in Docs /\ then(d).schema = d.schema
             /\ \A g \in Docs : \A E, H : Agree(d, g, E, H) => Agree(then(d), then(g), E, H)
             /\ OnlyIn(d, then(d), {"policy"})
  <2>1. (old.second = "on") \in BOOLEAN
    OBVIOUS
  <2>2. CASE old.second = "none"
    BY <2>2 DEF OnlyIn
  <2> QED BY <2>1, <2>2, PolicyAgrees
<1> HIDE DEF then
<1>5. /\ done \in EditorStates /\ done.at = next /\ done.mem = then(old.mem)
      /\ done.goal = then(old.goal) /\ done.org = "none" /\ done.fresh = old.fresh
      /\ done.held = old.held /\ (old.second # "none" => done.what = {"policy"})
  <2>1. (IF old.second = "none" THEN {} ELSE {"policy"}) \in SUBSET Fields
    BY DEF Fields
  <2> QED BY <1>3, <1>4, <2>1 DEF EditorStates
<1>6. next \in {"reload", "truncate", "ready", "off"}
  OBVIOUS
<1> HIDE DEF next, done
<1>7. p \in EditorStates /\ p.mem.schema <= CurrentSchemaVersion
      /\ old.mem.schema <= CurrentSchemaVersion
  BY <1>3, <1>4, <1>5, GoneIsState, OneEditor DEF KnowsNoNewer
<1>8. ed' \in [Editors -> EditorStates]
  <2>1. \A q \in Editors : ed'[q] \in EditorStates
    BY <1>2, <1>7, OthersLoseSight
  <2>2. ed' = [q \in Editors |-> ed'[q]]
    BY DEF Fill
  <2> QED BY <2>1, <2>2
<1>9. DocTypeOK'
  BY <1>1, <1>3, <1>8 DEF DocInv, DocTypeOK
<1>10. ASSUME NEW q \in Editors PROVE KnowsNoNewer(ed[q])'
  BY <1>1, <1>2, <1>7, OthersLoseSight, OneEditor DEF KnowsNoNewer
<1>11. ASSUME ~unseen', ~cut' PROVE Agree(old.mem, old.goal, edited', spilled')
  <2>1. Agree(old.mem, old.goal, edited \cup {old.org}, spilled')
    BY <1>1, <1>11, OneEditor DEF HoldsTheAsked
  <2>2. CASE old.org = "none"
    BY <1>1, <2>1, <2>2, DocConstants DEF Agree
  <2> QED BY <1>1, <2>1, <2>2
<1>12. ASSUME ~unseen', ~cut', NEW q \in Editors PROVE HoldsTheAsked(ed[q])'
  <2>1. CASE q = e
    <3>1. whole' = "whole" /\ (old.org # "none" => old.second = "none")
      BY <1>1, <1>12, OneEditor DEF HoldsTheAsked
    <3>2. Agree(then(old.mem), then(old.goal), edited', spilled')
      BY <1>3, <1>4, <1>11, <1>12
    <3>6. spilled' \cup old.held = spilled'
      BY <1>1
    <3>3. CASE next = "off"
      BY <1>2, <2>1, <3>3, GoneIsState DEF HoldsTheAsked
    <3>4. CASE next = "truncate"
      <4>1. Agree(done.mem, done.goal, edited' \cup {done.org}, spilled' \cup done.held)
        BY <1>5, <3>2, <3>6 DEF Agree
      <4>2. old.second # "none"
        BY <3>4 DEF next
      <4>3. Agree(done.mem, asked', edited', (spilled' \cup done.held) \cup done.what)
        <5>1. Agree(then(old.mem), old.goal, edited', spilled' \cup {"policy"})
          BY <1>3, <1>4, <1>11, <1>12, OnlyInAgrees
        <5> QED BY <1>1, <1>5, <3>6, <4>2, <5>1
      <4> QED BY <1>2, <1>5, <2>1, <3>1, <3>4, <4>1, <4>3 DEF HoldsTheAsked
    <3>5. CASE next \in {"ready", "reload"}
      <4>1. old.second = "none"
        BY <3>1, <3>5 DEF next
      <4>2. Agree(done.mem, asked', edited', spilled' \cup done.held)
        BY <1>1, <1>5, <1>11, <1>12, <3>6, <4>1 DEF then
      <4> QED BY <1>2, <1>5, <2>1, <3>1, <3>5, <4>2 DEF HoldsTheAsked
    <3> QED BY <1>6, <3>3, <3>4, <3>5
  <2>2. CASE q # e
    <3>1. /\ ~ed'[q].fresh /\ ed'[q].at = ed[q].at /\ ed'[q].mem = ed[q].mem
          /\ ed'[q].goal = ed[q].goal /\ ed'[q].org = ed[q].org /\ ed'[q].second = ed[q].second
          /\ ed'[q].held = ed[q].held
      BY <1>2, <2>2, OthersLoseSight
    <3>2. HoldsTheAsked(ed[q])
      BY <1>1, <1>12, OneEditor
    <3>3. edited \subseteq edited' /\ spilled \subseteq spilled'
      BY <1>1
    <3>4. ed[q].at = "fill" =>
            Agree(ed[q].mem, ed[q].goal, edited' \cup {ed[q].org}, spilled' \cup ed[q].held)
      <4>1. edited \cup {ed[q].org} \subseteq edited' \cup {ed[q].org}
            /\ spilled \cup ed[q].held \subseteq spilled' \cup ed[q].held
        BY <3>3
      <4> QED BY <3>2, <4>1, AgreeMore DEF HoldsTheAsked
    <3> QED BY <3>1, <3>2, <3>4 DEF HoldsTheAsked
  <2> QED BY <2>1, <2>2
<1> QED BY <1>1, <1>9, <1>10, <1>11, <1>12 DEF DocInv

LEMMA DocInvNext == DocInv /\ [DocNext]_docVars => DocInv'
<1> SUFFICES ASSUME DocInv, [DocNext]_docVars PROVE DocInv'
  OBVIOUS
<1>1. CASE UNCHANGED docVars
  <2>1. UNCHANGED <<disk, whole, ed, asked, edited, spilled, unseen, cut, saves, strokes>>
    BY <1>1 DEF docVars
  <2>2. DocTypeOK'
    BY <2>1 DEF DocInv, DocTypeOK
  <2>3. ASSUME NEW q \in Editors
        PROVE  KnowsNoNewer(ed[q])' /\ (unseen' \/ cut' \/ HoldsTheAsked(ed[q])')
    BY <2>1, OneEditor DEF KnowsNoNewer, HoldsTheAsked
  <2> QED BY <2>1, <2>2, <2>3 DEF DocInv
<1>2. CASE NewerSrm
  <2>1. /\ ed' = [q \in Editors |-> [ed[q] EXCEPT !.fresh = FALSE]]
        /\ \A q \in Editors : ed[q].at # "fill"
        /\ disk' = [disk EXCEPT !.schema = CurrentSchemaVersion + 1]
        /\ UNCHANGED <<whole, asked, edited, spilled, unseen, cut, saves>>
    BY <1>2 DEF NewerSrm, Doing
  <2>2. \A q \in Editors :
          /\ ed'[q] \in EditorStates /\ ~ed'[q].fresh /\ ed'[q].at = ed[q].at
          /\ ed'[q].mem = ed[q].mem /\ ed'[q].org = ed[q].org /\ ed'[q].second = ed[q].second
          /\ ed'[q].held = ed[q].held
    BY <2>1, OthersLoseSight
  <2>3. /\ disk' \in Docs
        /\ disk'.mode = disk.mode /\ disk'.cap = disk.cap /\ disk'.perOrgUsers = disk.perOrgUsers
        /\ disk'.host = disk.host /\ disk'.orgs = disk.orgs
    <3>1. CurrentSchemaVersion + 1 \in 0..CurrentSchemaVersion + 1 /\ disk \in Docs
      BY DEF CurrentSchemaVersion, DocInv, DocTypeOK
    <3> QED BY <2>1, <3>1 DEF Docs
  <2>4. strokes' \in 0..MaxStrokes
    BY <1>2, DocConstants DEF NewerSrm, DocInv, DocTypeOK
  <2>5. DocTypeOK'
    <3>1. ed' \in [Editors -> EditorStates]
      BY <2>1, <2>2
    <3> QED BY <2>1, <2>3, <2>4, <3>1 DEF DocInv, DocTypeOK
  <2>6. ASSUME NEW q \in Editors PROVE KnowsNoNewer(ed[q])'
    BY <2>2, OneEditor DEF KnowsNoNewer
  <2>7. ASSUME ~unseen', ~cut'
        PROVE  /\ whole' = "whole" => Agree(disk', asked', edited', spilled')
               /\ \A q \in Editors : HoldsTheAsked(ed[q])'
    <3>1. whole = "whole" => Agree(disk, asked, edited, spilled)
      BY <2>1, <2>7 DEF DocInv
    <3>2. \A q \in Editors : HoldsTheAsked(ed[q])
      BY <2>1, <2>7 DEF DocInv
    <3> QED BY <2>1, <2>2, <2>3, <3>1, <3>2 DEF HoldsTheAsked, Agree
  <2> QED BY <2>5, <2>6, <2>7 DEF DocInv
<1>3. ASSUME NEW e \in Editors, NEW b \in BOOLEAN, BuildManager(e, b) \/ ApplyHostPolicy(e, b)
      PROVE  DocInv'
  BY <1>3, ComingsHold, CommandsHold
<1>4. ASSUME NEW e \in Editors, NEW m \in {"", "auto", "typo"}, NEW c \in {"", "host"},
             NEW b \in BOOLEAN, SavePanel(e, m, c, b)
      PROVE  DocInv'
  BY <1>4, CommandsHold
<1>5. ASSUME NEW e \in Editors, NEW S \in (SUBSET Pkgs) \ {{}},
             AddManifest(e, S) \/ RemoveManifest(e, S)
      PROVE  DocInv'
  BY <1>5, CommandsHold
<1>6. ASSUME NEW e \in Editors, NEW o \in DocOrgs, NEW v \in {1, 2},
             UpsertProfile(e, o, v) \/ SaveOrg(e, o, v)
      PROVE  DocInv'
  BY <1>6, CommandsHold
<1>7. ASSUME NEW e \in Editors, NEW o \in DocOrgs, RemoveProfile(e, o)
      PROVE  DocInv'
  BY <1>7, CommandsHold
<1>8. ASSUME NEW e \in Editors,
             \/ Truncate(e) \/ Fill(e) \/ SaveFails(e) \/ ReloadDoc(e) \/ Quit(e)
             \/ KillEditor(e)
      PROVE  DocInv'
  BY <1>8, TruncateHolds, FillHolds, ComingsHold
<1> QED BY <1>1, <1>2, <1>3, <1>4, <1>5, <1>6, <1>7, <1>8 DEF DocNext

\* Documents that agree give every org that was not edited the same user and limits.
LEMMA AgreeSuffices == DocInv => AskedIsKept
<1> SUFFICES ASSUME DocInv, ~unseen, ~cut, whole = "whole" PROVE AskedIsKept
  BY DEF AskedIsKept
<1>1. Agree(disk, asked, edited, spilled)
  BY DEF DocInv
<1> QED BY <1>1 DEF Agree, AskedIsKept, RunnerUserFor, ResourcesFor

\* Only a truncation empties the file, and who has seen it has seen no newer document.
LEMMA NewerHolds ==
  ASSUME DocInv, DocNext
  PROVE  disk.schema > CurrentSchemaVersion /\ whole = "whole" /\ whole' = "empty" => unseen'
<1> SUFFICES ASSUME disk.schema > CurrentSchemaVersion, whole = "whole", whole' = "empty"
             PROVE  unseen'
  OBVIOUS
<1>1. PICK e \in Editors : Truncate(e)
  BY DEF DocNext, BuildManager, ApplyHostPolicy, SavePanel, AddManifest, RemoveManifest, UpsertProfile,
         SaveOrg, RemoveProfile, Command, Saves, Fill, SaveFails, ReloadDoc, Quit, KillEditor,
         NewerSrm
<1>2. ~(disk.schema <= CurrentSchemaVersion)
  <2>1. disk.schema \in 0..CurrentSchemaVersion + 1
    BY DEF DocInv, DocTypeOK, Docs
  <2> QED BY <2>1 DEF CurrentSchemaVersion
<1>3. ~ed[e].fresh
  BY <1>2, OneEditor DEF KnowsNoNewer
<1> QED BY <1>1, <1>3 DEF Truncate

\* For any number of processes, commands, kills, failing saves and documents to start
\* with, and any orgs and packages, config.yaml keeps what was asked of it, and is not
\* written over for a newer srm by a process that has seen that.
THEOREM DocumentAlwaysKept == DocSpec => DocumentIsKept
<1>1. DocInv => DocTypeOK /\ AskedIsKept
  BY AgreeSuffices DEF DocInv
<1>2. DocInv /\ [DocNext]_docVars =>
        [disk.schema > CurrentSchemaVersion /\ whole = "whole" /\ whole' = "empty" => unseen']_docVars
  BY NewerHolds
<1> QED BY <1>1, <1>2, DocInvInit, DocInvNext, PTL DEF DocSpec, DocumentIsKept, NewerSurvives
=============================================================================
