------------------------------ MODULE OrgKeys -------------------------------
(***************************************************************************)
(* Where an org's App private key is: a .pem file that config.yaml names,  *)
(* or the encrypted secrets.age next to it, whose passphrase is kept in    *)
(* secrets.pass for the units that have no environment.                    *)
(*                                                                         *)
(* The key moves while lanes run: srm config import-key encrypts it,       *)
(* clears privateKeyPath and may delete the .pem; the org form of srm      *)
(* init, srm config edit-org and the terminal UI stores a pasted key or    *)
(* names a path.  Each of them touches three files one after another,      *)
(* none under a lock, and the terminal UI holds a config it read long ago. *)
(***************************************************************************)
EXTENDS Integers, FiniteSets

CONSTANTS
  KeyOrgs,    \* organizations
  Sessions,   \* srm processes
  TuiSession, \* the one of them that is the terminal UI
  PemOf,      \* [KeyOrgs -> file names]: the .pem an org's path names
  Phrases,    \* passphrases
  MaxMoves    \* how many commands that move keys one behaviour contains

NoPhrase == "none"

ASSUME KeyConstants ==
  /\ TuiSession \in Sessions
  /\ NoPhrase \notin Phrases
  /\ MaxMoves \in Nat

NoStore == [phrase |-> NoPhrase, keys |-> {}]

PemFiles == {PemOf[o] : o \in KeyOrgs}

VARIABLES
  keyAt,      \* config.yaml: an org's key is at "pem", in the "store", or there is no such org
  pems,       \* the .pem files there are
  secretsAge, \* the passphrase secrets.age is encrypted with and the orgs whose keys it holds
  passFile,   \* what secrets.pass holds
  proc,       \* what a process does and has in memory
  overwrote,  \* history: files written by a process that had not seen their latest content
  unstored,   \* history: orgs the terminal UI's config has in the store while their key is not
  astray,     \* history: orgs whose path was given without a file, or named one removed for another
  moves       \* how many commands there have been

diskVars == <<keyAt, pems, secretsAge, passFile>>
keyVars  == <<diskVars, proc, overwrote, unstored, astray, moves>>

Places  == {"absent", "pem", "store"}
Hows    == {"import", "paste", "path", "encrypt", "keep"}
KeyFile == {"config", "secrets", "pass"}

\* A process: its step, the config it holds, the command with the org, what was
\* typed and whether to remove the .pem, its SRM_SECRETS_PASSPHRASE, the passphrase
\* EncryptAppKey works with and the keys it has decrypted; and, as history, the files
\* it has read or written since anybody else wrote them.
Processes ==
  [at : {"off", "form", "idle", "resolve", "persist", "open", "rename", "grant", "write",
         "reload", "check", "remove"},
   cfg : [KeyOrgs -> Places], how : Hows, org : KeyOrgs \cup {"none"}, typed : Phrases \cup {NoPhrase},
   remove : BOOLEAN, env : Phrases \cup {NoPhrase}, pass : Phrases \cup {NoPhrase},
   loaded : SUBSET KeyOrgs, fresh : SUBSET KeyFile]

Off == [at |-> "off", cfg |-> [o \in KeyOrgs |-> "absent"], how |-> "keep", org |-> "none",
        typed |-> NoPhrase, remove |-> FALSE, env |-> NoPhrase, pass |-> NoPhrase, loaded |-> {},
        fresh |-> {}]

\* Keys are in known places and every process is at a step of a move (import-key,
\* the org form).
KeysTypeOK ==
  /\ keyAt \in [KeyOrgs -> Places] /\ pems \subseteq PemFiles
  /\ secretsAge \in [phrase : Phrases, keys : (SUBSET KeyOrgs) \ {{}}] \cup {NoStore}
  /\ passFile \in Phrases \cup {NoPhrase}
  /\ proc \in [Sessions -> Processes]
  /\ overwrote \subseteq KeyFile
  /\ unstored \subseteq KeyOrgs /\ astray \subseteq KeyOrgs /\ moves \in 0..MaxMoves

-----------------------------------------------------------------------------
At(s, step) == proc[s].at = step

\* Process s has written some files and is as p now.
Becomes(s, p, writes) ==
  /\ proc' = [q \in Sessions |-> IF q = s THEN p ELSE [proc[q] EXCEPT !.fresh = @ \ writes]]
  /\ overwrote' = overwrote \cup (writes \ proc[s].fresh)

\* It goes on to a step, having read or written some files.
Goto(s, step, p, reads, writes) ==
  Becomes(s, [p EXCEPT !.at = step, !.fresh = @ \cup reads \cup writes], writes)

\* Its command is over: it ends, or the terminal UI shows its screen again.
Over(s, p, reads, writes) ==
  Becomes(s, IF s = TuiSession
               THEN [Off EXCEPT !.at = "idle", !.cfg = p.cfg, !.env = p.env,
                                !.fresh = p.fresh \cup reads]
               ELSE Off, writes)

\* The environment first, then the file.
ResolvePassphrase(env) == IF env # NoPhrase THEN env ELSE passFile

\* appPrivateKey with a store opened with passphrase ph: the path first.
FindsKey(o, ph) ==
  \/ keyAt[o] = "pem" /\ PemOf[o] \in pems
  \/ keyAt[o] = "store" /\ o \in secretsAge.keys /\ secretsAge.phrase = ph

\* What a detached unit can find: it has no environment.
Resolves(o) == FindsKey(o, passFile)

\* The key of some org is referred to by its path, or stored, or not set up yet.
KeysInit ==
  /\ keyAt \in [KeyOrgs -> Places]
  /\ pems \in {P \in SUBSET PemFiles : \A o \in KeyOrgs : keyAt[o] = "pem" => PemOf[o] \in P}
  /\ passFile \in Phrases \cup {NoPhrase}
  /\ LET keys == {o \in KeyOrgs : keyAt[o] = "store"} IN
       /\ secretsAge = IF keys = {} THEN NoStore ELSE [phrase |-> passFile, keys |-> keys]
       /\ keys # {} => passFile # NoPhrase
  /\ proc = [s \in Sessions |-> Off]
  /\ overwrote = {} /\ unstored = {} /\ astray = {} /\ moves = 0

-----------------------------------------------------------------------------
Move == moves < MaxMoves /\ moves' = moves + 1

\* A process starts with the config it loads and some environment.
Begin(s, step, p) ==
  /\ At(s, "off") /\ (s # TuiSession => Move)
  /\ Goto(s, step, [p EXCEPT !.cfg = keyAt], {"config"}, {})
  /\ UNCHANGED <<diskVars, unstored, astray>>

\* srm init and srm config edit-org open the org form over the config loaded; the
\* terminal UI comes up with no command.
OpenForm(s, env) == s # TuiSession /\ Begin(s, "form", [Off EXCEPT !.env = env])
StartTui(s, env) ==
  s = TuiSession /\ Begin(s, "idle", [Off EXCEPT !.env = env]) /\ UNCHANGED moves

\* srm config import-key reads the key from the org's .pem at once.  A passphrase on
\* the command line counts only when no other is known.
ImportKey(s, env, o, typed, remove) ==
  /\ s # TuiSession /\ keyAt[o] # "absent" /\ PemOf[o] \in pems
  /\ (typed # NoPhrase) <=> (ResolvePassphrase(env) = NoPhrase)
  /\ Begin(s, "resolve", [Off EXCEPT !.env = env, !.how = "import", !.org = o,
                                     !.typed = typed, !.remove = remove])

\* ToOrgConfig: where the submitted form says the key is.
ToOrgConfig(s, o, how) ==
  CASE how = "keep" -> proc[s].cfg[o]
    [] how = "path" -> "pem"
    [] OTHER        -> "store"

\* The form is submitted.  A paste asks for a passphrase when none is known; a path
\* may be encrypted at once, on the command line and with a known passphrase only, but
\* is not looked at otherwise; an edit may keep the key.  The terminal UI puts the org
\* into its config first.
SubmitForm(s, o, how, typed) ==
  LET p == proc[s] IN
  /\ \/ At(s, "form") /\ UNCHANGED moves
     \/ At(s, "idle") /\ Move
  /\ how = "keep" => p.cfg[o] # "absent"
  /\ how = "encrypt" =>
       At(s, "form") /\ ResolvePassphrase(p.env) # NoPhrase /\ PemOf[o] \in pems
  /\ (typed # NoPhrase) <=> (how = "paste" /\ ResolvePassphrase(p.env) = NoPhrase)
  /\ Goto(s, IF how \in {"paste", "encrypt"} THEN "resolve" ELSE "write",
          [p EXCEPT !.how = how, !.org = o, !.typed = typed, !.cfg[o] = ToOrgConfig(s, o, how)],
          {}, {})
  /\ unstored' = IF s = TuiSession /\ how = "paste" THEN unstored \cup {o} ELSE unstored
  /\ astray' = IF how = "path" /\ PemOf[o] \notin pems THEN astray \cup {o} ELSE astray
  /\ UNCHANGED diskVars

-----------------------------------------------------------------------------
\* EncryptAppKey settles on a passphrase; secrets.pass gets it when there is none.
ResolveAs(s, phrase) ==
  /\ At(s, "resolve")
  /\ Goto(s, IF passFile = NoPhrase THEN "persist" ELSE "open",
          [proc[s] EXCEPT !.pass = phrase], {"pass"}, {})
  /\ UNCHANGED <<diskVars, unstored, astray, moves>>

\* The environment, the file, or what was typed.
Resolve(s) ==
  LET known == ResolvePassphrase(proc[s].env) IN
  ResolveAs(s, IF known # NoPhrase THEN known ELSE proc[s].typed)

PersistPassphrase(s) ==
  /\ At(s, "persist") /\ passFile' = proc[s].pass
  /\ Goto(s, "open", proc[s], {}, {"pass"})
  /\ UNCHANGED <<keyAt, pems, secretsAge, unstored, astray, moves>>

\* An existing store must open with the passphrase; its keys are decrypted.
OpenWith(s, phrase) ==
  /\ At(s, "open") /\ secretsAge.phrase \in {NoPhrase, phrase}
  /\ Goto(s, "rename", [proc[s] EXCEPT !.pass = phrase, !.loaded = secretsAge.keys],
          {"pass", "secrets"}, {})
  /\ UNCHANGED <<diskVars, unstored, astray, moves>>

\* The slip of working with what this process knows.
OpenWithOwn(s) == OpenWith(s, proc[s].pass)

\* The file wins.
OpenStore(s) == OpenWith(s, passFile)

\* A new file is written and renamed over the store.
SetKeys(s, keys) ==
  /\ At(s, "rename") /\ secretsAge' = [phrase |-> proc[s].pass, keys |-> keys]
  /\ unstored' = unstored \ {proc[s].org}
  /\ Goto(s, IF proc[s].how = "import" THEN "grant" ELSE "write", proc[s], {}, {"secrets"})
  /\ UNCHANGED <<keyAt, pems, passFile, astray, moves>>

\* The slip of storing the new key alone.
SetAlone(s) == SetKeys(s, {proc[s].org})

Set(s) == SetKeys(s, proc[s].loaded \cup {proc[s].org})

\* A write, a decryption with a wrong passphrase or, on Windows, the grant fails.
EncryptFails(s) ==
  /\ proc[s].at \in {"persist", "open", "rename", "grant"} /\ Over(s, proc[s], {}, {})
  /\ UNCHANGED <<diskVars, unstored, astray, moves>>

\* After the grant import-key loads the config again; an org without a path has
\* nothing to clear.
ClearPath(s) ==
  LET o == proc[s].org IN
  /\ At(s, "grant")
  /\ Goto(s, IF keyAt[o] = "pem" THEN "write" ELSE "check",
          [proc[s] EXCEPT !.cfg = [keyAt EXCEPT ![o] = IF @ = "pem" THEN "store" ELSE @]],
          {"config"}, {})
  /\ UNCHANGED <<diskVars, unstored, astray, moves>>

\* writeConfig and SaveConfig write the whole config the process holds.
WriteConfig(s, step) ==
  /\ keyAt' = proc[s].cfg /\ Goto(s, step, proc[s], {}, {"config"})
  /\ UNCHANGED <<pems, secretsAge, passFile, unstored, astray, moves>>

WriteOrg(s) == At(s, "write") /\ WriteConfig(s, IF s = TuiSession THEN "reload" ELSE "check")

\* The terminal UI saves settings, a profile or the host manifest at any time.
SaveSettings(s) == s = TuiSession /\ ~At(s, "off") /\ WriteConfig(s, proc[s].at)

Reload(s) ==
  /\ At(s, "reload") /\ Over(s, [proc[s] EXCEPT !.cfg = keyAt], {"config"}, {})
  /\ UNCHANGED <<diskVars, unstored, astray, moves>>

\* What import-key does after validateOrgAuth.
AfterCheck(s, verified) ==
  /\ At(s, "check")
  /\ IF verified /\ proc[s].how = "import" /\ proc[s].remove
       THEN Goto(s, "remove", proc[s], {}, {}) ELSE Over(s, proc[s], {}, {})
  /\ UNCHANGED <<diskVars, unstored, astray, moves>>

\* validateOrgAuth builds a manager from what is on disk and lists the runners; GitHub
\* may not answer.
ValidateOrgAuth(s) ==
  \/ AfterCheck(s, FindsKey(proc[s].org, ResolvePassphrase(proc[s].env)))
  \/ AfterCheck(s, FALSE)

\* The .pem of the org imported is removed, whoever else names it.  Whoever has read
\* the config before may be about to write a path to it.
RemoveSource(s) ==
  LET org == proc[s].org IN
  /\ At(s, "remove") /\ pems' = pems \ {PemOf[org]}
  /\ astray' = astray \cup {o \in KeyOrgs \ {org} : PemOf[o] = PemOf[org]}
  /\ Over(s, proc[s], {}, {"config"})
  /\ UNCHANGED <<keyAt, secretsAge, passFile, unstored, moves>>

\* A process is killed, or the user quits.
KillSession(s) ==
  /\ ~At(s, "off") /\ Becomes(s, Off, {})
  /\ UNCHANGED <<diskVars, unstored, astray, moves>>

KeysNext ==
  \E s \in Sessions :
    \/ \E e \in Phrases \cup {NoPhrase} :
         \/ OpenForm(s, e) \/ StartTui(s, e)
         \/ \E o \in KeyOrgs, t \in Phrases \cup {NoPhrase}, r \in BOOLEAN : ImportKey(s, e, o, t, r)
    \/ \E o \in KeyOrgs, h \in Hows \ {"import"}, t \in Phrases \cup {NoPhrase} : SubmitForm(s, o, h, t)
    \/ Resolve(s) \/ PersistPassphrase(s) \/ OpenStore(s) \/ Set(s) \/ EncryptFails(s)
    \/ ClearPath(s) \/ WriteOrg(s) \/ SaveSettings(s) \/ Reload(s)
    \/ ValidateOrgAuth(s) \/ RemoveSource(s) \/ KillSession(s)

KeysSpec == KeysInit /\ [][KeysNext]_keyVars

-----------------------------------------------------------------------------
\* At every step of a move, and wherever it is killed, a detached unit finds the key
\* of every org that config.yaml has, as long as no process overwrote a file it had
\* not seen the latest of.  Excepted are an org whose pasted key the terminal UI has
\* yet to store, or failed to, while its config already says it is stored; and an org
\* whose path was given in the form without such a file, or names a .pem that
\* import-key --remove-source of another org with the same .pem has deleted.
\* srm config import-key, the org form, EncryptAppKey, appPrivateKey.
KeyResolves ==
  overwrote = {} => \A o \in KeyOrgs :
    \/ keyAt[o] = "absent" \/ Resolves(o)
    \/ keyAt[o] = "store" /\ o \in unstored
    \/ keyAt[o] = "pem" /\ o \in astray

\* secrets.age is always encrypted with the passphrase in secrets.pass, even when a
\* process with another passphrase in its environment or a killed one came between.
\* EncryptAppKey's order of persisting, re-reading and encrypting.
StoreMatchesFile ==
  overwrote \cap {"pass", "secrets"} = {} /\ secretsAge.phrase # NoPhrase
    => secretsAge.phrase = passFile

\* import-key deletes a .pem only while the key it holds is in a store the units can
\* open.  import-key --remove-source after validateOrgAuth.
RemovedKeyHasACopy ==
  [][overwrote \cap {"pass", "secrets"} = {} =>
       \A s \in Sessions :
         RemoveSource(s) /\ pems' # pems =>
           proc[s].org \in secretsAge.keys /\ secretsAge.phrase = passFile]_keyVars

\* No key is lost on its way from a file to the store (import-key, EncryptAppKey).
KeysStayReachable == [](KeysTypeOK /\ KeyResolves) /\ RemovedKeyHasACopy
=============================================================================
