------------------------------ MODULE NodeHome ------------------------------
(***************************************************************************)
(* The home directory of a node: what `story init`, `story key`, `story    *)
(* run` and `story rollback` read and write there, with a crash between    *)
(* any two writes.  init does not lock anything and may run beside the     *)
(* node; the databases of the node are locked, so rollback may not.        *)
(*                                                                         *)
(* A file holds None when it does not exist and Torn when a crash cut off  *)
(* a write that is not atomic (os.WriteFile).  Signing is a vote per       *)
(* height: rounds and steps are left out.                                  *)
(***************************************************************************)
EXTENDS Integers, FiniteSets

CONSTANTS None, Torn,
          Default,              \* a config.toml, and a node key
          Template, WellKnown,  \* genesis: placeholders left in, none needed
          Local, Public, Unsupported,  \* networks
          EnvKey,               \* the private key in .env
          MaxKeys,              \* keys that init may generate
          MaxHeight, Rollbacks, \* heights, and the values of --number
          Keep,                 \* versions that pruning leaves to the app
          MaxCommands, MaxCrashes

ASSUME HomeConstants ==
  /\ MaxKeys \in Nat /\ MaxHeight \in Nat /\ Rollbacks \subseteq Nat
  /\ Keep \in Nat \ {0} /\ MaxCommands \in Nat /\ MaxCrashes \in Nat
  /\ EnvKey \notin 1..MaxKeys

\* What the files may hold is told apart.
ASSUME FileContents ==
  /\ None \notin {Torn, Default, Template, WellKnown, Local, Public, Unsupported}
  /\ Torn \notin {Default, Template, WellKnown}
  /\ Template # WellKnown /\ Unsupported \notin {Local, Public}
  /\ {None, Torn, Template} \cap (Nat \cup {EnvKey}) = {}

VARIABLES home,      \* the files
          data,      \* heights: block store, CometBFT state, app
          cli,       \* the command that runs, and the step it is at
          node,      \* the running node: its key and last sign state
          commands, crashes, made, \* used up: commands, crashes, fresh keys
          signed, twice, \* history: heights signed by a key, keys that did so twice
          lost,      \* history: keys that had signed when the sign state was dropped
          spoiled,   \* history: a command left the home half made
          rolling    \* history: a rollback began and none has completed since

history == <<signed, twice, lost, spoiled, rolling>>
vars == <<home, data, cli, node, commands, crashes, made, history>>

Keys == 1..MaxKeys \cup {EnvKey}
Networks == {Local, Public, Unsupported}
Whole(file) == file \notin {None, Torn}
Empty == [config |-> None, story |-> None, plain |-> None, enc |-> None,
          sign |-> None, nodeKey |-> None, genesis |-> None, stray |-> FALSE]
NoData == [blocks |-> 0, comet |-> 0, app |-> 0]
Idle == [pc |-> "idle"]
Down == [up |-> FALSE]

Init ==
  /\ home \in {[Empty EXCEPT !.stray = s] : s \in BOOLEAN}
  /\ data = NoData /\ cli = Idle /\ node = Down
  /\ commands = 0 /\ crashes = 0 /\ made = 0
  /\ signed = [k \in Keys |-> {}] /\ twice = {} /\ lost = {}
  /\ spoiled = FALSE /\ rolling = FALSE

Begin(c) == /\ cli = Idle /\ commands < MaxCommands
            /\ cli' = c /\ commands' = commands + 1
Goto(pc) == cli' = [cli EXCEPT !.pc = pc]
Signers == {k \in Keys : signed[k] # {}}
Cleaning == cli.pc = "prepare" /\ cli.clean
-----------------------------------------------------------------------------
\* story init.  A command that fails leaves what it has written.

Fail == cli' = Idle /\ spoiled' = TRUE
InitStep == UNCHANGED <<node, commands, crashes, signed, twice>>

\* The operator stops the node before --clean.
InitFiles ==
  \E clean, force, encrypt \in BOOLEAN, network \in Networks :
    /\ clean => ~node.up
    /\ Begin([pc |-> "prepare", clean |-> clean, force |-> force,
              encrypt |-> encrypt, network |-> network, key |-> None])
    /\ UNCHANGED <<home, data, node, crashes, made, history>>

\* checkHomeDir comes first, so --clean alone does not get past a stray file.
prepareHomeDirectory ==
  /\ cli.pc = "prepare" /\ InitStep
  /\ IF home.stray /\ ~cli.force
       THEN cli' = Idle /\ UNCHANGED <<home, data, made, lost, spoiled, rolling>>
       ELSE /\ Goto("config") /\ UNCHANGED made
            /\ IF cli.clean
                 THEN /\ home' = Empty /\ data' = NoData
                      /\ lost' = lost \cup Signers
                      /\ spoiled' = FALSE /\ rolling' = FALSE
                 ELSE UNCHANGED <<home, data, lost, spoiled, rolling>>

\* A file that exists, even a torn one, is left as it is.
IfAbsent(file, value) == IF file = None THEN value ELSE file

WriteConfig ==
  /\ cli.pc = "config" /\ Goto("story") /\ InitStep
  /\ home' = [home EXCEPT !.config = IfAbsent(@, Default)]
  /\ UNCHANGED <<data, made, lost, spoiled, rolling>>

WriteConfigTOML ==
  /\ cli.pc = "story" /\ Goto(IF cli.encrypt THEN "encryptedKey" ELSE "plainKey")
  /\ home' = [home EXCEPT !.story = IfAbsent(@, cli.network)]
  /\ InitStep /\ UNCHANGED <<data, made, lost, spoiled, rolling>>

\* LoadFilePV exits when the sign state is missing.  A new key is saved
\* before its sign state.
loadOrCreatePrivKey ==
  /\ cli.pc = "plainKey" /\ InitStep
  /\ UNCHANGED <<data, lost, rolling>>
  /\ IF home.plain # None
       THEN IF home.sign # None
              THEN /\ cli' = [cli EXCEPT !.pc = "nodeKey", !.key = home.plain]
                   /\ UNCHANGED <<home, made, spoiled>>
              ELSE Fail /\ UNCHANGED <<home, made>>
       ELSE /\ made < MaxKeys /\ made' = made + 1
            /\ home' = [home EXCEPT !.plain = made']
            /\ cli' = [cli EXCEPT !.pc = "sign", !.key = made']
            /\ UNCHANGED spoiled

\* mutant: no sign state is saved for the new encrypted key.
loadOrCreateEncryptedPrivKeyOnly ==
  /\ cli.pc = "encryptedKey" /\ InitStep
  /\ made' = IF home.enc = None THEN made + 1 ELSE made
  /\ home' = [home EXCEPT !.enc = IfAbsent(@, made')]
  /\ cli' = [cli EXCEPT !.pc = "nodeKey", !.key = home'.enc]
  /\ UNCHANGED <<data, lost, spoiled, rolling>>

\* An encrypted key that exists is loaded without a look at the sign state.
loadOrCreateEncryptedPrivKey ==
  /\ cli.pc = "encryptedKey" /\ InitStep
  /\ UNCHANGED <<data, lost, rolling>>
  /\ IF home.enc # None
       THEN IF home.enc # Torn
              THEN /\ cli' = [cli EXCEPT !.pc = "nodeKey", !.key = home.enc]
                   /\ UNCHANGED <<home, made, spoiled>>
              ELSE Fail /\ UNCHANGED <<home, made>>
       ELSE /\ made < MaxKeys /\ made' = made + 1
            /\ home' = [home EXCEPT !.enc = made']
            /\ cli' = [cli EXCEPT !.pc = "sign", !.key = made']
            /\ UNCHANGED spoiled

\* LastSignState.Save, the end of both: whatever the file held is replaced.
SaveSignState ==
  /\ cli.pc = "sign" /\ Goto("nodeKey") /\ InitStep
  /\ home' = [home EXCEPT !.sign = 0]
  /\ lost' = IF home.sign = None THEN lost ELSE lost \cup Signers
  /\ UNCHANGED <<data, made, spoiled, rolling>>

LoadOrGenNodeKey ==
  /\ cli.pc = "nodeKey" /\ Goto("template") /\ InitStep
  /\ home' = [home EXCEPT !.nodeKey = IfAbsent(@, Default)]
  /\ UNCHANGED <<data, made, lost, spoiled, rolling>>

WriteTemplate ==
  /\ cli.pc = "template" /\ InitStep
  /\ UNCHANGED <<data, made, lost, rolling>>
  /\ \/ /\ home.genesis # None
        /\ Goto("done") /\ UNCHANGED <<home, spoiled>>
     \/ /\ home.genesis = None /\ cli.network = Unsupported
        /\ Fail /\ UNCHANGED home
     \/ /\ home.genesis = None /\ cli.network # Unsupported
        /\ home' = [home EXCEPT !.genesis =
             IF cli.network = Local THEN Template ELSE WellKnown]
        /\ Goto("genesis") /\ UNCHANGED spoiled

\* The placeholders are replaced by the addresses of the key.
WriteGenesis ==
  /\ cli.pc = "genesis" /\ Goto("done") /\ InitStep
  /\ home' = [home EXCEPT !.genesis = IF @ = Template THEN cli.key ELSE @]
  /\ UNCHANGED <<data, made, lost, spoiled, rolling>>

InitDone ==
  /\ cli.pc = "done" /\ cli' = Idle /\ InitStep
  /\ UNCHANGED <<home, data, made, lost, spoiled, rolling>>
-----------------------------------------------------------------------------
\* story key.  Neither command writes a sign state.

genValidatorPrivKeyJSON ==
  /\ home.plain = None /\ Begin(Idle)
  /\ home' = [home EXCEPT !.plain = EnvKey]
  /\ spoiled' = (spoiled \/ home.sign = None)
  /\ UNCHANGED <<data, node, crashes, made, signed, twice, lost, rolling>>

encryptPrivKey ==
  /\ home.enc = None /\ Begin(Idle)
  /\ home' = [home EXCEPT !.enc = EnvKey]
  /\ spoiled' = (spoiled \/ home.sign = None)
  /\ UNCHANGED <<data, node, crashes, made, signed, twice, lost, rolling>>

\* By hand: the key is moved away, to be generated from .env or encrypted.
RemoveKey ==
  /\ home.plain # None /\ Begin(Idle)
  /\ home' = [home EXCEPT !.plain = None]
  /\ UNCHANGED <<data, node, crashes, made, history>>
-----------------------------------------------------------------------------
\* story run.

\* The encrypted key goes first, and the sign state has to be there.
loadPrivValFails ==
  \/ home.plain = None /\ home.enc = None
  \/ home.enc = Torn
  \/ home.sign = None

\* mutant: the key without its last sign state.
loadPrivValKeyOnly == [key |-> IF home.enc # None THEN home.enc ELSE home.plain,
                       last |-> 0]

loadPrivVal == [key |-> IF home.enc # None THEN home.enc ELSE home.plain,
                last |-> home.sign]

CreateAppFails == loadPrivValFails \/ ~Whole(home.genesis)

\* parseCometConfig does without a config.toml; Verify wants a network it
\* knows; InitChain cannot read the placeholders of a template.
StartFails ==
  \/ CreateAppFails \/ home.config = Torn \/ home.nodeKey = Torn
  \/ home.story \notin {Local, Public}
  \/ home.genesis = Template

\* The handshake of CometBFT refuses an app that is ahead of the blocks.
Start ==
  /\ ~node.up /\ cli.pc # "rollback" /\ ~Cleaning
  /\ ~StartFails /\ data.app <= data.blocks
  /\ node' = [up |-> TRUE, key |-> loadPrivVal.key, last |-> loadPrivVal.last]
  /\ home' = [home EXCEPT !.nodeKey = IfAbsent(@, Default)]
  /\ UNCHANGED <<data, cli, commands, crashes, made, history>>

\* FilePV: the sign state is on disk before the vote leaves.
Sign ==
  LET h == data.comet + 1 IN
  /\ node.up /\ h > node.last /\ h <= MaxHeight
  /\ node' = [node EXCEPT !.last = h]
  /\ home' = [home EXCEPT !.sign = h]
  /\ signed' = [signed EXCEPT ![node.key] = @ \cup {h}]
  /\ twice' = IF h \in signed[node.key] THEN twice \cup {node.key} ELSE twice
  /\ UNCHANGED <<data, cli, commands, crashes, made, lost, spoiled, rolling>>

\* A decided block is stored, then committed by the app, then becomes the
\* state of CometBFT; a restart goes on from where it stopped.
ApplyBlock ==
  /\ node.up
  /\ \/ /\ data.blocks = data.comet /\ data.comet < MaxHeight
        /\ data' = [data EXCEPT !.blocks = @ + 1]
     \/ /\ data.blocks > data.comet /\ data.app < data.blocks
        /\ data' = [data EXCEPT !.app = @ + 1]
     \/ /\ data.blocks > data.comet /\ data.app = data.blocks
        /\ data' = [data EXCEPT !.comet = @ + 1]
  /\ UNCHANGED <<home, cli, node, commands, crashes, made, history>>

Stop ==
  /\ node.up /\ node' = Down
  /\ UNCHANGED <<home, data, cli, commands, crashes, made, history>>
-----------------------------------------------------------------------------
\* story rollback --number n, beside no node.

Rollback ==
  \E n \in Rollbacks :
    /\ ~node.up /\ home.config # Torn /\ ~CreateAppFails
    /\ Begin([pc |-> "rollback", left |-> n, last |-> 0])
    /\ UNCHANGED <<home, data, node, crashes, made, history>>

\* RollbackState of CometBFT with removeBlock: a block without state is
\* removed and counts; else the state goes back first, then its block.
RollbackState ==
  /\ cli.pc = "rollback" /\ cli.left > 0
  /\ \/ /\ data.blocks = data.comet + 1
        /\ data' = [data EXCEPT !.blocks = @ - 1]
        /\ cli' = [cli EXCEPT !.left = @ - 1, !.last = data.comet]
        /\ rolling' = TRUE
     \/ /\ data.blocks = data.comet /\ data.comet > 1
        /\ data' = [data EXCEPT !.comet = @ - 1]
        /\ rolling' = TRUE /\ UNCHANGED cli
     \/ /\ data.blocks = data.comet /\ data.comet <= 1
        /\ cli' = Idle /\ UNCHANGED <<data, rolling>>
  /\ UNCHANGED <<home, node, commands, crashes, made, signed, twice, lost, spoiled>>

\* mutant: the app goes back to the height before the one that CometBFT has.
RollbackToVersionBefore ==
  /\ cli.pc = "rollback" /\ cli.left = 0 /\ cli' = Idle
  /\ IF cli.last > 1 /\ cli.last > data.app - Keep
       THEN data' = [data EXCEPT !.app = cli.last - 1] /\ rolling' = FALSE
       ELSE UNCHANGED <<data, rolling>>
  /\ UNCHANGED <<home, node, commands, crashes, made, signed, twice, lost, spoiled>>

\* The app last, and only to a version that pruning has left.
RollbackToVersion ==
  /\ cli.pc = "rollback" /\ cli.left = 0 /\ cli' = Idle
  /\ IF cli.last > 0 /\ cli.last > data.app - Keep
       THEN data' = [data EXCEPT !.app = cli.last] /\ rolling' = FALSE
       ELSE UNCHANGED <<data, rolling>>
  /\ UNCHANGED <<home, node, commands, crashes, made, signed, twice, lost, spoiled>>
-----------------------------------------------------------------------------
\* The machine goes down.  A write that is not atomic may be half done, and
\* RemoveAll may have done with one of the two directories.
Writing ==
  CASE cli.pc = "config" -> "config" [] cli.pc = "story" -> "story"
    [] cli.pc = "encryptedKey" -> "enc" [] cli.pc = "nodeKey" -> "nodeKey"
    [] cli.pc \in {"template", "genesis"} -> "genesis" [] OTHER -> "none"

\* A key without its sign state, a genesis file with its placeholders, a
\* story.toml for a network without genesis.
HalfMade ==
  \/ cli.pc = "sign"
  \/ cli.pc = "genesis" /\ home.genesis = Template
  \/ home.story = Unsupported

Crash ==
  /\ crashes < MaxCrashes /\ crashes' = crashes + 1
  /\ node' = Down /\ cli' = Idle
  /\ \/ /\ spoiled' = (spoiled \/ HalfMade) /\ UNCHANGED <<home, data, lost>>
     \/ /\ Writing # "none" /\ (home[Writing] = None \/ cli.pc = "genesis")
        /\ home' = [home EXCEPT ![Writing] = Torn]
        /\ spoiled' = TRUE /\ UNCHANGED <<data, lost>>
     \/ /\ Cleaning /\ (home.stray => cli.force)
        /\ home' = [Empty EXCEPT !.sign = home.sign] /\ UNCHANGED <<data, lost, spoiled>>
     \/ /\ Cleaning /\ (home.stray => cli.force)
        /\ home' = [home EXCEPT !.sign = None] /\ data' = NoData
        /\ lost' = lost \cup Signers /\ spoiled' = TRUE
  /\ UNCHANGED <<commands, made, signed, twice, rolling>>

Next ==
  \/ InitFiles \/ prepareHomeDirectory \/ WriteConfig \/ WriteConfigTOML
  \/ loadOrCreatePrivKey \/ loadOrCreateEncryptedPrivKey \/ SaveSignState
  \/ LoadOrGenNodeKey \/ WriteTemplate \/ WriteGenesis \/ InitDone
  \/ genValidatorPrivKeyJSON \/ encryptPrivKey \/ RemoveKey
  \/ Start \/ Sign \/ ApplyBlock \/ Stop
  \/ Rollback \/ RollbackState \/ RollbackToVersion
  \/ Crash

Spec == Init /\ [][Next]_vars
-----------------------------------------------------------------------------
\* A key signs a height twice only if the sign state was dropped after it
\* had signed: by --clean, or by an init that generated another key.  No
\* order of restarts, crashes, rollbacks and switches between the plain and
\* the encrypted key does it otherwise (loadPrivVal restores the state).
SignsOnce == twice \subseteq lost

\* init that returns no error leaves a home that the node can start from,
\* unless an earlier command was cut off or failed half way, or wrote a key
\* where there was no sign state.
StartsAfterInit == cli.pc = "done" /\ ~spoiled => ~StartFails

\* But for a rollback that was cut off or refused, CometBFT and the app are
\* within the one block that a restart replays; a rollback that completes,
\* even after one that did not, brings them in step again.
InStep ==
  ~rolling => /\ data.blocks - data.comet \in {0, 1}
              /\ data.app \in {data.comet, data.blocks}

=============================================================================
