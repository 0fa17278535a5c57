-------------------------- MODULE NodeRecordProofs --------------------------
(***************************************************************************)
(* Proofs about what one process leaves to the next in node.key and        *)
(* node_config.json, for any number of starts, stops, signals and crashes, *)
(* and any peers: the identity, the sequence number of the node record and *)
(* the peers to dial, as long as commands are given one at a time.  That   *)
(* processes then take turns (TurnInv) is proved in NodeProcessProofs.     *)
(***************************************************************************)
EXTENDS NodeProcessProofs

FilePlaces == {"record", "network", "run", "api"}

\* A process that starts has the key of the file from get_signer on, and the one that serves
\* while its key is counted on; nobody counts on a key that is being written.
KeyInv ==
  program # "prover" =>
    /\ last.key # None => keyFile = last.key
    /\ cli => last.key = None
    /\ \A p \in Procs :
         /\ at[p] = "saving_key" => mem[p].key = p /\ last.key = None
         /\ at[p] \in FilePlaces => keyFile = mem[p].key /\ keyFile # None
         /\ at[p] = "serving" /\ last.key # None => mem[p].key = last.key

\* The sequence numbers stay behind the clock, and strictly so while a process starts;
\* the config is at most one start behind the latest process that served, and holds what
\* it saved until the next one serves or --force removes it.
SeqFiles ==
  /\ last.seq <= clock
  /\ Readable(config) => config.seq <= clock /\ last.seq <= config.seq + 1
  /\ last.saved => Readable(config) /\ config.seq = last.seq /\ config.peers = last.peers

SeqOf(p) ==
  /\ mem[p].seq <= clock
  /\ at[p] \in Starting =>
       /\ last.seq < clock
       /\ Readable(config) => config.seq < clock
       /\ \A q \in Procs : q # p => mem[q].seq < clock
  /\ at[p] \in SeqPlaces =>
       /\ mem[p].seq >= last.seq
       /\ last.saved => mem[p].seq > last.seq
       /\ Readable(config) => mem[p].seq <= config.seq + 1
  /\ at[p] \in {"serving"} \cup Closing => last.seq = mem[p].seq
  /\ at[p] \in Unsaved => ~last.saved
  /\ at[p] = "run" /\ last.saved => last.peers \subseteq mem[p].dial

SeqInv == program # "prover" => SeqFiles /\ \A p \in Procs : SeqOf(p)

\* Steps that have nothing to do with the key.
KeyQuiet(p) ==
  /\ Others(p) /\ UNCHANGED <<program, keyFile, cli>> /\ last'.key = last.key
  /\ at'[p] \in {"saving_key"} \cup KeyPlaces => mem'[p].key = mem[p].key
  /\ program # "prover" /\ at'[p] \in FilePlaces => at[p] \in FilePlaces
  /\ program # "prover" /\ at'[p] = "serving" => at[p] \in KeyPlaces
  /\ at'[p] = "saving_key" => at[p] = "saving_key"

LEMMA KeyInvQuiet == ASSUME KeyInv, NEW p \in Procs, KeyQuiet(p) PROVE KeyInv'
BY DEF KeyInv, KeyQuiet, Others, KeyPlaces, FilePlaces

\* The process that comes to serve is the only one past the check of the ports.
LEMMA KeyInvServes ==
  ASSUME TurnInv, KeyInv, NEW p \in Procs, program # "prover", UNCHANGED <<program, keyFile, cli>>,
         Others(p), at[p] \in FilePlaces, at'[p] = "serving", mem'[p].key = mem[p].key,
         last'.key = mem[p].key
  PROVE  KeyInv'
<1>1. Admitted(p) /\ at[p] \in Starting
  BY DEF Admitted, FilePlaces, Starting, Resting
<1>2. \A q \in Procs : q # p => at'[q] \notin {"saving_key", "serving"} \cup FilePlaces
  BY <1>1 DEF TurnInv, Others, Admitted, Resting, FilePlaces
<1>3. keyFile = mem[p].key /\ ~cli
  BY <1>1 DEF KeyInv, TurnInv
<1> QED  BY <1>2, <1>3 DEF KeyInv, FilePlaces

LEMMA KeyInvSigner ==
  ASSUME TypeInv, TurnInv, KeyInv, NEW p \in Procs, Step(p) \/ Environment(p),
         SignerStep(p) \/ RemoveDataDir(p)
  PROVE  KeyInv'
<1> SUFFICES ASSUME program # "prover" PROVE KeyInv'
  BY StepMoves DEF Moved, Frame, KeyInv
<1>1. Others(p) /\ mem[p] \in Memory /\ {"saving_key", "record", "ended", "signer"} \subseteq Places
  BY StepMoves, TypeInvHas DEF Moved, Frame, Others, Places, Starting, Resting
<1>2. Admitted(p)
  BY DEF SignerStep, get_signer, SaveKey, RemoveDataDir, Admitted, Resting
<1>3. \A q \in Procs : q # p => at'[q] \notin {"saving_key", "serving"} \cup FilePlaces
  BY <1>1, <1>2 DEF TurnInv, Others, Admitted, Resting, FilePlaces
<1>4. /\ ~cli' /\ program' = program
      /\ last.key # None => keyFile = last.key
  <2>1. at[p] \in Starting
    BY DEF SignerStep, get_signer, SaveKey, RemoveDataDir, Starting
  <2> QED  BY <2>1, StepMoves DEF TurnInv, KeyInv, Moved, Frame
<1> USE DEF Goto, FilePlaces
<1>5. CASE get_signer(p)
  <2> DEFINE new == [mem[p] EXCEPT !.key = p]
             read == [mem[p] EXCEPT !.key = keyFile]
  <2>1. new \in Memory /\ new.key = p /\ (keyFile # Partial => read \in Memory /\ read.key = keyFile)
    BY <1>1, TypeInvHas DEF Memory, Keys
  <2>2. \/ Readable(keyFile) /\ GotoWith(p, "record", read) /\ UNCHANGED <<keyFile, last>>
        \/ GotoWith(p, "ended", mem[p]) /\ UNCHANGED <<keyFile, last>>
        \/ GotoWith(p, "saving_key", new) /\ CreateKey
    BY <1>5 DEF get_signer
  <2> HIDE DEF new, read
  <2>3. CASE Readable(keyFile) /\ GotoWith(p, "record", read) /\ UNCHANGED <<keyFile, last>>
    <3>1. at'[p] = "record" /\ mem'[p].key = keyFile /\ keyFile # None
      BY <1>1, <2>1, <2>3, GotoMoves DEF Readable
    <3> QED  BY <1>3, <1>4, <2>3, <3>1 DEF KeyInv
  <2>4. CASE GotoWith(p, "ended", mem[p]) /\ UNCHANGED <<keyFile, last>>
    <3>1. at'[p] = "ended"
      BY <1>1, <2>4, GotoMoves
    <3> QED  BY <1>3, <1>4, <2>4, <3>1 DEF KeyInv
  <2>5. CASE GotoWith(p, "saving_key", new) /\ CreateKey
    <3>1. at'[p] = "saving_key" /\ mem'[p].key = p
      BY <1>1, <2>1, <2>5, GotoMoves
    <3>2. last'.key = None
      BY <1>4, <2>5, CreateKeyLast
    <3> QED  BY <1>3, <1>4, <3>1, <3>2 DEF KeyInv
  <2> QED  BY <2>2, <2>3, <2>4, <2>5
<1>6. CASE SaveKey(p)
  <2>1. mem[p].key = p /\ p # None /\ last.key = None
    BY <1>6, ProcessConstants DEF SaveKey, KeyInv
  <2>2. at'[p] = "record" /\ mem'[p] = mem[p] /\ keyFile' = mem[p].key /\ last' = last
    BY <1>1, <1>6, GotoMoves DEF SaveKey
  <2> QED  BY <1>3, <1>4, <2>1, <2>2 DEF KeyInv
<1>7. CASE RemoveDataDir(p)
  <2>1. at'[p] = "signer"
    BY <1>1, <1>7, GotoMoves DEF RemoveDataDir
  <2>2. last' = [last EXCEPT !.saved = FALSE, !.key = None] \/ UNCHANGED <<keyFile, last>>
    BY <1>7 DEF RemoveDataDir
  <2>3. [last EXCEPT !.saved = FALSE, !.key = None].key = None
    BY TypeInvHas DEF Lasts
  <2> QED  BY <1>3, <1>4, <2>1, <2>2, <2>3 DEF KeyInv
<1> QED  BY <1>5, <1>6, <1>7 DEF SignerStep

LEMMA KeyInvIsKept ==
  ASSUME TypeInv, TurnInv, KeyInv, Next, Calm' PROVE KeyInv'
<1>1. ASSUME NEW p \in Procs, Step(p) \/ Environment(p), SignerStep(p) \/ RemoveDataDir(p)
      PROVE  KeyInv'
  BY <1>1, KeyInvSigner
<1>2. ASSUME NEW p \in Procs, Step(p) \/ Environment(p), ~SignerStep(p), ~RemoveDataDir(p)
      PROVE  KeyInv'
  <2>1. keyFile' = keyFile
    BY <1>2, Zenon
    DEF Step, Environment, validate_node_options, SignerStep, get_local_node_record,
        start_network, spawn_health_probe, start_api, HealthEnds, Shutdown, HealthStops, Close,
        AwaitHealth, CreateConfig, WriteConfig, Drained, HealthAccepts, respond_ok,
        PeerJoins, nodeVars
  <2>2. /\ Others(p) /\ UNCHANGED <<program, cli>>
        /\ at'[p] \in {"saving_key"} \cup KeyPlaces => mem'[p].key = mem[p].key
        /\ program # "prover" /\ at'[p] \in KeyPlaces => at[p] \in KeyPlaces
        /\ at'[p] = "saving_key" => at[p] = "saving_key"
        /\ at'[p] \in Starting => at[p] \in Starting
    BY <1>2, StepMoves, Zenon DEF Moved, Frame, Edge, Others
  <2>3. CASE last'.key = last.key
    <3>1. program # "prover" /\ at'[p] \in FilePlaces => at[p] \in FilePlaces
      BY <2>2 DEF FilePlaces, KeyPlaces, Starting
    <3>2. KeyQuiet(p)
      BY <2>1, <2>2, <2>3, <3>1 DEF KeyQuiet, KeyPlaces
    <3> QED  BY <3>2, KeyInvQuiet
  <2>4. CASE Serves(p) /\ at'[p] = "serving" /\ at[p] \in FilePlaces /\ program # "prover"
    <3>1. last'.key = mem[p].key /\ mem'[p].key = mem[p].key
      BY <2>2, <2>4 DEF Serves, KeyPlaces
    <3> QED  BY <2>1, <2>2, <2>4, <3>1, KeyInvServes
  <2>5. CASE program = "prover"
    BY <2>2, <2>5 DEF KeyInv
  <2>6. \/ last' = last
        \/ last' = [last EXCEPT !.saved = TRUE, !.peers = mem[p].peers]
        \/ Serves(p) /\ at'[p] = "serving" /\ at[p] \in FilePlaces
        \/ program = "prover"
    <3>1. CASE spawn_health_probe(p)
      <4>1. at \in [Procs -> Places]
        BY TypeInvHas
      <4> QED  BY <3>1, <4>1 DEF spawn_health_probe, GotoWith, Goto, FilePlaces
    <3>2. CASE start_api(p)
      <4>1. at \in [Procs -> Places]
        BY TypeInvHas
      <4> QED  BY <3>2, <4>1 DEF start_api, GotoWith, Goto, FilePlaces
    <3>3. CASE WriteConfig(p)
      BY <3>3 DEF WriteConfig
    <3>4. CASE ~(spawn_health_probe(p) \/ start_api(p) \/ WriteConfig(p))
      BY <1>2, <3>4, Zenon
      DEF Step, Environment, validate_node_options, SignerStep, get_local_node_record,
          start_network, HealthEnds, Shutdown, HealthStops, Close, AwaitHealth, CreateConfig,
          Drained, HealthAccepts, respond_ok, PeerJoins, nodeVars
    <3> QED  BY <3>1, <3>2, <3>3, <3>4
  <2>7. [last EXCEPT !.saved = TRUE, !.peers = mem[p].peers].key = last.key
    BY TypeInvHas DEF Lasts
  <2> QED  BY <2>3, <2>4, <2>5, <2>6, <2>7
<1>3. ASSUME NEW p \in Procs, NEW o \in Options, Launch(p, o), UNCHANGED <<keyFile, last>>
      PROVE  KeyInv'
  <2>1. KeyQuiet(p)
    BY <1>3, LaunchMoves DEF KeyQuiet, Others, KeyPlaces, FilePlaces
  <2> QED  BY <2>1, KeyInvQuiet
<1>4. CASE Stop /\ UNCHANGED nodeVars
  <2>1. PICK p \in Procs :
          is_pid_running(p) /\ Goto(p, Interrupted(p)) /\ UNCHANGED <<program, cli>>
    BY <1>4, StopMoves
  <2>2. KeyQuiet(p)
    BY <1>4, <2>1, InterruptedGoes, Zenon
    DEF KeyQuiet, Others, KeyPlaces, FilePlaces, Closing, nodeVars
  <2> QED  BY <2>2, KeyInvQuiet
<1>5. CASE GetPubKey
  <2>1. /\ Settled /\ program # "prover" /\ last'.key \in {None, last.key}
        /\ keyFile # None => last'.key = None
        /\ UNCHANGED <<program, at, mem>>
    BY <1>5, CommandedOnce, CreateKeyLast DEF GetPubKey
  <2>2. last'.key = None
    BY <2>1 DEF KeyInv
  <2> QED  BY <2>1, <2>2 DEF KeyInv, Settled, FilePlaces
<1>6. CASE SavePubKey
  <2>1. /\ cli /\ ~cli' /\ UNCHANGED <<program, at, mem, last>>
        /\ \A p \in Procs : at[p] \notin Starting
    BY <1>6 DEF SavePubKey, TurnInv
  <2> QED  BY <2>1 DEF KeyInv, FilePlaces, Starting
<1>7. CASE StopReturns /\ UNCHANGED nodeVars
  <2>1. KeyQuiet(stopper)
    BY <1>7, StopReturnsMoves DEF KeyQuiet, Others, KeyPlaces, FilePlaces, nodeVars, StopReturns
  <2> QED  BY <1>7, <2>1, StopReturnsMoves, KeyInvQuiet
<1> QED  BY <1>1, <1>2, <1>3, <1>4, <1>5, <1>6, <1>7 DEF Next, Command

\* Steps that have nothing to do with the sequence number in memory.
SeqQuiet(p) ==
  /\ Others(p) /\ UNCHANGED <<program, clock>>
  /\ mem'[p].seq \in {0, mem[p].seq}
  /\ at'[p] \in SeqPlaces \cup Closing \cup {"serving"} => mem'[p].seq = mem[p].seq
  /\ at'[p] \in Starting => at[p] \in Starting
  /\ at'[p] \in SeqPlaces => at'[p] = at[p] /\ mem'[p].dial = mem[p].dial
  /\ at'[p] \in Closing => at[p] \in Closing \cup {"serving"}
  /\ at'[p] \in Unsaved => at[p] \in Unsaved

LEMMA SeqNumbers ==
  ASSUME TypeInv
  PROVE  /\ clock \in Nat /\ last.seq \in Nat /\ last.saved \in BOOLEAN
         /\ Readable(config) => config.seq \in Nat
         /\ \A p \in Procs : mem[p].seq \in Nat
BY TypeInvHas DEF Memory, Lasts

\* The config may be removed or truncated, if what was saved in it is not counted on.
LEMMA SeqInvQuiet ==
  ASSUME TypeInv, SeqInv, NEW p \in Procs, SeqQuiet(p), last'.seq = last.seq,
         Readable(config)' => config' = config,
         last'.saved => config' = config /\ last.saved /\ last'.peers = last.peers
  PROVE  SeqInv'
<1> SUFFICES ASSUME program # "prover" PROVE SeqFiles' /\ \A q \in Procs : SeqOf(q)'
  BY DEF SeqQuiet, SeqInv
<1>1. SeqFiles /\ \A q \in Procs : SeqOf(q)
  BY DEF SeqInv
<1>2. SeqFiles' /\ (Readable(config)' => Readable(config))
  BY <1>1 DEF SeqFiles, SeqQuiet, Readable
<1>3. ASSUME NEW q \in Procs, q # p PROVE SeqOf(q)'
  <2>1. at'[q] = at[q] /\ mem'[q] = mem[q]
    BY <1>3 DEF SeqQuiet, Others
  <2>2. at[q] \in Starting => \A r \in Procs : r # q => mem'[r].seq < clock
    BY <1>1, SeqNumbers DEF SeqOf, SeqQuiet, Others
  <2> QED  BY <1>1, <1>2, <2>1, <2>2 DEF SeqOf, SeqQuiet
<1>4. SeqOf(p)'
  <2>1. mem'[p].seq <= clock
    BY <1>1, SeqNumbers DEF SeqOf, SeqQuiet
  <2>2. at'[p] \in Starting => \A r \in Procs : r # p => mem'[r].seq < clock
    BY <1>1 DEF SeqOf, SeqQuiet, Others
  <2>3. at'[p] \in {"serving"} \cup Closing => last.seq = mem'[p].seq
    BY <1>1 DEF SeqOf, SeqQuiet, Unsaved, Closing
  <2> QED  BY <1>1, <1>2, <2>1, <2>2, <2>3 DEF SeqOf, SeqQuiet, SeqPlaces
<1> QED  BY <1>2, <1>3, <1>4

\* While a process of the node or the sequencer is past validate_node_options the others
\* rest, or wait in it to be refused.
LEMMA OthersWait ==
  ASSUME TurnInv, SeqInv, program # "prover", NEW p \in Procs, Admitted(p), Others(p),
         clock' = clock
  PROVE  \A q \in Procs : q # p =>
           /\ at'[q] \in Resting \cup {"validating"}
           /\ at[p] \in Starting => at'[q] \in Resting
           /\ mem'[q].seq <= clock'
<1> SUFFICES ASSUME NEW q \in Procs, q # p
             PROVE  /\ at'[q] \in Resting \cup {"validating"}
                    /\ at[p] \in Starting => at'[q] \in Resting
                    /\ mem'[q].seq <= clock'
  OBVIOUS
<1>1. at'[q] = at[q] /\ mem'[q] = mem[q]
  BY DEF Others
<1>2. ~Admitted(q)
  BY DEF TurnInv
<1> QED  BY <1>1, <1>2 DEF TurnInv, Admitted, Starting, SeqInv, SeqOf

LEMMA SeqInvRecord ==
  ASSUME TypeInv, TurnInv, SeqInv, NEW p \in Procs, Step(p) \/ Environment(p), RecordStep(p)
  PROVE  SeqInv'
<1> SUFFICES ASSUME program # "prover" PROVE SeqFiles' /\ \A q \in Procs : SeqOf(q)'
  BY StepMoves DEF Moved, Frame, SeqInv
<1>1. /\ Others(p) /\ mem[p] \in Memory /\ clock' = clock
      /\ {"network", "run", "api", "serving", "ended"} \subseteq Places
  BY StepMoves, TypeInvHas DEF Moved, Frame, Others, Places, Starting, Resting
<1>2. /\ at[p] \in Starting /\ Admitted(p)
      /\ config' = config /\ (Readable(config)' <=> Readable(config))
  BY DEF RecordStep, get_local_node_record, start_network, spawn_health_probe, start_api, Starting,
         Admitted, Resting, Readable
<1>3. \A q \in Procs : q # p => SeqOf(q)'
  BY <1>1, <1>2, OthersWait DEF SeqOf, Resting, Starting, SeqPlaces, Closing, Unsaved
<1>4. SeqFiles /\ SeqOf(p)
  BY DEF SeqInv
<1>5. /\ last.seq < clock /\ (Readable(config) => config.seq < clock)
      /\ \A q \in Procs : q # p => mem'[q].seq < clock
  BY <1>1, <1>2, <1>4 DEF SeqOf, Others
<1> USE DEF Goto
<1>6. CASE get_local_node_record(p)
  <2> DEFINE n == IF Readable(config) THEN config.seq + 1 ELSE clock
             m == [mem[p] EXCEPT !.seq = n]
  <2>1. n \in Nat /\ m \in Memory /\ m.seq = n
    BY <1>1, SeqNumbers DEF Memory
  <2>2. /\ n <= clock /\ n >= last.seq /\ (last.saved => n > last.seq)
        /\ Readable(config) => n <= config.seq + 1
    BY <1>4, <1>5, SeqNumbers DEF SeqFiles
  <2>3. GotoWith(p, "network", m) /\ last' = last
    BY <1>6 DEF get_local_node_record
  <2> HIDE DEF n, m
  <2>4. at'[p] = "network" /\ mem'[p].seq = n
    BY <1>1, <2>1, <2>3, GotoMoves
  <2>5. SeqOf(p)'
    BY <1>1, <1>2, <1>5, <2>2, <2>3, <2>4 DEF SeqOf, Starting, SeqPlaces, Closing, Unsaved
  <2> QED  BY <1>1, <1>2, <1>3, <1>4, <2>3, <2>5 DEF SeqFiles
<1>7. CASE start_network(p)
  <2> DEFINE m == [mem[p] EXCEPT !.dial = get_bootnodes]
  <2>1. m \in Memory /\ m.seq = mem[p].seq /\ m.dial = get_bootnodes
    BY <1>1, TypeInvHas DEF Memory, get_bootnodes
  <2>2. last' = last /\ (GotoWith(p, "run", m) \/ GotoWith(p, "ended", m)) /\ at[p] = "network"
    BY <1>7 DEF start_network
  <2>3. last.saved => last.peers \subseteq m.dial
    BY <1>4, <2>1 DEF SeqFiles, get_bootnodes
  <2> HIDE DEF m
  <2>4. \/ at'[p] = "run" /\ mem'[p] = m
        \/ at'[p] = "ended" /\ mem'[p].seq = 0
    BY <1>1, <2>1, <2>2, GotoMoves
  <2>5. SeqOf(p)'
    BY <1>1, <1>2, <1>4, <1>5, <2>1, <2>2, <2>3, <2>4, SeqNumbers
    DEF SeqOf, Starting, SeqPlaces, Closing, Unsaved
  <2> QED  BY <1>1, <1>2, <1>3, <1>4, <2>2, <2>5 DEF SeqFiles
<1>8. ASSUME at'[p] = "ended", mem'[p].seq = 0, last' = last PROVE SeqFiles' /\ SeqOf(p)'
  BY <1>1, <1>2, <1>4, <1>8, SeqNumbers DEF SeqFiles, SeqOf, Starting, SeqPlaces, Closing, Unsaved
<1>9. ASSUME at'[p] = "api", at[p] = "run", mem'[p].seq = mem[p].seq, last' = last
      PROVE  SeqFiles' /\ SeqOf(p)'
  BY <1>1, <1>2, <1>4, <1>5, <1>9 DEF SeqFiles, SeqOf, Starting, SeqPlaces, Closing, Unsaved
<1>10. ASSUME at'[p] = "serving", at[p] \in {"run", "api"}, mem'[p].seq = mem[p].seq, Serves(p)
       PROVE  SeqFiles' /\ SeqOf(p)'
  BY <1>1, <1>2, <1>4, <1>5, <1>10, SeqNumbers
  DEF SeqFiles, SeqOf, Serves, Starting, SeqPlaces, Closing, Unsaved
<1>11. CASE spawn_health_probe(p)
  <2> DEFINE m == [mem[p] EXCEPT !.health = "listening", !.dial = {}]
  <2>1. m \in Memory /\ m.seq = mem[p].seq
    BY <1>1, Zenon DEF Memory, Healths
  <2>2. /\ at[p] = "run"
        /\ \/ GotoWith(p, "api", m) /\ last' = last
           \/ GotoWith(p, "serving", m) /\ Serves(p)
           \/ GotoWith(p, "ended", mem[p]) /\ last' = last
    BY <1>11 DEF spawn_health_probe
  <2> HIDE DEF m
  <2> QED  BY <1>1, <1>3, <1>8, <1>9, <1>10, <2>1, <2>2, GotoMoves
<1>12. CASE start_api(p)
  <2>1. /\ at[p] = "api"
        /\ \/ GotoWith(p, "serving", mem[p]) /\ Serves(p)
           \/ GotoWith(p, "ended", mem[p]) /\ last' = last
    BY <1>12 DEF start_api
  <2> QED  BY <1>1, <1>3, <1>8, <1>10, <2>1, GotoMoves
<1> QED  BY <1>6, <1>7, <1>11, <1>12 DEF RecordStep

LEMMA SeqInvSaved ==
  ASSUME TypeInv, TurnInv, SeqInv, NEW p \in Procs, SeqQuiet(p), WriteConfig(p)
  PROVE  SeqInv'
<1>1. CASE UNCHANGED <<config, last>>
  BY <1>1, SeqInvQuiet
<1>2. CASE /\ config' = [seq |-> mem[p].seq, peers |-> mem[p].peers]
           /\ last' = [last EXCEPT !.saved = TRUE, !.peers = mem[p].peers]
  <2> SUFFICES ASSUME program # "prover" PROVE SeqFiles' /\ \A q \in Procs : SeqOf(q)'
    BY DEF SeqQuiet, SeqInv
  <2>1. /\ at[p] = "saving" /\ Admitted(p) /\ SeqFiles /\ SeqOf(p)
        /\ mem[p] \in Memory /\ "draining" \in Places /\ "ended" \in Places
        /\ last \in Lasts
        /\ clock' = clock /\ Others(p)
    BY TypeInvHas
    DEF WriteConfig, SeqInv, Admitted, Resting, Places, Closing, SeqQuiet
  <2>2. /\ last'.seq = mem[p].seq /\ last'.saved = TRUE /\ last'.peers = mem[p].peers
        /\ config'.seq = mem[p].seq /\ config'.peers = mem[p].peers /\ mem[p].seq \in Nat
        /\ mem[p].seq <= clock
    BY <1>2, <2>1 DEF SeqOf, Closing, Memory, Lasts
  <2>3. Readable(config)'
    <3>1. config' \in [seq : Nat, peers : SUBSET Peers]
      BY <1>2, <2>1 DEF Memory
    <3> QED  BY <3>1, ProcessConstants DEF Readable
  <2>4. SeqFiles'
    BY <2>1, <2>2, <2>3 DEF SeqFiles
  <2>5. at'[p] \in {"draining", "ended"}
    BY <2>1, GotoMoves DEF WriteConfig, Stored, Goto
  <2>6. SeqOf(p)'
    <3>1. mem'[p].seq <= clock /\ (at'[p] = "draining" => mem'[p].seq = mem[p].seq)
      BY <2>2, SeqNumbers DEF SeqQuiet, Closing
    <3> QED  BY <2>1, <2>2, <2>5, <3>1 DEF SeqOf, Starting, SeqPlaces, Closing, Unsaved
  <2>7. ASSUME NEW q \in Procs, q # p PROVE SeqOf(q)'
    <3>1. at'[q] = at[q] /\ at'[q] \in Resting \cup {"validating"} /\ mem'[q].seq <= clock'
      BY <2>1, <2>7, OthersWait DEF Others
    <3>2. at'[q] \in Starting => mem[p].seq < clock /\ \A r \in Procs : r # q => mem'[r].seq < clock
      <4> SUFFICES ASSUME at[q] \in Starting
                   PROVE  mem[p].seq < clock /\ \A r \in Procs : r # q => mem'[r].seq < clock
        BY <3>1
      <4>1. \A r \in Procs : r # q => mem[r].seq < clock
        BY DEF SeqInv, SeqOf
      <4>2. mem[p].seq < clock /\ mem'[p].seq < clock
        BY <2>7, <4>1, SeqNumbers DEF SeqQuiet
      <4> QED  BY <2>1, <4>1, <4>2 DEF Others
    <3> QED  BY <2>1, <2>2, <3>1, <3>2 DEF SeqOf, Resting, Starting, SeqPlaces, Closing, Unsaved
  <2> QED  BY <2>4, <2>6, <2>7
<1> QED  BY <1>1, <1>2 DEF WriteConfig

LEMMA SeqInvStep ==
  ASSUME TypeInv, TurnInv, SeqInv, NEW p \in Procs, Step(p) \/ Environment(p) PROVE SeqInv'
<1>1. CASE RecordStep(p)
  BY <1>1, SeqInvRecord
<1>2. CASE ~RecordStep(p)
  <2>1. SeqQuiet(p)
    BY <1>2, StepMoves DEF Moved, Frame, Edge, SeqQuiet, Others
  <2>2. CASE UNCHANGED <<config, last>>
    BY <2>1, <2>2, SeqInvQuiet
  <2>3. CASE RemoveDataDir(p)
    <3> DEFINE forgotten == [last EXCEPT !.saved = FALSE, !.key = None]
    <3>1. (config' = None /\ last' = forgotten) \/ UNCHANGED <<config, last>>
      BY <2>3 DEF RemoveDataDir
    <3>2. forgotten.seq = last.seq /\ ~forgotten.saved
      BY TypeInvHas DEF Lasts
    <3> HIDE DEF forgotten
    <3> QED  BY <2>1, <2>2, <3>1, <3>2, SeqInvQuiet, Zenon DEF Readable
  <2>4. CASE CreateConfig(p)
    <3>1. at[p] = "storing" /\ last' = last /\ config' \in {config, Partial}
      BY <2>4 DEF CreateConfig
    <3>2. CASE program = "prover"
      BY <2>1, <3>2 DEF SeqInv, SeqQuiet
    <3>3. CASE program # "prover"
      <4>1. ~last.saved
        BY <3>1, <3>3 DEF SeqInv, SeqOf, Unsaved
      <4> QED  BY <2>1, <2>2, <3>1, <4>1, SeqInvQuiet DEF Readable
    <3> QED  BY <3>2, <3>3
  <2>5. CASE WriteConfig(p)
    BY <2>1, <2>5, SeqInvSaved
  <2>6. CASE get_signer(p)
    <3>1. config' = config /\ (UNCHANGED last \/ CreateKey)
      BY <2>6 DEF get_signer
    <3> QED  BY <2>1, <2>2, <3>1, CreateKeyLast, SeqInvQuiet
  <2>7. \/ UNCHANGED <<config, last>> \/ RemoveDataDir(p) \/ CreateConfig(p) \/ WriteConfig(p)
        \/ get_signer(p)
    BY <1>2, Zenon
    DEF RecordStep, Step, Environment, validate_node_options, SaveKey, HealthEnds,
        Shutdown, HealthStops, Close, AwaitHealth, Drained, HealthAccepts, respond_ok, PeerJoins,
        nodeVars
  <2> QED  BY <2>2, <2>3, <2>4, <2>5, <2>6, <2>7
<1> QED  BY <1>1, <1>2

LEMMA SeqInvIsKept == ASSUME TypeInv, TurnInv, SeqInv, Next, Calm' PROVE SeqInv'
<1>1. ASSUME NEW p \in Procs, Step(p) \/ Environment(p) PROVE SeqInv'
  BY <1>1, SeqInvStep
<1>2. ASSUME NEW p \in Procs, NEW o \in Options, Launch(p, o), clock' = clock + 1,
             UNCHANGED <<keyFile, config, last>>
      PROVE  SeqInv'
  <2>1. /\ at'[p] \in {"starting", "validating"} /\ mem'[p].seq = 0 /\ program' = program
        /\ Others(p)
    BY <1>2, LaunchMoves DEF Others
  <2> SUFFICES ASSUME program # "prover" PROVE SeqFiles' /\ \A q \in Procs : SeqOf(q)'
    BY <2>1 DEF SeqInv
  <2>2. SeqFiles /\ (\A q \in Procs : SeqOf(q)) /\ (Readable(config)' <=> Readable(config))
    BY <1>2 DEF SeqInv, Readable
  <2>3. SeqFiles'
    BY <1>2, <2>2, SeqNumbers DEF SeqFiles
  <2>4. \A q \in Procs : mem'[q].seq < clock'
    BY <1>2, <2>1, <2>2, SeqNumbers DEF SeqOf, Others
  <2>5. last'.seq < clock' /\ (Readable(config)' => config'.seq < clock')
    BY <1>2, <2>2, SeqNumbers DEF SeqFiles
  <2>6. SeqOf(p)'
    BY <2>1, <2>4, <2>5, <1>2, SeqNumbers DEF SeqOf, SeqPlaces, Closing, Unsaved
  <2>7. ASSUME NEW q \in Procs, q # p PROVE SeqOf(q)'
    <3>1. at'[q] = at[q] /\ mem'[q] = mem[q]
      BY <2>1, <2>7 DEF Others
    <3>2. mem'[q].seq <= clock'
      <4>1. mem[q].seq <= clock
        BY <2>2 DEF SeqOf
      <4> QED  BY <1>2, <3>1, <4>1, SeqNumbers
    <3> QED  BY <1>2, <2>2, <2>4, <2>5, <3>1, <3>2 DEF SeqOf
  <2> QED  BY <2>3, <2>6, <2>7
<1>3. CASE Stop /\ UNCHANGED nodeVars
  <2>1. PICK p \in Procs : is_pid_running(p) /\ Goto(p, Interrupted(p)) /\ UNCHANGED program
    BY <1>3, StopMoves
  <2>2. SeqQuiet(p)
    BY <1>3, <2>1, InterruptedGoes
    DEF SeqQuiet, Others, Starting, SeqPlaces, Closing, Unsaved, nodeVars
  <2> QED  BY <1>3, <2>2, SeqInvQuiet DEF nodeVars
<1>4. CASE GetPubKey \/ SavePubKey
  <2>1. /\ UNCHANGED <<program, at, mem, config, clock>>
        /\ last'.seq = last.seq /\ last'.saved = last.saved /\ last'.peers = last.peers
    BY <1>4, CreateKeyLast DEF GetPubKey, SavePubKey
  <2> QED  BY <2>1 DEF SeqInv, SeqFiles, SeqOf, Readable
<1>5. CASE StopReturns /\ UNCHANGED nodeVars
  <2>1. SeqQuiet(stopper)
    BY <1>5, StopReturnsMoves, FreshIsMemory
    DEF SeqQuiet, Others, Starting, SeqPlaces, Closing, Unsaved, nodeVars, StopReturns
  <2> QED  BY <1>5, <2>1, StopReturnsMoves, SeqInvQuiet DEF nodeVars
<1> QED  BY <1>1, <1>2, <1>3, <1>4, <1>5 DEF Next, Command

-----------------------------------------------------------------------------
RecordInv == Calm => KeyInv /\ SeqInv

LEMMA RecordInvInitially == ASSUME Init PROVE RecordInv
<1>1. /\ \A p \in Procs : at[p] = "idle" /\ mem[p].seq = 0
      /\ last.seq = 0 /\ ~last.saved /\ last.key = None /\ clock = 0 /\ config = None /\ ~cli
  BY FreshIsMemory DEF Init, DaemonInit
<1>2. KeyInv
  BY <1>1 DEF KeyInv, FilePlaces
<1>3. SeqInv
  BY <1>1 DEF SeqInv, SeqFiles, SeqOf, Readable, Starting, SeqPlaces, Closing, Unsaved
<1> QED  BY <1>2, <1>3 DEF RecordInv

LEMMA RecordInvIsKept == ASSUME TypeInv, CalmInv, RecordInv, [Next]_vars PROVE RecordInv'
<1>1. CASE UNCHANGED vars
  BY <1>1
  DEF vars, daemonVars, nodeVars, RecordInv, Calm, KeyInv, SeqInv, SeqFiles, SeqOf, Readable
<1>2. ASSUME Next, Calm' PROVE KeyInv' /\ SeqInv'
  <2>1. Calm /\ TurnInv
    BY <1>2, TurnInvIsKept
  <2> QED  BY <1>2, <2>1, KeyInvIsKept, SeqInvIsKept DEF RecordInv
<1> QED  BY <1>1, <1>2 DEF RecordInv

LEMMA RecordInvHolds == Spec => [](TypeInv /\ RecordInv)
BY RecordInvInitially, RecordInvIsKept, CalmInvHolds, PTL DEF Spec

\* With commands given one at a time, node.key and every process past get_signer keep the key
\* of the latest process that served, through crashes, failed starts and get-pub-key, until
\* --force or a read of node.key that fails.
THEOREM IdentityStaysOnDisk == Spec => []IdentityIsOnDisk
<1>1. RecordInv => IdentityIsOnDisk
  BY DEF RecordInv, KeyInv, IdentityIsOnDisk, FilePlaces
<1> QED  BY <1>1, RecordInvHolds, PTL

\* With commands given one at a time, the peers in a saved config are dialled by the next
\* process, however many starts failed in between.
THEOREM PeersStayRemembered == Spec => []PeersAreRemembered
<1>1. TypeInv /\ RecordInv => PeersAreRemembered
  BY DEF RecordInv, SeqInv, SeqOf, PeersAreRemembered, TypeInv, ProverPlaces, Resting
<1> QED  BY <1>1, RecordInvHolds, PTL

\* With commands given one at a time, the sequence number of the node record does not go
\* back when a process comes to serve, and grows if the former process saved its config.
THEOREM RecordsStayNewer == Spec => RecordIsNewer
<1>1. ASSUME TypeInv, RecordInv, [Next]_vars, NEW p \in Procs, Calm, program # "prover",
             at[p] # "serving", at'[p] = "serving"
      PROVE  mem[p].seq >= last.seq /\ (last.saved => mem[p].seq > last.seq)
  <2>1. Next
    BY <1>1 DEF vars, daemonVars
  <2>2. PICK q \in Procs : Step(q) \/ Environment(q)
    <3>1. ASSUME NEW r \in Procs, NEW o \in Options, Launch(r, o) PROVE FALSE
      BY <1>1, <3>1, LaunchMoves
    <3>2. CASE Stop
      <4>1. PICK r \in Procs : is_pid_running(r) /\ Goto(r, Interrupted(r))
        BY <1>1, <3>2, StopMoves
      <4> QED  BY <1>1, <4>1, InterruptedGoes DEF Closing
    <3>3. CASE StopReturns
      <4>1. FALSE
        BY <1>1, <3>3, StopReturnsMoves
      <4> QED  BY <4>1
    <3> QED  BY <1>1, <2>1, <3>1, <3>2, <3>3 DEF Next, Command, GetPubKey, SavePubKey
  <2>3. q = p /\ Edge(p)
    BY <1>1, <2>2, StepMoves DEF Moved, Frame
  <2>4. RecordStep(p)
    BY <1>1, <2>3 DEF Edge, Unsaved, Starting
  <2>5. at[p] \in SeqPlaces
    <3>1. at \in [Procs -> Places]
      BY <1>1, TypeInvHas
    <3>2. ~get_local_node_record(p)
      BY <1>1, <3>1 DEF get_local_node_record, GotoWith
    <3> QED
      BY <1>1, <2>4, <3>2 DEF RecordStep, start_network, spawn_health_probe, start_api, SeqPlaces
  <2> QED  BY <1>1, <2>5 DEF RecordInv, SeqInv, SeqOf
<1>2. TypeInv /\ RecordInv /\ [Next]_vars =>
        \A p \in Procs :
          Calm /\ program # "prover" /\ at[p] # "serving" /\ at'[p] = "serving"
            => mem[p].seq >= last.seq /\ (last.saved => mem[p].seq > last.seq)
  BY <1>1
<1> QED  BY <1>2, RecordInvHolds, PTL DEF Spec, RecordIsNewer
=============================================================================
