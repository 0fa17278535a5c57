---------------------------- MODULE AllLibraries ----------------------------
(***************************************************************************)
(* Libraries, the builder of inscriptions and, from compile time, the      *)
(* reader of the #[rpc] attribute.  A step of these two leaves the         *)
(* libraries alone: every behaviour is one of Libraries, of BuilderSpec    *)
(* and of AttributeSpec.                                                   *)
(***************************************************************************)
EXTENDS Libraries, InscriptionBuilder, RpcAttribute

AllInit ==
  /\ Init
  /\ IF focus = "builder" THEN payloads \in [Builders -> PayloadLists]
     ELSE payloads = CHOOSE f \in [Builders -> PayloadLists] : TRUE
  /\ BuilderInit
  /\ IF focus = "attribute" THEN entries \in EntryLists
     ELSE entries = CHOOSE es \in EntryLists : TRUE
  /\ AttributeInit
  /\ focus = "attribute" \/ ~damaged

AllNext ==
  \/ Next /\ UNCHANGED <<builderVars, attributeVars>>
  \/ focus = "builder" /\ BuilderNext /\ UNCHANGED <<vars, attributeVars>>
  \/ focus = "attribute" /\ AttributeNext /\ UNCHANGED <<vars, builderVars>>

AllSpec == AllInit /\ [][AllNext]_<<vars, builderVars, attributeVars>> /\ Fairness

=============================================================================
