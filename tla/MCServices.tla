----------------------------- MODULE MCServices -----------------------------
(***************************************************************************)
(* The components that keep their own tables and meet only in the code     *)
(* that calls them: each behaviour is one of one component, the others     *)
(* stay where they start.                                                  *)
(***************************************************************************)
EXTENDS ApsFragments, BroadcastTable, IndirectQueue, NetworkManager, SourceRoutes,
        KeyTransport, GreenPower, LightDevice, AttributeReporting, Commissioning,
        FrameStack, FrameCodecs, ZnpDriver, ParentScan

VARIABLE focus

Components == {"fragments", "broadcasts", "indirect", "manager", "source routes", "keys",
               "green power", "light", "reporting", "commissioning", "stack", "codecs", "znp", "scan"}

Init ==
  /\ focus \in Components
  /\ FragmentInit /\ BroadcastInit /\ QueueInit /\ ManagerInit /\ SourceRouteInit
  /\ ZnpInit /\ ScanInit /\ KeyInit /\ GpInit /\ LightInit /\ ReportInit /\ CommissioningInit
  /\ StackInit /\ (focus # "stack" => keyed)
  /\ IF focus = "codecs" THEN CodecInit ELSE sent = {} /\ parsed = Nothing

Next ==
  /\ UNCHANGED focus
  /\ IF focus = "fragments" THEN FragmentNext ELSE UNCHANGED fragmentVars
  /\ IF focus = "broadcasts" THEN BroadcastNext ELSE UNCHANGED broadcastVars
  /\ IF focus = "indirect" THEN QueueNext ELSE UNCHANGED queueVars
  /\ IF focus = "manager" THEN ManagerNext ELSE UNCHANGED managerVars
  /\ IF focus = "source routes" THEN SourceRouteNext ELSE UNCHANGED sourceRouteVars
  /\ IF focus = "keys" THEN KeyNext ELSE UNCHANGED keyVars
  /\ IF focus = "green power" THEN GpNext ELSE UNCHANGED gpVars
  /\ IF focus = "light" THEN LightNext ELSE UNCHANGED lightVars
  /\ IF focus = "reporting" THEN ReportNext ELSE UNCHANGED reportVars
  /\ IF focus = "commissioning" THEN CommissioningNext ELSE UNCHANGED commissioningVars
  /\ IF focus = "stack" THEN StackNext ELSE UNCHANGED stackVars
  /\ IF focus = "scan" THEN ScanNext ELSE UNCHANGED scanVars
  /\ IF focus = "znp" THEN ZnpNext ELSE UNCHANGED znpVars
  /\ IF focus = "codecs" THEN CodecNext ELSE UNCHANGED codecVars

vars == <<focus, fragmentVars, broadcastVars, queueVars, managerVars, sourceRouteVars,
          keyVars, gpVars, lightVars, reportVars, commissioningVars, stackVars, codecVars,
          znpVars, scanVars>>

Spec == Init /\ [][Next]_vars

-----------------------------------------------------------------------------
MCAsduBlocks == <<2, 3, 4>>
MCPanIds == 1 .. 3
MCChannels == {11, 15}
MCForeignPan == {1, 2}
MCOwnOutputs == <<"onoff", "level", "onoff">>
Endpoint(e, inputs) ==
  [endpoint |-> e, profile |-> "ha", inputs |-> inputs, outputs |-> {}]
MCTargets == [t |-> <<Endpoint(2, {"onoff", "level"})>>, u |-> <<Endpoint(1, {"onoff"})>>]
MCSizes == {0, 1, 2, 3, 4, 60, 62, 64, 78, 79, 80, 82, 83, 88, 90, 92, 97, 98, 100, 101, 108, 109}
MCSubsystem == [c \in MtCommands |-> IF c = "SYS_PING" THEN "SYS" ELSE "AF"]
MCDepthOf == [sender \in 1 .. 3 |-> IF sender = 1 THEN 0 ELSE 1]
MCLengths == {0, 1, 16, 97, 98, 99, 100, 101, 106, 107, 108, 109, 114, 116, 117, 121}
=============================================================================
