---------------------------- MODULE OmxComponent ----------------------------
(***************************************************************************)
(* What an OpenMAX IL component promises its client about its state: a    *)
(* state command either moves the component along an edge of the OMX IL    *)
(* state diagram and the client is told CmdComplete(StateSet, new state),  *)
(* or it fails and nothing changes.  "Created" is the state of a component *)
(* that has been constructed but not yet been commanded to Loaded.         *)
(***************************************************************************)
EXTENDS Sequences

VARIABLES state, reported

OmxStates == {"Invalid", "Loaded", "Idle", "Executing", "Pause",
              "WaitForResources"}

\* The edges of the OMX IL state diagram; any state may go to Invalid.
Edges ==
    {<<"Created", "Loaded">>,
     <<"Loaded", "Idle">>, <<"Loaded", "WaitForResources">>,
     <<"WaitForResources", "Loaded">>, <<"WaitForResources", "Idle">>,
     <<"Idle", "Loaded">>, <<"Idle", "Executing">>, <<"Idle", "Pause">>,
     <<"Executing", "Idle">>, <<"Executing", "Pause">>,
     <<"Pause", "Idle">>, <<"Pause", "Executing">>}
    \cup {<<s, "Invalid">> : s \in OmxStates \cup {"Created"}}

Init == state = "Created" /\ reported = <<>>

\* A successful state command: one edge, reported once to the client.
ChangeState(s) ==
    /\ <<state, s>> \in Edges
    /\ state' = s
    /\ reported' = Append(reported, s)

Next == \E s \in OmxStates : ChangeState(s)

Spec == Init /\ [][Next]_<<state, reported>>
=============================================================================
