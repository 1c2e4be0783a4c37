---------------------------- MODULE MCKpppDial ----------------------------
EXTENDS KpppDial

MCConfigs ==
    {[redial |-> FALSE, lock |-> TRUE, script |-> <<"Scan", "Pause">>],
     [redial |-> TRUE, lock |-> TRUE, script |-> <<"Answer", "Send">>],
     [redial |-> TRUE, lock |-> FALSE, script |-> <<"Expect">>]}
=============================================================================
