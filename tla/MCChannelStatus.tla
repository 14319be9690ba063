-------------------------- MODULE MCChannelStatus --------------------------
EXTENDS ChannelStatus
MCKeys == <<"k1", "k2">>
(* A status alone, keys that replace the others with a status, and a key appended    *)
(* that may be there already, and is new once it was deleted.                        *)
MCEdits ==
    {[op |-> "edit", status |-> ManuallyDisabled, key_mode |-> "replace", keys |-> <<>>],
     [op |-> "edit", status |-> Enabled, key_mode |-> "replace", keys |-> <<"k3">>],
     [op |-> "edit", status |-> NoStatus, key_mode |-> "append", keys |-> <<"k2">>]}
=============================================================================
