------------------------------ MODULE MCCmdIf ------------------------------
EXTENDS CmdIf
CONSTANTS c1, c2, c3
NoScript == << >>
CleanupScript == <<"cleanup">>
FlushScript == <<"flush">>
\* destroy_async_eqs, then create_async_eqs
SwitchScript == <<"restrict", "polling", "unrestrict",
                  "restrict", "events", "unrestrict">>
=============================================================================
