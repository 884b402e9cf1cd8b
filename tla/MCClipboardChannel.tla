------------------------ MODULE MCClipboardChannel ------------------------
EXTENDS ClipboardChannel
MCClipPlans == {<<"get", "get", "set">>}
=============================================================================
