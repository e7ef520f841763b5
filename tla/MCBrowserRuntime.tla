-------------------------- MODULE MCBrowserRuntime --------------------------
(* One provider, the optional one after another, and the two with a        *)
(* synthesis; an action budget that runs out in the second or third.       *)
EXTENDS BrowserRuntime

MCSelections == {<<"chatgpt">>, <<"chatgpt", "claude">>, <<"gemini", "chatgpt">>}
=============================================================================
