------------------------------ MODULE MCDialog ------------------------------
(* Dialog and Listens for TLC: two questions asked in the browser, one with *)
(* buttons, or one line that is said there.                                 *)
EXTENDS Listens

MCDashboards == {{<<1, "listen">>, <<2, "listen">>},
                 {<<1, "listen">>, <<1, "choose">>},
                 {<<1, "speak">>}}
=============================================================================
