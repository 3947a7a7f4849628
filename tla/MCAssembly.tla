---------------------------- MODULE MCAssembly ----------------------------
(***************************************************************************)
(* GuavaAssembly on three messages: GET /a?b=c&d=e with Host and two       *)
(* cookies; POST /p with a form of two fields; and one whose query and     *)
(* whose form have a field without '='.  Names and values are a few chars  *)
(* long: what matters is that each may be cut.                             *)
(***************************************************************************)
EXTENDS GuavaAssembly

Ha == <<72, 97>>                       \* Ha, for Host
Co == <<67, 111>>                      \* Co, for Cookie
Ct == <<67, 116>>                      \* Ct, for Content-Type
Form == <<102, 111>>                   \* fo, for the form content type

Get == [url |-> <<SLASH, 97, QM, 98, EQ, 99, AMP, 100, EQ, 101>>,
        headers |-> <<[name |-> Ha, value |-> <<104, 104>>],
                      [name |-> Co, value |-> <<115, EQ, 49, SEMI, SP, 116, EQ, 50>>],
                      [name |-> <<88>>, value |-> <<>>]>>,
        body |-> <<>>]

Post == [url |-> <<SLASH, 112>>,
         headers |-> <<[name |-> Ct, value |-> Form]>>,
         body |-> <<97, EQ, 49, PLUS, AMP, 98, 99, EQ, 50>>]

\* Neither its query nor its form is well formed.
Bad == [url |-> <<SLASH, QM, 97, AMP, 98, EQ>>,
        headers |-> <<[name |-> Ct, value |-> Form], [name |-> Ct, value |-> Form]>>,
        body |-> <<97, AMP, 98, EQ>>]

Messages == {Get, Post, Bad}
============================================================================
