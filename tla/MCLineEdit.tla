----------------------------- MODULE MCLineEdit -----------------------------
(* File names for the run of LineEdit: "a" begins two of them and "aa" one; *)
(* after a blank all match, and the third is what the first two share.      *)
(* Without names and blanks no line ends in a blank.                        *)
EXTENDS LineEdit

MCNames   == << <<"b", "a">>, <<"b", "b">>, <<"b">>, <<"a", "b">>, <<"a", "a">> >>
MCNoNames == <<>>
=============================================================================
