------------------------------- MODULE MCMultiCopy -------------------------------
(* Two texts of the app and one of another application, as model values.          *)
EXTENDS MultiCopy

CONSTANTS userName, password, otherText

MCTexts   == {userName, password}
MCForeign == {otherText}
==================================================================================
