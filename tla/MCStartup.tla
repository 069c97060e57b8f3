------------------------------ MODULE MCStartup ------------------------------
(* TLC instance of Startup.  With the focus on main, every start; with it on *)
(* a part, the start that leads to it.  Pages call with a string that has to *)
(* be escaped, and with one that the parser of the library refuses.          *)
EXTENDS Startup

MCStart(f, t, dev, found) ==
  [focus |-> f, theme |-> t, devMode |-> dev, haveCompositor |-> found]

MCStarts ==
  {s \in Start : s.focus = "main"} \union
  {MCStart("metal", "native", FALSE, FALSE), MCStart("scale", "web", FALSE, TRUE),
   MCStart("webview", "web", FALSE, TRUE)}

MCArgs ==
  {<<"x", "\"", "]", "\\", "LEAD2", "CONT", "CONT">>, <<"DEL">>}

MCRespond(r) ==
  IF r = <<>> THEN <<"y">> ELSE <<"\\", "\"", "US", "\n">>

MCSystem(links, wkminor, wayland) ==
  [links |-> links, wkminor |-> wkminor, WAYLAND_DISPLAY |-> wayland,
   gdk_x11 |-> ~wayland, nvidia |-> TRUE]

MCSystems ==
  {MCSystem({}, 42, FALSE), MCSystem({"libwebkit2gtk-4.1.so"}, 42, TRUE),
   MCSystem({"libwebkit2gtk-4.0.so"}, 38, FALSE)}

\* What the theorems about calls rest on, for these strings.
ASSUME MCTextsAssumption == TextsSurvive
=============================================================================
