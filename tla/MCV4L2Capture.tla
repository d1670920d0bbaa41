---------------------------- MODULE MCV4L2Capture -----------------------------
EXTENDS V4L2Capture

Option(letter, value) == [opt |-> letter, val |-> value, ok |-> TRUE]
Bad(letter) == [opt |-> letter, val |-> 0, ok |-> FALSE]

\* The defaults, a picture kept by the driver (-w 0), a later option that overrides an
\* earlier one, a one-byte format, an odd side, and two refused command lines.
MCCommandLines ==
  { <<>>,
    <<Option("w", 0)>>,
    <<Option("h", 4), Option("w", 2), Option("h", 2)>>,
    <<Option("f", "GREY"), Option("other", 0)>>,
    <<Option("h", 3)>>,
    <<Option("w", 2), Bad("f"), Option("w", 4)>>,
    <<Option("?", 0)>> }

MCDriverFormats == [w : {2, 4}, h : {2}, f : {"YUYV"}]
===============================================================================
