----------------------------- MODULE MCConsole -----------------------------
EXTENDS Console

Keys == <<"s", "w", " ", "1", "f", " ", "4", CR, "l", "w", " ", "4", CR>>
Typed == {Keys,
          <<"s", "h", " ", "1", "2", "3", "4", " ", "6", CR, "l", "h", "u", CR, "6", " ">>,
          <<"s", "b", " ", "1", "2", "3", " ", "5", CR, "l", "b", "u", " ", "5", CR>>,
          <<"r", "u", "n", CR, "j", "a", "l", " ", "8", CR>>,
          <<"f", "i", "l", "e", " ", "0", " ", "0", CR, "x", "y", "z">>,
          <<BS, "u", DEL, DEL, "u", "u", "u", "u", "u", "u", "u", "u", "u", "u", "u">>}
Pending == {<<"l", "w">>, <<"s", "w", " ">>, <<"u", "u">>}
Sessions == Typed \cup Pending
Keyboard == UNION {ToSet(s) : s \in Sessions}
Bios == {"bios"}
Image == <<16909060, 287454020>>
All == {"bios", "parse", "echo"}
Memory == 0..15
=============================================================================
