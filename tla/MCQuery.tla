------------------------------- MODULE MCQuery -------------------------------
(* Command lines, timezones and jobs for the TLC runs of Query.            *)
EXTENDS Query, TLC

Good == <<2024, 2, 29, 12, 30, 45>>
Text(bytes, num) == [bytes |-> bytes, num |-> num]
Full == ToSecond("T")

(* Every text one slip away from a good one: a piece dropped, replaced or  *)
(* put in, and for the bare date every text two slips away.  An argument   *)
(* is a String: "u" and "v" come together.                                 *)
Slips == {<<"d">>, <<"-">>, <<":">>, <<"T">>, <<" ">>, <<"x">>, <<"u", "v">>}
Cut(b, i, piece, j) == SubSeq(b, 1, i) \o piece \o SubSeq(b, j, Len(b))
Near(b, pieces) ==
  {Cut(b, i - 1, <<>>, i + 1) : i \in DOMAIN b}
  \cup {Cut(b, i - 1, s, i + 1) : i \in DOMAIN b, s \in pieces}
  \cup {Cut(b, i, s, i + 1) : i \in 0..Len(b), s \in pieces}

Texts ==
  LET near == UNION {Near(b, Slips) : b \in Now \cup Shapes}
      twice == UNION {Near(b, {<<"d">>, <<"-">>}) : b \in Near(Date, {<<"d">>, <<"-">>})}
  IN  {Text(b, Good) : b \in Now \cup Shapes \cup {<<>>} \cup near \cup twice}

(* Around every kind of year, month and day, and beyond the clock's ends.  *)
Years == {0, 1, 3, 4, 5, 99, 100, 101, 399, 400, 401, 1599, 1600, 1900, 1969, 1970, 1972, 1999,
          2000, 2001, 2023, 2024, 2100, 2400, 9996, 9999}
Dates ==
  {Text(Full, <<y, m, d, 12, 30, 45>>) :
     y \in Years, m \in 0..13, d \in {0, 1, 28, 29, 30, 31, 32}}
  \cup {Text(Full, <<1999, 12, 31, h, mi, s>>) :
          h \in {0, 23, 24}, mi \in {0, 59, 60}, s \in {0, 59, 60}}

NowText == Text(<<"n", "o", "w">>, Good)
Late == Text(Date, <<9999, 12, 31, 0, 0, 0>>)
Today == Text(Date, <<2024, 10, 4, 0, 0, 0>>)      \* ThisDay
Utc == [resolved |-> TRUE, now |-> 0, otherwise |-> 0]
London == [Utc EXCEPT !.otherwise = 3600]
Zones ==
  {Utc, London, [Utc EXCEPT !.now = 30], [Utc EXCEPT !.now = -30], [Utc EXCEPT !.now = 3600],
   [Utc EXCEPT !.now = -4 * 3600], [Utc EXCEPT !.now = 60], [Utc EXCEPT !.now = -60],
   [Utc EXCEPT !.resolved = FALSE]}

Line(s, e, a, z) == [start |-> s, end |-> e, accounts |-> a, markers |-> TRUE, zone |-> z]

OneFoo == <<<<"foo">>>>
Lists ==
  {<<<<>>>>, <<<<>>, <<" ">>>>, OneFoo, <<<<" ", "Foo">>>>, <<<<"Foo", " ">>, <<>>>>,
   <<<<"foo">>, <<"BAR">>>>, <<<<>>, <<" ", "BAR", " ">>>>, <<<<"foo">>, <<"Foo">>>>, <<<<"baz">>>>}
Lower == ("foo" :> "foo") @@ ("Foo" :> "foo") @@ ("BAR" :> "bar") @@ ("baz" :> "baz")

CommandLines ==
  {Line(t, Late, OneFoo, Utc) : t \in Texts \cup Dates}
  \cup {Line(Today, t, OneFoo, Utc) : t \in Dates}
  \cup {Line(s, e, a, z) : s \in {NowText, Today}, e \in {NowText, Late}, a \in Lists, z \in Zones}
  \cup {[Line(s, e, OneFoo, Utc) EXCEPT !.markers = FALSE] :
           s \in {NowText, Late}, e \in {NowText, Today}}

Winter == {Line(Today, Late, OneFoo, London)}

(* Jobs of two accounts, over before the day, on it, and long after.       *)
SomeJobs ==
  [account : {"foo", "bar"}, flags : {0, 16}, latest : {TRUE},
   from : {<<19998, 0>>}, to : {<<19999, 0>>, <<20000, 5>>}]
  \cup [account : {"foo", "bar"}, flags : {16}, latest : BOOLEAN,
        from : {<<20000, 1>>, <<30000, 0>>}, to : {<<30000, 9>>}]
=============================================================================
