---- MODULE MCOffice ----
(***************************************************************************)
(* The instance of each part of the Office that TLC checks.                *)
(***************************************************************************)
EXTENDS Office, TLC

\* Alerts: two professionals; an appointment is edited once, and one thing changes around it.
Seg(p, v, t) == [staff |-> p, service |-> v, start |-> t]
MCAlertPlans == {{Seg(1, 1, 1)}, {Seg(1, 1, 2), Seg(Nothing, 2, 1)}, {Seg(2, 1, 1)}}

\* Times: a day of eight steps of a business of three people.
Between(a, b) == [from |-> a, to |-> b]
Service(length, category, self, by) == [length |-> length, category |-> category, self |-> self, by |-> by]
MCServices == [cut |-> Service(3, Nothing, TRUE, {1, 2}), hands |-> Service(2, 1, TRUE, {1, 2}),
               feet |-> Service(1, 2, TRUE, {1}), brow |-> Service(1, 3, TRUE, {2, 3}),
               laser |-> Service(1, 3, FALSE, {2, 3})]
MCParallel == {{1, 2}, {1, 3}, {2, 3}}
MCHours == {{Between(0, 4), Between(5, 8)}, {Between(0, 7)}}
MCShifts == {[custom |-> FALSE, rows |-> {}], [custom |-> TRUE, rows |-> {Between(2, 6)}]}
MCBlockRows == {[who |-> Nothing, from |-> 2, to |-> 3], [who |-> 1, from |-> 4, to |-> 6]}
Item(v, p) == [service |-> v, staff |-> p]
Asked(items, single, panel) == [items |-> items, single |-> single, panel |-> panel]
MCRequests ==
  {Asked(<<Item("cut", Nothing)>>, FALSE, FALSE),
   Asked(<<Item("laser", 2)>>, FALSE, TRUE),
   Asked(<<Item("laser", 2)>>, FALSE, FALSE),
   Asked(<<Item("hands", 1), Item("feet", 1)>>, FALSE, TRUE),
   Asked(<<Item("hands", 1), Item("brow", 2)>>, FALSE, TRUE),
   Asked(<<Item("cut", Nothing), Item("brow", Nothing)>>, TRUE, FALSE),
   Asked(<<Item("hands", Nothing), Item("feet", Nothing), Item("brow", Nothing)>>, FALSE, FALSE)}

\* Cards: a client from here and one from abroad; both are in the file, one of them twice.
Contact(p, n, plus) == [who |-> p, n |-> n, plus |-> plus]
MCNumber == (1 :> <<57, 8>>) @@ (2 :> <<54, 9>>)
MCFiles == {<<Contact(1, <<8>>, FALSE), Contact(2, <<54, 9>>, TRUE), Contact(1, <<57, 8>>, TRUE)>>}

\* Link: two businesses and two numbers; the first was connected before the template existed.
MCWaba == <<11, 12>>
MCConnected0 == {<<1, Nothing>>}

\* Money: months of four, three, five, four and five days; a trial of one.
MCFirstDay == <<1, 5, 8, 13, 17, 22>>

\* Desk: two professionals, a service with a price in one currency and one that is quoted in
\* another; days of two instants, weeks of three days, a month that begins on the second of the two days.
MCNoPrice == 0 - 1
OnSale(price, cur) == [price |-> price, cur |-> cur, active |-> TRUE]
MCCatalogue0 == [cut |-> OnSale(755, 1), peel |-> OnSale(MCNoPrice, 2)]
MCPrices == {MCNoPrice, 755}
MCRates == {MCNoPrice, 30}
MCDeskPlans == {<<Item("cut", 1)>>, <<Item("cut", 1), Item("peel", 1), Item("cut", 2)>>}
MCMonths == <<0 - 9, 0 - 6, 0 - 2, 1, 9>>

\* Images: a gallery and a portfolio of two photos.
MCMaxPhotos == [gallery |-> 2, portfolio |-> 2]
====
