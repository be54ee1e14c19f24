--------------------------- MODULE MCFraudAnalysis ---------------------------
(* Sources of up to seven rows.  The drawn ones combine shapes of payments    *)
(* freely; the built ones are bursts and campaigns that need five rows and    *)
(* more.  The thresholds are those of the code, only the pages are smaller.   *)
EXTENDS FraudAnalysis

CONSTANTS Ann, Bob, Cid, here, there, away, far, card, stolen, phone, clone

Pay(customer, city, amount, payment, device, channel) ==
    [customer |-> customer, city |-> city, amount |-> amount, payment |-> payment,
     device |-> device, channel |-> channel]

Live == "customer_terminal"

\* The payments shapes at the times given, row bad of them in the form given;
\* ids descend when the rows of a minute are not in the order of their ids.
Table(shapes, times, bad, form, ascending) ==
    [i \in DOMAIN shapes |->
        [form |-> IF i = bad THEN form ELSE "row", index |-> i,
         id |-> IF ascending THEN i ELSE 9 - i, time |-> times[i],
         customer |-> shapes[i].customer, city |-> shapes[i].city,
         amount |-> shapes[i].amount, payment |-> shapes[i].payment,
         device |-> shapes[i].device, channel |-> shapes[i].channel]]

Good(shapes, times) == Table(shapes, times, 0, "row", TRUE)

Times == {<<0, 4, 8, 9>>, <<0, 0, 9, 19>>, <<0, 30, 60, 61>>}

LiveShapes == {Pay(Ann, here, 12, card, phone, Live), Pay(Ann, there, 12, card, clone, Live),
               Pay(Bob, away, 12, stolen, clone, Live), Pay(Blank, there, 1, card, Blank, Live),
               Pay(Bob, here, 1, Blank, Blank, Live), Pay(Ann, far, 12, stolen, Blank, Live)}

ExportShapes == {Pay(Ann, here, 12, card, phone, "web"), Pay(Ann, there, 12, card, Blank, "desk"),
                 Pay(Bob, away, 12, stolen, phone, "web"), Pay(Blank, there, 8, stolen, Blank, "web"),
                 Pay(Ann, far, 15, Blank, clone, "web")}

\* Six payments of one customer within five minutes, and one more.
Burst(channel) ==
    [i \in 1 .. 7 |-> Pay(Ann, <<here, there, away>>[(i % 3) + 1], 1,
                          IF i % 2 = 0 THEN card ELSE stolen,
                          IF i < 4 THEN phone ELSE clone, channel)]

\* One device or card in four cities, under two customers.
Copied(payment, device, channel) ==
    [i \in 1 .. 6 |-> Pay(IF i < 4 THEN Ann ELSE Bob,
                          <<here, there, away, far>>[(i % 4) + 1], i, payment, device, channel)]

\* Three customers who each hop once.
Campaign(channel) ==
    [i \in 1 .. 6 |-> Pay(<<Ann, Bob, Cid>>[(i + 1) \div 2],
                          IF i % 2 = 0 THEN here ELSE there, 1, card, phone, channel)]

\* One customer whose card and device change in turn.
Turns(channel) ==
    [i \in 1 .. 4 |-> Pay(Ann, IF i % 2 = 0 THEN here ELSE there, 4,
                          IF i < 3 THEN card ELSE stolen,
                          IF i \in {2, 3} THEN phone ELSE clone, channel)]

\* A dear trip of one customer whose cheap first hop another shares.
Mixed(channel) ==
    <<Pay(Ann, here, 1, card, phone, channel), Pay(Bob, there, 1, card, Blank, channel),
      Pay(Ann, there, 15, stolen, phone, channel), Pay(Bob, away, 20, stolen, clone, channel),
      Pay(Ann, away, 15, stolen, clone, channel), Pay(Cid, far, 15, stolen, phone, channel)>>

\* Dear payments in several cities that share nothing but the lack of a device.
Strangers(channel) ==
    <<Pay(Ann, here, 12, card, Blank, channel), Pay(Bob, there, 12, stolen, Blank, channel),
      Pay(Cid, away, 12, Blank, Blank, channel)>>

Quick == <<0, 1, 2, 3, 4, 5, 5>>
Spread == <<0, 2, 60, 62, 100, 109, 200>>
Close == <<0, 9, 12, 20, 25, 26, 90>>

Built(channel) ==
    {Good(shapes, times) :
        shapes \in {Burst(channel), Copied(Blank, clone, channel), Copied(stolen, Blank, channel), Campaign(channel), Turns(channel),
                    Mixed(channel), Strangers(channel)},
        times \in {Quick, Spread, Close}}

MCHistories ==
    {Good(shapes, times) : shapes \in [1 .. 4 -> LiveShapes], times \in Times} \cup
    Built(Live) \cup
    {Table(Campaign(Live), Spread, bad, form, TRUE) :
        bad \in {1, 4, 6}, form \in {"malformed", "unnamed"}} \cup
    {<<>>, Good(SubSeq(Campaign(Live), 1, 4), Close)}

MCExports ==
    {Table(shapes, times, 0, "row", FALSE) :
        shapes \in [1 .. 4 -> ExportShapes], times \in Times \cup {<<60, 9, 0, 5>>}} \cup
    Built("web") \cup Built("desk") \cup
    {Table(Campaign("web"), Close, 3, form, TRUE) : form \in {"malformed", "unnamed"}}
===============================================================================
