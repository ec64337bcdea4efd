------------------------------ MODULE MCDevice ------------------------------
(* TLC instance of Device. *)
EXTENDS Device

Name(text, len) == [text |-> text, len |-> len]

\* A network, the same one with a longer name and password than the driver's
\* buffers hold, and none.
Home == [ssid |-> Name("home", 4), password |-> Name("secret", 6)]
Long == [ssid |-> Name("longname", 32), password |-> Name("longkey", 64)]

MCBuilds == {"wifi", "ethernet"}
MCCredentials == {Home, Long, NoCredentials}
MCNetworks == {Home, Long}
MCGateways == {"10.0.0.1", "10.0.0.2"}

\* With 6 and 2 bits, 4 ms and 2 ticks to the second: one request, three, for
\* which only the conversion to ticks wraps, requests without end, and 63 of
\* them, which the sequence number does not reach either.
MCCounts == {1, 3, 0, -1}

LiveSpec == DeviceSpec /\ DeviceFairness
=============================================================================
