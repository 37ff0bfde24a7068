---------------------------- MODULE MCLifecycle -----------------------------
(* A logger, two devices and a presentation; the device a has the address  *)
(* that the auto enumeration e may come upon under the name x.             *)
EXTENDS Lifecycle, TLC

CONSTANTS loggers, devices, presentations, l, e, a, x, p, addr

MCBoot == <<loggers, devices, presentations>>

MCListed ==
    (loggers :> <<l>>) @@ (devices :> <<e, a>>) @@ (presentations :> <<p>>)

MCManagerOf ==
    (l :> loggers) @@ (e :> devices) @@ (a :> devices) @@ (x :> devices)
        @@ (p :> presentations)

MCAddress ==
    (l :> NoAddress) @@ (e :> NoAddress) @@ (a :> addr) @@ (x :> addr)
        @@ (p :> NoAddress)
=============================================================================
