----------------------- MODULE CommandRecording_proofs -----------------------
(***************************************************************************)
(* Proofs about CommandRecording.  The driver's table of a device has an    *)
(* entry for every buffer the application holds of it, the host's buffers   *)
(* in it belong to that device and to one entry each, and device_magic is   *)
(* the device created last, the only one of an application that keeps one.  *)
(***************************************************************************)
EXTENDS CommandRecording, TLAPS

Entry(d, b) == devices[d].buffers[b]

DevicesAreTracked ==
    /\ devices[None] = None
    /\ \A d \in DeviceHandle : devices[d] # None <=> d \in app_devices
    /\ app_devices \subseteq host_devices
    /\ ~several => app_devices \subseteq {device_magic}
    /\ device_magic = latest

\* Nothing is left of a device the application does not hold.
NothingIsLeft ==
    \A d \in DeviceHandle \ app_devices :
        app_buffers[d] = {} /\ command_buffer[d] = "initial" /\ recorded[d] = {}

BuffersAreHeld ==
    \A d \in app_devices : \A b \in app_buffers[d] : Entry(d, b) # None

BuffersAreFresh ==
    \A d \in app_devices : \A b \in Buffer :
        b >= devices[d].buffer_handler_id => Entry(d, b) = None

BuffersAreOwned ==
    \A d \in app_devices : \A b \in Buffer :
        Entry(d, b) \in HostBuffer =>
            /\ host_buffers[Entry(d, b)] = d
            /\ \A c \in Buffer : Entry(d, c) = Entry(d, b) => c = b

\* A recorded command names buffers the application still holds.
NamedAreHeld ==
    \A d \in DeviceHandle : \A c \in recorded[d] : \A i \in DOMAIN c.named :
        c.named[i] \in app_buffers[d]

RecordedAsHeld ==
    ~several =>
        \A d \in app_devices : \A c \in recorded[d] : c.translated =>
            \A i \in DOMAIN c.named : c.host[i] = Entry(d, c.named[i])

Tables == BuffersAreHeld /\ BuffersAreFresh /\ BuffersAreOwned
Commands == NamedAreHeld /\ RecordedAsHeld /\ CommandsArrive

RecordingInv == TypeOK /\ DevicesAreTracked /\ NothingIsLeft /\ Tables /\ Commands

-----------------------------------------------------------------------------
(* Types *)

LEMMA DeviceTypes ==
    ASSUME RecordingInv, NEW d \in app_devices
    PROVE  /\ d \in DeviceHandle /\ devices[d] \in Device
           /\ devices[d].buffer_handler_id \in 1 .. MaxBuffer + 1
           /\ \A b \in Buffer : Entry(d, b) \in HostValue \cup {None}
BY DEF RecordingInv, TypeOK, DevicesAreTracked, Device, Entry

LEMMA CommandTypes ==
    ASSUME TypeOK, NEW d \in DeviceHandle, NEW c \in recorded[d]
    PROVE  c \in Command /\ c.named \in Named /\ DOMAIN c.host = DOMAIN c.named
BY DEF TypeOK, Command

LEMMA NamedTypes ==
    ASSUME NEW named \in Named
    PROVE  /\ \A i \in DOMAIN named : named[i] \in Buffer
           /\ DOMAIN named = 1 .. 1 \/ DOMAIN named = 1 .. 2
<1>1. CASE \E b \in Buffer : named = <<b>>
    BY <1>1
<1>2. CASE \E b, c \in Buffer : named = <<b, c>>
    BY <1>2
<1> QED BY <1>1, <1>2 DEF Named

LEMMA RecordingInitially == Init => RecordingInv
<1> SUFFICES ASSUME Init PROVE RecordingInv
    OBVIOUS
<1>1. TypeOK
    BY DEF Init, TypeOK
<1>2. DevicesAreTracked /\ NothingIsLeft
    BY DEF Init, DevicesAreTracked, NothingIsLeft
<1>3. Tables /\ Commands
    BY DEF Init, Tables, Commands, BuffersAreHeld, BuffersAreFresh, BuffersAreOwned,
       NamedAreHeld, RecordedAsHeld, CommandsArrive
<1> QED BY <1>1, <1>2, <1>3 DEF RecordingInv

-----------------------------------------------------------------------------
(* Devices and their buffers *)

LEMMA CreateDeviceKeeps ==
    ASSUME RecordingInv, CreateDevice
    PROVE  RecordingInv'
<1> DEFINE new == [buffers |-> [b \in Buffer |-> None], buffer_handler_id |-> 1]
<1>1. PICK d \in DeviceHandle \ host_devices :
        /\ host_devices' = host_devices \cup {d}
        /\ device_magic' = d
        /\ devices' = [devices EXCEPT ![d] = new]
        /\ app_devices' = app_devices \cup {d}
        /\ latest' = d
    BY DEF CreateDevice, NewMagic
<1>2. /\ running /\ instance_found
      /\ several' = (several \/ app_devices # {})
      /\ UNCHANGED <<instance_found, bufferVars, commandVars, running>>
    BY DEF CreateDevice
<1>3. new \in Device /\ new # None
    <2>1. new \in Device
        BY RecordingAssumption DEF Device
    <2> QED BY <2>1, RecordingAssumption
<1>4. TypeOK'
    BY <1>1, <1>2, <1>3 DEF RecordingInv, TypeOK, bufferVars, commandVars
<1>5. /\ d \notin app_devices /\ d # None /\ devices'[d] = new /\ devices'[d] # None
      /\ \A e \in DeviceHandle \ {d} : devices'[e] = devices[e]
      /\ devices'[None] = None
    BY <1>1, <1>3, RecordingAssumption DEF RecordingInv, TypeOK, DevicesAreTracked
<1>6. DevicesAreTracked'
    BY <1>1, <1>2, <1>5 DEF RecordingInv, DevicesAreTracked
<1>7. NothingIsLeft' /\ app_buffers'[d] = {} /\ recorded'[d] = {}
    BY <1>1, <1>2, <1>5 DEF RecordingInv, NothingIsLeft, bufferVars, commandVars
<1> HIDE DEF new
<1>8. \A b \in Buffer : devices'[d].buffers[b] = None
    BY <1>5 DEF new
<1>9. \A e \in app_devices : e \in DeviceHandle \ {d}
    BY <1>5, DeviceTypes
<1>10. Tables'
    <2>1. BuffersAreHeld'
        BY <1>1, <1>2, <1>5, <1>7, <1>9
           DEF RecordingInv, Tables, BuffersAreHeld, Entry, bufferVars
    <2>2. BuffersAreFresh'
        BY <1>1, <1>5, <1>8, <1>9 DEF RecordingInv, Tables, BuffersAreFresh, Entry
    <2>3. None \notin HostBuffer
        BY RecordingAssumption DEF HostValue
    <2>4. BuffersAreOwned'
        BY <1>1, <1>2, <1>5, <1>8, <1>9, <2>3
           DEF RecordingInv, Tables, BuffersAreOwned, Entry, bufferVars
    <2> QED BY <2>1, <2>2, <2>4 DEF Tables
<1>11. Commands'
    <2>1. NamedAreHeld'
        BY <1>2 DEF RecordingInv, Commands, NamedAreHeld, bufferVars, commandVars
    <2>2. RecordedAsHeld'
        BY <1>1, <1>2, <1>5, <1>7, <1>9
           DEF RecordingInv, Commands, RecordedAsHeld, Entry, commandVars
    <2>3. CommandsArrive'
        BY <1>2 DEF RecordingInv, Commands, CommandsArrive, commandVars
    <2> QED BY <2>1, <2>2, <2>3 DEF Commands
<1> QED BY <1>4, <1>6, <1>7, <1>10, <1>11 DEF RecordingInv

LEMMA DestroyDeviceKeeps ==
    ASSUME RecordingInv, NEW d \in DeviceHandle, DestroyDevice(d)
    PROVE  RecordingInv'
<1>1. /\ d \in app_devices /\ app_buffers[d] = {}
      /\ devices' = [devices EXCEPT ![d] = None]
      /\ app_devices' = app_devices \ {d}
      /\ command_buffer' = [command_buffer EXCEPT ![d] = "initial"]
      /\ recorded' = [recorded EXCEPT ![d] = {}]
      /\ UNCHANGED <<instance_found, device_magic, host_devices, latest, several, bufferVars,
                     missed, running>>
    BY DEF DestroyDevice
<1>2. TypeOK'
    BY <1>1 DEF RecordingInv, TypeOK, bufferVars
<1>3. /\ devices'[d] = None /\ recorded'[d] = {} /\ command_buffer'[d] = "initial"
      /\ \A e \in (DeviceHandle \cup {None}) \ {d} : devices'[e] = devices[e]
      /\ \A e \in DeviceHandle \ {d} :
           recorded'[e] = recorded[e] /\ command_buffer'[e] = command_buffer[e]
    BY <1>1 DEF RecordingInv, TypeOK
<1>4. \A e \in app_devices' : e \in app_devices /\ e \in DeviceHandle \ {d}
    BY <1>1, DeviceTypes
<1>5. DevicesAreTracked'
    BY <1>1, <1>3, RecordingAssumption DEF RecordingInv, DevicesAreTracked
<1>6. NothingIsLeft'
    BY <1>1, <1>3 DEF RecordingInv, NothingIsLeft, bufferVars
<1>7. Tables'
    BY <1>1, <1>3, <1>4 DEF RecordingInv, Tables, BuffersAreHeld, BuffersAreFresh,
       BuffersAreOwned, Entry, bufferVars
<1>8. NamedAreHeld'
    BY <1>1, <1>3 DEF RecordingInv, Commands, NamedAreHeld, bufferVars
<1>9. RecordedAsHeld' /\ CommandsArrive'
    BY <1>1, <1>3, <1>4 DEF RecordingInv, Commands, RecordedAsHeld, CommandsArrive, Entry
<1> QED BY <1>2, <1>5, <1>6, <1>7, <1>8, <1>9 DEF RecordingInv, Commands

\* What registering a buffer does to the tables.
LEMMA Registered ==
    ASSUME RecordingInv, NEW d \in app_devices, NEW host \in HostValue,
           devices[d].buffer_handler_id =< MaxBuffer, Register(d, host)
    PROVE  LET n == NextBuffer(d) IN
           /\ n \in Buffer /\ Entry(d, n) = None
           /\ devices' \in [DeviceHandle \cup {None} -> Device \cup {None}]
           /\ \A e \in (DeviceHandle \cup {None}) \ {d} : devices'[e] = devices[e]
           /\ devices'[d] # None /\ devices'[d].buffer_handler_id = n + 1
           /\ devices'[d].buffers[n] = host
           /\ \A b \in Buffer \ {n} : devices'[d].buffers[b] = Entry(d, b)
<1> DEFINE n == NextBuffer(d)
<1>1. n \in Buffer /\ Entry(d, n) = None
    BY DeviceTypes, RecordingAssumption
       DEF NextBuffer, Buffer, RecordingInv, Tables, BuffersAreFresh
<1>2. /\ DOMAIN devices = DeviceHandle \cup {None} /\ d \in DeviceHandle
      /\ devices[d] \in Device
    BY DeviceTypes DEF RecordingInv, TypeOK
<1>3. devices' = [devices EXCEPT ![d] =
         [[devices[d] EXCEPT !.buffers = [@ EXCEPT ![n] = host]]
                      EXCEPT !.buffer_handler_id = n + 1]]
    BY <1>2 DEF Register, NextBuffer, Device
<1> HIDE DEF n
<1>4. devices'[d] = [[devices[d] EXCEPT !.buffers = [@ EXCEPT ![n] = host]]
                      EXCEPT !.buffer_handler_id = n + 1]
    BY <1>2, <1>3
<1>5. /\ devices'[d].buffers = [devices[d].buffers EXCEPT ![n] = host]
      /\ devices'[d].buffer_handler_id = n + 1
      /\ devices'[d] \in Device
    <2>1. PICK buffers \in [Buffer -> HostValue \cup {None}], id \in 1 .. MaxBuffer + 1 :
            devices[d] = [buffers |-> buffers, buffer_handler_id |-> id]
        BY <1>2 DEF Device
    <2>2. devices'[d] = [buffers |-> [buffers EXCEPT ![n] = host], buffer_handler_id |-> n + 1]
        <3> DEFINE set == [devices[d] EXCEPT !.buffers = [@ EXCEPT ![n] = host]]
        <3>1. set = [buffers |-> [buffers EXCEPT ![n] = host], buffer_handler_id |-> id]
            BY <2>1
        <3>2. devices'[d] = [set EXCEPT !.buffer_handler_id = n + 1]
            BY <1>4
        <3> HIDE DEF set
        <3> QED BY <3>1, <3>2
    <2>3. [buffers EXCEPT ![n] = host] \in [Buffer -> HostValue \cup {None}]
        BY <2>1
    <2>4. n + 1 \in 1 .. MaxBuffer + 1
        BY <1>1, RecordingAssumption DEF Buffer
    <2> QED BY <2>1, <2>2, <2>3, <2>4 DEF Device
<1>6. devices[d].buffers \in [Buffer -> HostValue \cup {None}]
    BY <1>2 DEF Device
<1>7. devices' \in [DeviceHandle \cup {None} -> Device \cup {None}]
    BY <1>2, <1>3, <1>4, <1>5 DEF RecordingInv, TypeOK
<1>8. devices'[d] # None
    BY <1>5, RecordingAssumption
<1>9. \A e \in (DeviceHandle \cup {None}) \ {d} : devices'[e] = devices[e]
    BY <1>2, <1>3
<1> QED BY <1>1, <1>5, <1>6, <1>7, <1>8, <1>9 DEF n, Entry

LEMMA CreateBufferKeeps ==
    ASSUME RecordingInv, NEW d \in DeviceHandle, CreateBuffer(d)
    PROVE  RecordingInv'
<1> DEFINE n == NextBuffer(d)
<1>1. /\ running /\ instance_found
      /\ d \in app_devices /\ devices[d].buffer_handler_id =< MaxBuffer
      /\ app_buffers' = [app_buffers EXCEPT ![d] = @ \cup {n}]
      /\ UNCHANGED <<instance_found, device_magic, host_devices, app_devices, latest, several,
                     commandVars, running>>
    BY DEF CreateBuffer
<1>2. PICK host \in HostValue :
        /\ Register(d, host)
        /\ \/ host = VK_NULL_HANDLE /\ UNCHANGED host_buffers
           \/ /\ host \in HostBuffer /\ host_buffers[host] = None
              /\ host_buffers' = [host_buffers EXCEPT ![host] = d]
    BY DEF CreateBuffer, HostValue
<1>3. /\ n \in Buffer /\ Entry(d, n) = None
      /\ devices' \in [DeviceHandle \cup {None} -> Device \cup {None}]
      /\ \A e \in (DeviceHandle \cup {None}) \ {d} : devices'[e] = devices[e]
      /\ devices'[d] # None /\ devices'[d].buffer_handler_id = n + 1
      /\ devices'[d].buffers[n] = host
      /\ \A b \in Buffer \ {n} : devices'[d].buffers[b] = Entry(d, b)
    BY <1>1, <1>2, Registered
<1> HIDE DEF n
<1>4. /\ app_buffers'[d] = app_buffers[d] \cup {n}
      /\ \A e \in DeviceHandle \ {d} : app_buffers'[e] = app_buffers[e]
    BY <1>1 DEF RecordingInv, TypeOK
<1>5. TypeOK'
    <2>1. host_buffers' \in [HostBuffer -> DeviceHandle \cup {None}]
        BY <1>2 DEF RecordingInv, TypeOK
    <2>2. app_buffers' \in [DeviceHandle -> SUBSET Buffer]
        BY <1>1, <1>3 DEF RecordingInv, TypeOK
    <2> QED BY <1>1, <1>3, <2>1, <2>2 DEF RecordingInv, TypeOK, commandVars
<1>6. DevicesAreTracked'
    BY <1>1, <1>3, RecordingAssumption DEF RecordingInv, DevicesAreTracked
<1>7. NothingIsLeft'
    BY <1>1, <1>4 DEF RecordingInv, NothingIsLeft, commandVars
<1>8. /\ \A e \in app_devices : e \in DeviceHandle
      /\ host # None /\ n \in Nat /\ Buffer \subseteq Nat
    BY <1>3, DeviceTypes, RecordingAssumption DEF Buffer
<1>9. Tables'
    <2>1. BuffersAreHeld'
        <3> SUFFICES ASSUME NEW e \in app_devices, NEW b \in app_buffers'[e]
                     PROVE  devices'[e].buffers[b] # None
            BY <1>1 DEF BuffersAreHeld, Entry
        <3>1. CASE e = d /\ b = n
            BY <1>3, <1>8, <3>1
        <3>2. CASE e = d /\ b # n
            <4>1. b \in app_buffers[d] /\ b \in Buffer
                BY <1>4, <3>2 DEF RecordingInv, TypeOK
            <4> QED BY <1>1, <1>3, <3>2, <4>1 DEF RecordingInv, Tables, BuffersAreHeld
        <3>3. CASE e # d
            BY <1>3, <1>4, <1>8, <3>3 DEF RecordingInv, Tables, BuffersAreHeld, Entry
        <3> QED BY <3>1, <3>2, <3>3
    <2>2. BuffersAreFresh'
        <3> SUFFICES ASSUME NEW e \in app_devices, NEW b \in Buffer,
                            b >= devices'[e].buffer_handler_id
                     PROVE  devices'[e].buffers[b] = None
            BY <1>1 DEF BuffersAreFresh, Entry
        <3>1. CASE e = d
            <4>1. b # n /\ b >= n
                BY <1>3, <1>8, <3>1
            <4> QED BY <1>1, <1>3, <3>1, <4>1
                DEF RecordingInv, Tables, BuffersAreFresh, n, NextBuffer
        <3>2. CASE e # d
            BY <1>3, <1>8, <3>2 DEF RecordingInv, Tables, BuffersAreFresh, Entry
        <3> QED BY <3>1, <3>2
    <2>3. BuffersAreOwned'
        <3> SUFFICES ASSUME NEW e \in app_devices, NEW b \in Buffer,
                            devices'[e].buffers[b] \in HostBuffer
                     PROVE  /\ host_buffers'[devices'[e].buffers[b]] = e
                            /\ \A c \in Buffer :
                                 devices'[e].buffers[c] = devices'[e].buffers[b] => c = b
            BY <1>1 DEF BuffersAreOwned, Entry
        <3>1. \A f \in app_devices : \A c \in Buffer :
                 Entry(f, c) \in HostBuffer =>
                    /\ host # VK_NULL_HANDLE => Entry(f, c) # host
                    /\ host_buffers'[Entry(f, c)] = f
            <4> SUFFICES ASSUME NEW f \in app_devices, NEW c \in Buffer,
                                Entry(f, c) \in HostBuffer
                         PROVE  /\ host # VK_NULL_HANDLE => Entry(f, c) # host
                                /\ host_buffers'[Entry(f, c)] = f
                OBVIOUS
            <4>1. host_buffers[Entry(f, c)] = f /\ f # None
                BY <1>8, RecordingAssumption DEF RecordingInv, Tables, BuffersAreOwned
            <4> QED BY <1>2, <4>1 DEF RecordingInv, TypeOK
        <3>2. VK_NULL_HANDLE \notin HostBuffer
            BY RecordingAssumption
        <3>3. CASE e # d
            <4>1. \A c \in Buffer : devices'[e].buffers[c] = Entry(e, c)
                BY <1>3, <1>8, <3>3 DEF Entry
            <4> QED BY <3>1, <4>1 DEF RecordingInv, Tables, BuffersAreOwned
        <3>4. CASE e = d /\ b = n
            <4>1. host \in HostBuffer /\ host_buffers'[host] = d
                BY <1>2, <1>3, <3>2, <3>4 DEF RecordingInv, TypeOK
            <4>2. \A c \in Buffer \ {n} : devices'[d].buffers[c] # host
                BY <1>1, <1>3, <3>1, <3>2, <4>1
            <4> QED BY <1>3, <3>4, <4>1, <4>2
        <3>5. CASE e = d /\ b # n
            <4>1. devices'[d].buffers[b] = Entry(d, b) /\ Entry(d, b) \in HostBuffer
                BY <1>3, <3>5
            <4>2. host_buffers'[Entry(d, b)] = d /\ Entry(d, b) # host
                BY <1>1, <3>1, <3>2, <4>1
            <4>3. \A c \in Buffer \ {n} :
                    devices'[d].buffers[c] = devices'[d].buffers[b] => c = b
                BY <1>1, <1>3, <4>1 DEF RecordingInv, Tables, BuffersAreOwned
            <4> QED BY <1>3, <3>5, <4>1, <4>2, <4>3
        <3> QED BY <3>3, <3>4, <3>5
    <2> QED BY <2>1, <2>2, <2>3 DEF Tables
<1>10. NamedAreHeld'
    BY <1>1, <1>4 DEF RecordingInv, Commands, NamedAreHeld, commandVars
<1>11. RecordedAsHeld'
    <2> SUFFICES ASSUME ~several, NEW e \in app_devices, NEW c \in recorded[e], c.translated,
                        NEW i \in DOMAIN c.named
                 PROVE  c.host[i] = devices'[e].buffers[c.named[i]]
        BY <1>1 DEF RecordedAsHeld, Entry, commandVars
    <2>1. e \in DeviceHandle
        BY <1>8
    <2>2. c.host[i] = Entry(e, c.named[i]) /\ c.named[i] \in app_buffers[e]
        BY <2>1 DEF RecordingInv, Commands, RecordedAsHeld, NamedAreHeld
    <2>3. Entry(e, c.named[i]) # None /\ c.named[i] \in Buffer
        BY <2>1, <2>2 DEF RecordingInv, TypeOK, Tables, BuffersAreHeld
    <2>4. CASE e = d
        BY <1>3, <2>2, <2>3, <2>4
    <2>5. CASE e # d
        BY <1>3, <2>1, <2>2, <2>5 DEF Entry
    <2> QED BY <2>4, <2>5
<1>12. CommandsArrive'
    BY <1>1 DEF RecordingInv, Commands, CommandsArrive, commandVars
<1> QED BY <1>5, <1>6, <1>7, <1>9, <1>10, <1>11, <1>12 DEF RecordingInv, Commands

LEMMA DestroyBufferKeeps ==
    ASSUME RecordingInv, NEW d \in DeviceHandle, NEW b \in Buffer, DestroyBuffer(d, b)
    PROVE  RecordingInv'
<1>1. /\ d \in app_devices /\ b \in app_buffers[d] /\ ~Names(d, b)
      /\ app_buffers' = [app_buffers EXCEPT ![d] = @ \ {b}]
      /\ UNCHANGED <<instance_found, device_magic, host_devices, app_devices, latest, several,
                     commandVars, running>>
    BY DEF DestroyBuffer
<1>2. /\ app_buffers'[d] = app_buffers[d] \ {b}
      /\ \A e \in DeviceHandle \ {d} : app_buffers'[e] = app_buffers[e]
      /\ app_buffers' \in [DeviceHandle -> SUBSET Buffer]
    BY <1>1 DEF RecordingInv, TypeOK
<1>3. NothingIsLeft' /\ CommandsArrive'
    BY <1>1, <1>2 DEF RecordingInv, NothingIsLeft, Commands, CommandsArrive, commandVars
<1>4. NamedAreHeld'
    <2> SUFFICES ASSUME NEW e \in DeviceHandle, NEW c \in recorded[e], NEW i \in DOMAIN c.named
                 PROVE  c.named[i] \in app_buffers'[e]
        BY <1>1 DEF NamedAreHeld, commandVars
    <2>1. c.named[i] \in app_buffers[e]
        BY DEF RecordingInv, Commands, NamedAreHeld
    <2>2. e = d => c.named[i] # b
        BY <1>1 DEF Names
    <2> QED BY <1>2, <2>1, <2>2
<1>5. \A e \in app_devices : e \in DeviceHandle
    BY DeviceTypes
<1>6. CASE UNCHANGED <<host_buffers, devices>>
    <2>1. TypeOK' /\ DevicesAreTracked'
        BY <1>1, <1>2, <1>6 DEF RecordingInv, TypeOK, DevicesAreTracked, commandVars
    <2>2. Tables'
        BY <1>1, <1>2, <1>5, <1>6 DEF RecordingInv, Tables, BuffersAreHeld, BuffersAreFresh,
           BuffersAreOwned, Entry
    <2>3. RecordedAsHeld'
        BY <1>1, <1>6 DEF RecordingInv, Commands, RecordedAsHeld, Entry, commandVars
    <2> QED BY <1>3, <1>4, <2>1, <2>2, <2>3 DEF RecordingInv, Commands
<1>7. CASE /\ host_buffers' = [h \in HostBuffer |->
                IF h = devices[d].buffers[b] THEN None ELSE host_buffers[h]]
           /\ devices' = [devices EXCEPT ![d].buffers[b] = None]
    <2>1. PICK buffers \in [Buffer -> HostValue \cup {None}], id \in 1 .. MaxBuffer + 1 :
            devices[d] = [buffers |-> buffers, buffer_handler_id |-> id]
        BY <1>1, DeviceTypes DEF Device
    <2>2. devices'[d] = [buffers |-> [buffers EXCEPT ![b] = None], buffer_handler_id |-> id]
        BY <1>7, <2>1 DEF RecordingInv, TypeOK
    <2>3. [buffers EXCEPT ![b] = None] \in [Buffer -> HostValue \cup {None}]
        BY <2>1
    <2>4. devices'[d] \in Device /\ devices'[d] # None
        BY <2>2, <2>3, RecordingAssumption DEF Device
    <2>5. \A e \in (DeviceHandle \cup {None}) \ {d} : devices'[e] = devices[e]
        BY <1>7 DEF RecordingInv, TypeOK
    <2>6. /\ devices'[d].buffer_handler_id = devices[d].buffer_handler_id
          /\ devices'[d].buffers[b] = None
          /\ \A c \in Buffer \ {b} : devices'[d].buffers[c] = Entry(d, c)
        BY <2>1, <2>2 DEF Entry
    <2>7. TypeOK'
        <3>1. devices' \in [DeviceHandle \cup {None} -> Device \cup {None}]
            BY <1>7, <2>4, <2>5 DEF RecordingInv, TypeOK
        <3>2. host_buffers' \in [HostBuffer -> DeviceHandle \cup {None}]
            BY <1>7 DEF RecordingInv, TypeOK
        <3> QED BY <1>1, <1>2, <3>1, <3>2 DEF RecordingInv, TypeOK, commandVars
    <2>8. DevicesAreTracked'
        BY <1>1, <2>4, <2>5, RecordingAssumption DEF RecordingInv, DevicesAreTracked
    <2>9. BuffersAreHeld'
        <3> SUFFICES ASSUME NEW e \in app_devices, NEW c \in app_buffers'[e]
                     PROVE  devices'[e].buffers[c] # None
            BY <1>1 DEF BuffersAreHeld, Entry
        <3>1. c \in app_buffers[e] /\ c \in Buffer /\ (e = d => c # b)
            BY <1>2, <1>5
        <3>2. Entry(e, c) # None
            BY <3>1 DEF RecordingInv, Tables, BuffersAreHeld
        <3> QED BY <1>5, <2>5, <2>6, <3>1, <3>2 DEF Entry
    <2>10. BuffersAreFresh'
        <3> SUFFICES ASSUME NEW e \in app_devices, NEW c \in Buffer,
                            c >= devices'[e].buffer_handler_id
                     PROVE  devices'[e].buffers[c] = None
            BY <1>1 DEF BuffersAreFresh, Entry
        <3>1. CASE e = d
            BY <2>6, <3>1 DEF RecordingInv, Tables, BuffersAreFresh
        <3>2. CASE e # d
            BY <1>5, <2>5, <3>2 DEF RecordingInv, Tables, BuffersAreFresh, Entry
        <3> QED BY <3>1, <3>2
    <2>11. BuffersAreOwned'
        <3> SUFFICES ASSUME NEW e \in app_devices, NEW c \in Buffer,
                            devices'[e].buffers[c] \in HostBuffer
                     PROVE  /\ host_buffers'[devices'[e].buffers[c]] = e
                            /\ \A g \in Buffer :
                                 devices'[e].buffers[g] = devices'[e].buffers[c] => g = c
            BY <1>1 DEF BuffersAreOwned, Entry
        <3>1. None \notin HostBuffer
            BY RecordingAssumption DEF HostValue
        <3>2. /\ devices'[e].buffers[c] = Entry(e, c) /\ Entry(e, c) \in HostBuffer
              /\ e = d => c # b
            BY <1>5, <2>5, <2>6, <3>1 DEF Entry
        <3>3. /\ host_buffers[Entry(e, c)] = e
              /\ \A g \in Buffer : Entry(e, g) = Entry(e, c) => g = c
            BY <3>2 DEF RecordingInv, Tables, BuffersAreOwned
        <3>4. Entry(e, c) # Entry(d, b)
            <4>1. CASE e = d
                BY <3>2, <3>3, <4>1
            <4>2. CASE e # d
                BY <1>1, <3>2, <3>3, <4>2 DEF RecordingInv, Tables, BuffersAreOwned
            <4> QED BY <4>1, <4>2
        <3>5. host_buffers'[Entry(e, c)] = e
            BY <1>7, <3>2, <3>3, <3>4 DEF Entry
        <3>6. \A g \in Buffer : devices'[e].buffers[g] = Entry(e, g) \/ devices'[e].buffers[g] = None
            BY <1>5, <2>5, <2>6 DEF Entry
        <3> QED BY <3>1, <3>2, <3>3, <3>5, <3>6
    <2>12. RecordedAsHeld'
        <3> SUFFICES ASSUME ~several, NEW e \in app_devices, NEW c \in recorded[e], c.translated,
                            NEW i \in DOMAIN c.named
                     PROVE  c.host[i] = devices'[e].buffers[c.named[i]]
            BY <1>1 DEF RecordedAsHeld, Entry, commandVars
        <3>1. c.host[i] = Entry(e, c.named[i]) /\ c.named[i] \in app_buffers[e]
            BY <1>5 DEF RecordingInv, Commands, RecordedAsHeld, NamedAreHeld
        <3>2. c.named[i] \in Buffer /\ (e = d => c.named[i] # b)
            BY <1>1, <1>5, <3>1 DEF RecordingInv, TypeOK, Names
        <3> QED BY <1>5, <2>5, <2>6, <3>1, <3>2 DEF Entry
    <2> QED BY <1>3, <1>4, <2>7, <2>8, <2>9, <2>10, <2>11, <2>12 DEF RecordingInv, Commands, Tables
<1> QED BY <1>6, <1>7 DEF DestroyBuffer, Unregister

\* The instance is lost or found again.
LEMMA InstanceChangesKeeps ==
    ASSUME RecordingInv, InstanceMagicChanges \/ UNCHANGED vars
    PROVE  RecordingInv'
<1>1. /\ UNCHANGED <<deviceVars, bufferVars, commandVars, running>>
      /\ instance_found' \in BOOLEAN
    <2>1. CASE InstanceMagicChanges
        BY <2>1, Zenon DEF InstanceMagicChanges
    <2>2. CASE UNCHANGED vars
        BY <2>2 DEF vars, RecordingInv, TypeOK
    <2> QED BY <2>1, <2>2
<1>2. TypeOK' /\ DevicesAreTracked' /\ NothingIsLeft'
    BY <1>1 DEF RecordingInv, TypeOK, DevicesAreTracked, NothingIsLeft, deviceVars,
       bufferVars, commandVars
<1>3. Tables'
    BY <1>1 DEF RecordingInv, Tables, BuffersAreHeld, BuffersAreFresh, BuffersAreOwned, Entry,
       deviceVars, bufferVars
<1>4. Commands'
    BY <1>1 DEF RecordingInv, Commands, NamedAreHeld, RecordedAsHeld, CommandsArrive, Entry,
       deviceVars, bufferVars, commandVars
<1> QED BY <1>2, <1>3, <1>4 DEF RecordingInv

-----------------------------------------------------------------------------
(* Recording *)

\* The devices and their tables are not touched, and what is recorded is as it
\* was or is allowed by the lemmas below.
LEMMA RecordingKeeps ==
    ASSUME RecordingInv, UNCHANGED <<instance_found, deviceVars, bufferVars>>,
           command_buffer' \in [DeviceHandle -> {"initial", "recording", "executable"}],
           \A d \in DeviceHandle \ app_devices : command_buffer'[d] = "initial",
           recorded' \in [DeviceHandle -> SUBSET Command],
           missed' \in BOOLEAN, running' \in BOOLEAN,
           ~missed', ~several => running',
           \A d \in DeviceHandle : \A c \in recorded'[d] \ recorded[d] :
              /\ d \in app_devices
              /\ \A i \in DOMAIN c.named :
                   /\ c.named[i] \in app_buffers[d]
                   /\ ~several /\ c.translated => c.host[i] = Entry(d, c.named[i])
    PROVE  RecordingInv'
<1>1. TypeOK' /\ DevicesAreTracked'
    BY DEF RecordingInv, TypeOK, DevicesAreTracked, deviceVars, bufferVars
<1>2. NothingIsLeft'
    <2>1. \A d \in DeviceHandle \ app_devices : recorded'[d] = {}
        BY DEF RecordingInv, NothingIsLeft
    <2> QED BY <2>1 DEF RecordingInv, NothingIsLeft, deviceVars, bufferVars
<1>3. Tables'
    BY DEF RecordingInv, Tables, BuffersAreHeld, BuffersAreFresh, BuffersAreOwned, Entry,
       deviceVars, bufferVars
<1>4. NamedAreHeld'
    <2> SUFFICES ASSUME NEW d \in DeviceHandle, NEW c \in recorded'[d], NEW i \in DOMAIN c.named
                 PROVE  c.named[i] \in app_buffers[d]
        BY DEF NamedAreHeld, bufferVars
    <2> QED BY DEF RecordingInv, Commands, NamedAreHeld
<1>5. RecordedAsHeld'
    <2> SUFFICES ASSUME ~several, NEW d \in app_devices, NEW c \in recorded'[d], c.translated,
                        NEW i \in DOMAIN c.named
                 PROVE  c.host[i] = Entry(d, c.named[i])
        BY DEF RecordedAsHeld, Entry, deviceVars
    <2>1. d \in DeviceHandle
        BY DeviceTypes
    <2> QED BY <2>1 DEF RecordingInv, Commands, RecordedAsHeld
<1>6. CommandsArrive'
    BY DEF CommandsArrive, deviceVars
<1> QED BY <1>1, <1>2, <1>3, <1>4, <1>5, <1>6 DEF RecordingInv, Commands

LEMMA CommandBufferKeeps ==
    ASSUME RecordingInv, NEW d \in DeviceHandle,
           BeginCommandBuffer(d) \/ EndCommandBuffer(d) \/ ResetCommandBuffer(d)
    PROVE  RecordingInv'
<1>1. /\ d \in app_devices
      /\ \E state \in {"initial", "recording", "executable"} :
           command_buffer' = [command_buffer EXCEPT ![d] = state]
      /\ recorded' = recorded \/ recorded' = [recorded EXCEPT ![d] = {}]
      /\ UNCHANGED <<instance_found, deviceVars, bufferVars, missed, running>>
    BY DEF BeginCommandBuffer, EndCommandBuffer, ResetCommandBuffer
<1>2. /\ command_buffer' \in [DeviceHandle -> {"initial", "recording", "executable"}]
      /\ \A e \in DeviceHandle \ app_devices : command_buffer'[e] = "initial"
    BY <1>1 DEF RecordingInv, TypeOK, NothingIsLeft
<1>3. /\ recorded' \in [DeviceHandle -> SUBSET Command]
      /\ \A e \in DeviceHandle : recorded'[e] \ recorded[e] = {}
    BY <1>1 DEF RecordingInv, TypeOK
<1> QED BY <1>1, <1>2, <1>3, RecordingKeeps
    DEF RecordingInv, TypeOK, Commands, CommandsArrive

\* A command for the latest device finds it and every buffer it names, and with
\* one device at a time every command is for that one.
LEMMA LatestFinds ==
    ASSUME RecordingInv, NEW d \in DeviceHandle, NEW named \in Named, MayRecord(d, named)
    PROVE  /\ d = latest => d = device_magic /\ DeviceFound /\ AllFound(named)
           /\ ~several => d = latest
<1>1. d \in app_devices /\ \A i \in DOMAIN named : named[i] \in app_buffers[d]
    BY DEF MayRecord
<1>2. /\ d = latest => d = device_magic
      /\ ~several => d = latest
    BY <1>1 DEF RecordingInv, DevicesAreTracked
<1>3. d = latest => DeviceFound
    BY <1>1, <1>2 DEF DeviceFound, RecordingInv, DevicesAreTracked
<1>4. d = latest => AllFound(named)
    BY <1>1, <1>2 DEF AllFound, Table, RecordingInv, Tables, BuffersAreHeld, Entry
<1> QED BY <1>2, <1>3, <1>4

LEMMA ArrivesKeeps ==
    ASSUME RecordingInv, NEW d \in DeviceHandle, NEW named \in Named, MayRecord(d, named),
           NEW translated \in BOOLEAN, NEW host,
           host \in [DOMAIN named -> IF translated THEN HostValue ELSE Buffer],
           ~several /\ translated => \A i \in DOMAIN named : host[i] = Entry(d, named[i]),
           Arrives(d, translated, named, host), running' = running
    PROVE  RecordingInv'
<1> DEFINE c == [translated |-> translated, named |-> named, host |-> host]
<1>1. /\ recorded' = [recorded EXCEPT ![d] = @ \cup {c}]
      /\ UNCHANGED <<instance_found, deviceVars, bufferVars, command_buffer, missed, running>>
    BY DEF Arrives
<1>2. c \in Command
    <2>1. host \in Seq(HostValue \cup Buffer)
        <3>1. host \in [DOMAIN named -> HostValue \cup Buffer]
            OBVIOUS
        <3> QED BY <3>1, NamedTypes
    <2> QED BY <2>1 DEF Command
<1>3. recorded' \in [DeviceHandle -> SUBSET Command]
    BY <1>1, <1>2 DEF RecordingInv, TypeOK
<1>4. /\ d \in app_devices /\ \A i \in DOMAIN named : named[i] \in app_buffers[d]
    BY DEF MayRecord
<1>5. \A e \in DeviceHandle : \A g \in recorded'[e] \ recorded[e] : e = d /\ g = c
    BY <1>1 DEF RecordingInv, TypeOK
<1> HIDE DEF c
<1>6. c.translated = translated /\ c.named = named /\ c.host = host
    BY DEF c
<1>7. \A e \in DeviceHandle : \A g \in recorded'[e] \ recorded[e] :
         /\ e \in app_devices
         /\ \A i \in DOMAIN g.named :
              /\ g.named[i] \in app_buffers[e]
              /\ ~several /\ g.translated => g.host[i] = Entry(e, g.named[i])
    BY <1>4, <1>5, <1>6
<1>8. ~missed' /\ missed' \in BOOLEAN
    <2>1. missed' = missed
        BY <1>1
    <2>2. ~missed
        BY DEF RecordingInv, Commands, CommandsArrive
    <2>3. missed \in BOOLEAN
        BY DEF RecordingInv, TypeOK
    <2> QED BY <2>1, <2>2, <2>3
<1>9. running' \in BOOLEAN /\ (~several => running')
    BY Zenon DEF RecordingInv, TypeOK, Commands, CommandsArrive
<1>10. /\ command_buffer' \in [DeviceHandle -> {"initial", "recording", "executable"}]
       /\ \A e \in DeviceHandle \ app_devices : command_buffer'[e] = "initial"
    BY <1>1 DEF RecordingInv, TypeOK, NothingIsLeft
<1> QED BY <1>1, <1>3, <1>7, <1>8, <1>9, <1>10, RecordingKeeps

\* The call returns without the host, or dereferences an end iterator.
LEMMA DroppedKeeps ==
    ASSUME RecordingInv, NEW d, Dropped(d), d = latest => ~instance_found
    PROVE  RecordingInv'
<1>1. UNCHANGED <<instance_found, deviceVars, bufferVars, command_buffer, recorded, running>>
    BY DEF Dropped
<1>2. ~missed' /\ missed' \in BOOLEAN
    BY Zenon DEF Dropped, RecordingInv, Commands, CommandsArrive
<1> QED BY <1>1, <1>2, RecordingKeeps
    DEF RecordingInv, TypeOK, NothingIsLeft, Commands, CommandsArrive

LEMMA CrashesKeeps ==
    ASSUME RecordingInv, NEW d, Crashes(d), d # latest, several
    PROVE  RecordingInv'
<1>1. /\ running' = FALSE
      /\ UNCHANGED <<instance_found, deviceVars, bufferVars, command_buffer, recorded>>
    BY DEF Crashes
<1>2. ~missed' /\ missed' \in BOOLEAN
    BY Zenon DEF Crashes, RecordingInv, Commands, CommandsArrive
<1>3. running' \in BOOLEAN
    BY <1>1, Zenon
<1> QED BY <1>1, <1>2, <1>3, RecordingKeeps DEF RecordingInv, TypeOK, NothingIsLeft

\* The buffers a table gives are the host's.
LEMMA TableTypes ==
    ASSUME RecordingInv, NEW named \in Named, DeviceFound, AllFound(named)
    PROVE  HostHandles(named) \in [DOMAIN named -> HostValue]
<1>1. devices[device_magic] \in Device
    BY DEF DeviceFound, RecordingInv, TypeOK
<1>2. \A i \in DOMAIN named : Table[named[i]] \in HostValue
    BY <1>1, NamedTypes DEF AllFound, Table, Device
<1> QED BY <1>2 DEF HostHandles

\* What any of the commands that translate its buffers does.
LEMMA TranslatedKeeps ==
    ASSUME RecordingInv, NEW d \in DeviceHandle, NEW named \in Named, MayRecord(d, named),
           DeviceFound, AllFound(named), Arrives(d, TRUE, named, HostHandles(named))
    PROVE  RecordingInv'
<1>1. HostHandles(named) \in [DOMAIN named -> HostValue]
    BY TableTypes
<1>2. ~several => \A i \in DOMAIN named : HostHandles(named)[i] = Entry(d, named[i])
    BY LatestFinds DEF HostHandles, Table, Entry
<1>3. running' = running
    BY DEF Arrives
<1> QED BY <1>1, <1>2, <1>3, ArrivesKeeps

LEMMA CommandKeeps ==
    ASSUME RecordingInv, NEW d \in DeviceHandle, NEW named \in Named,
           \/ CmdBindVertexBuffers(d, named) \/ CmdOnBuffers(d, named)
           \/ \E b \in Buffer : named = <<b>> /\ CmdDrawIndirect(d, b)
    PROVE  RecordingInv'
<1>1. /\ MayRecord(d, named)
      /\ \/ Crashes(d) /\ ~(DeviceFound /\ AllFound(named))
         \/ Dropped(d) /\ ~(DeviceFound /\ instance_found)
         \/ DeviceFound /\ AllFound(named) /\ Arrives(d, TRUE, named, HostHandles(named))
    BY DEF CmdBindVertexBuffers, CmdOnBuffers, CmdDrawIndirect
<1>2. /\ d = latest => DeviceFound /\ AllFound(named)
      /\ ~several => d = latest
    BY <1>1, LatestFinds
<1>3. CASE Crashes(d) /\ ~(DeviceFound /\ AllFound(named))
    <2>1. d # latest /\ several
        BY <1>2, <1>3 DEF RecordingInv, TypeOK
    <2> QED BY <1>3, <2>1, CrashesKeeps
<1>4. CASE Dropped(d) /\ ~(DeviceFound /\ instance_found)
    BY <1>2, <1>4, DroppedKeeps
<1>5. CASE DeviceFound /\ AllFound(named) /\ Arrives(d, TRUE, named, HostHandles(named))
    BY <1>1, <1>5, TranslatedKeeps
<1> QED BY <1>1, <1>3, <1>4, <1>5

LEMMA OneIsNamed ==
    ASSUME NEW b \in Buffer
    PROVE  <<b>> \in Named /\ DOMAIN <<b>> = {1} /\ <<b>>[1] = b
BY DEF Named

LEMMA PipelineBarrierKeeps ==
    ASSUME RecordingInv, NEW d \in DeviceHandle, NEW b \in Buffer, CmdPipelineBarrier(d, b)
    PROVE  RecordingInv'
<1> DEFINE named == <<b>>
<1>1. named \in Named /\ named \in [DOMAIN named -> Buffer]
    BY OneIsNamed
<1>2. /\ MayRecord(d, named)
      /\ \/ Dropped(d) /\ ~(DeviceFound /\ instance_found)
         \/ Arrives(d, FALSE, named, named)
    BY DEF CmdPipelineBarrier
<1> HIDE DEF named
<1>3. CASE Dropped(d) /\ ~(DeviceFound /\ instance_found)
    <2>1. d = latest => ~instance_found
        BY <1>1, <1>2, <1>3, LatestFinds
    <2> QED BY <1>3, <2>1, DroppedKeeps
<1>4. CASE Arrives(d, FALSE, named, named)
    <2>1. running' = running
        BY <1>4 DEF Arrives
    <2>2. named \in [DOMAIN named -> IF FALSE THEN HostValue ELSE Buffer]
        BY <1>1
    <2> QED BY <1>1, <1>2, <1>4, <2>1, <2>2, ArrivesKeeps
<1> QED BY <1>2, <1>3, <1>4

LEMMA RecordingStep == RecordingInv /\ [Next]_vars => RecordingInv'
<1> SUFFICES ASSUME RecordingInv, [Next]_vars PROVE RecordingInv'
    OBVIOUS
<1>1. CASE CreateDevice
    BY <1>1, CreateDeviceKeeps
<1>2. CASE InstanceMagicChanges \/ UNCHANGED vars
    BY <1>2, InstanceChangesKeeps
<1>3. ASSUME NEW d \in DeviceHandle, DestroyDevice(d)
      PROVE  RecordingInv'
    BY <1>3, DestroyDeviceKeeps
<1>4. ASSUME NEW d \in DeviceHandle, CreateBuffer(d)
      PROVE  RecordingInv'
    BY <1>4, CreateBufferKeeps
<1>5. ASSUME NEW d \in DeviceHandle,
             BeginCommandBuffer(d) \/ EndCommandBuffer(d) \/ ResetCommandBuffer(d)
      PROVE  RecordingInv'
    BY <1>5, CommandBufferKeeps
<1>6. ASSUME NEW d \in DeviceHandle, NEW b \in Buffer, DestroyBuffer(d, b)
      PROVE  RecordingInv'
    BY <1>6, DestroyBufferKeeps
<1>7. ASSUME NEW d \in DeviceHandle, NEW b \in Buffer, CmdDrawIndirect(d, b)
      PROVE  RecordingInv'
    BY <1>7, OneIsNamed, CommandKeeps
<1>8. ASSUME NEW d \in DeviceHandle, NEW b \in Buffer, CmdPipelineBarrier(d, b)
      PROVE  RecordingInv'
    BY <1>8, PipelineBarrierKeeps
<1>9. ASSUME NEW d \in DeviceHandle, NEW named \in Named,
             CmdBindVertexBuffers(d, named) \/ CmdOnBuffers(d, named)
      PROVE  RecordingInv'
    BY <1>9, CommandKeeps
<1> QED BY <1>1, <1>2, <1>3, <1>4, <1>5, <1>6, <1>7, <1>8, <1>9 DEF Next

-----------------------------------------------------------------------------
(* Theorems *)

LEMMA RecordingInvariant == Spec => []RecordingInv
BY RecordingInitially, RecordingStep, PTL DEF Spec

\* Every recorded command gives the host as many buffers as the application
\* named, the host's own values where the vkCmd function translates them.
THEOREM RecordingTypeCorrect == Spec => []TypeOK
<1>1. RecordingInv => TypeOK
    BY DEF RecordingInv
<1> QED BY <1>1, RecordingInvariant, PTL

\* For any number of devices, buffers and instances that come and go: a command for
\* the device created last is lost only while there is no instance, and with one
\* device at a time no vkCmd function stops the application.
THEOREM CommandsAlwaysArrive == Spec => []CommandsArrive
<1>1. RecordingInv => CommandsArrive
    BY DEF RecordingInv, Commands
<1> QED BY <1>1, RecordingInvariant, PTL

\* A command that gives the host the entries of the buffers it names gives it
\* buffers that are alive and the device's own, for what it names is held.
EntriesName ==
    \A d \in app_devices : \A c \in recorded[d] :
        (\A i \in DOMAIN c.named : c.host[i] = Entry(d, c.named[i])) => AsNamed(d, c)

LEMMA EntriesAreNamed == RecordingInv => EntriesName
<1> SUFFICES ASSUME RecordingInv, NEW d \in app_devices, NEW c \in recorded[d],
                    \A i \in DOMAIN c.named : c.host[i] = Entry(d, c.named[i]),
                    NEW i \in DOMAIN c.named
             PROVE  /\ c.host[i] = Entry(d, c.named[i])
                    /\ c.host[i] # VK_NULL_HANDLE => host_buffers[c.host[i]] = d
    BY DEF EntriesName, AsNamed, Entry
<1>1. d \in DeviceHandle
    BY DeviceTypes
<1>2. c.named[i] \in app_buffers[d]
    BY <1>1 DEF RecordingInv, Commands, NamedAreHeld
<1>3. c.named[i] \in Buffer /\ Entry(d, c.named[i]) # None
    BY <1>1, <1>2 DEF RecordingInv, TypeOK, Tables, BuffersAreHeld
<1>4. Entry(d, c.named[i]) \in HostBuffer \cup {VK_NULL_HANDLE}
    BY <1>3, DeviceTypes DEF HostValue
<1>5. Entry(d, c.named[i]) \in HostBuffer => host_buffers[Entry(d, c.named[i])] = d
    BY <1>3 DEF RecordingInv, Tables, BuffersAreOwned
<1> QED BY <1>4, <1>5

\* With one device at a time what a command buffer holds stays true to the
\* application: the host's buffers in it are those of the buffers it named.
THEOREM CommandsNameTheirBuffers == Spec => []RecordedAsNamed
<1>1. RecordingInv => RecordedAsNamed
    BY EntriesAreNamed, DeviceTypes
       DEF RecordedAsNamed, EntriesName, RecordingInv, Commands, RecordedAsHeld
<1> QED BY <1>1, RecordingInvariant, PTL

-----------------------------------------------------------------------------
(* What a step hands to the host *)

OwnedByDeviceCalled(host) ==
    \A i \in DOMAIN host :
        host[i] # VK_NULL_HANDLE => host_buffers[host[i]] = device_magic

\* The table of the device of device_magic gives that device's buffers.
LEMMA HandlesAreOwned ==
    ASSUME RecordingInv, NEW named \in Named, DeviceFound, AllFound(named)
    PROVE  OwnedByDeviceCalled(HostHandles(named))
<1> SUFFICES ASSUME NEW i \in DOMAIN named, Table[named[i]] # VK_NULL_HANDLE
             PROVE  host_buffers[Table[named[i]]] = device_magic
    BY DEF OwnedByDeviceCalled, HostHandles
<1>1. device_magic \in app_devices
    BY DEF DeviceFound, RecordingInv, TypeOK, DevicesAreTracked
<1>2. named[i] \in Buffer /\ Table[named[i]] = Entry(device_magic, named[i])
    BY NamedTypes DEF Table, Entry
<1>3. Entry(device_magic, named[i]) \in HostBuffer
    BY <1>1, <1>2, DeviceTypes DEF AllFound, HostValue
<1> QED BY <1>1, <1>2, <1>3 DEF RecordingInv, Tables, BuffersAreOwned

\* A command that is added and translated gives the host what the table of
\* device_magic has for the buffers it names, and nothing else changes.
LEMMA WhatIsAdded ==
    ASSUME RecordingInv, [Next]_vars, NEW d \in DeviceHandle,
           NEW c \in recorded'[d] \ recorded[d], c.translated
    PROVE  /\ c.named \in Named
           /\ DeviceFound /\ AllFound(c.named) /\ c.host = HostHandles(c.named)
           /\ UNCHANGED <<deviceVars, bufferVars>>
<1> DEFINE Added ==
             /\ c.named \in Named
             /\ DeviceFound /\ AllFound(c.named) /\ c.host = HostHandles(c.named)
             /\ UNCHANGED <<deviceVars, bufferVars>>
<1>1. ASSUME recorded' = recorded PROVE FALSE
    BY <1>1
<1>2. ASSUME NEW e \in DeviceHandle, recorded' = [recorded EXCEPT ![e] = {}] PROVE FALSE
    BY <1>2 DEF RecordingInv, TypeOK
<1>3. ASSUME NEW e \in DeviceHandle, NEW translated, NEW named, NEW host,
             Arrives(e, translated, named, host)
      PROVE  /\ translated /\ c.named = named /\ c.host = host
             /\ UNCHANGED <<deviceVars, bufferVars>>
    <2> DEFINE new == [translated |-> translated, named |-> named, host |-> host]
    <2>1. recorded' = [recorded EXCEPT ![e] = @ \cup {new}]
        BY <1>3 DEF Arrives
    <2> HIDE DEF new
    <2>2. c = new
        BY <2>1 DEF RecordingInv, TypeOK
    <2> QED BY <1>3, <2>2 DEF new, Arrives
<1>4. ASSUME NEW e, Crashes(e) \/ Dropped(e) PROVE FALSE
    BY <1>4, <1>1 DEF Crashes, Dropped
<1>5. ASSUME CreateDevice \/ InstanceMagicChanges \/ UNCHANGED vars PROVE FALSE
    BY <1>5, <1>1 DEF CreateDevice, InstanceMagicChanges, vars, commandVars
<1>6. ASSUME NEW e \in DeviceHandle,
             \/ DestroyDevice(e) \/ CreateBuffer(e)
             \/ BeginCommandBuffer(e) \/ EndCommandBuffer(e) \/ ResetCommandBuffer(e)
      PROVE  FALSE
    BY <1>6, <1>1, <1>2 DEF DestroyDevice, CreateBuffer, BeginCommandBuffer, EndCommandBuffer,
       ResetCommandBuffer, commandVars
<1>7. ASSUME NEW e \in DeviceHandle, NEW b \in Buffer, DestroyBuffer(e, b)
      PROVE  FALSE
    BY <1>7, <1>1 DEF DestroyBuffer, commandVars
<1>8. ASSUME NEW e \in DeviceHandle, NEW named \in Named,
             \/ CmdBindVertexBuffers(e, named) \/ CmdOnBuffers(e, named)
             \/ \E b \in Buffer : named = <<b>> /\ CmdDrawIndirect(e, b)
      PROVE  Added
    <2>1. \/ Crashes(e) \/ Dropped(e)
          \/ DeviceFound /\ AllFound(named) /\ Arrives(e, TRUE, named, HostHandles(named))
        BY <1>8 DEF CmdBindVertexBuffers, CmdOnBuffers, CmdDrawIndirect
    <2>2. CASE DeviceFound /\ AllFound(named) /\ Arrives(e, TRUE, named, HostHandles(named))
        BY <1>3, <2>2
    <2> QED BY <1>4, <2>1, <2>2
<1>9. ASSUME NEW e \in DeviceHandle, NEW b \in Buffer, CmdPipelineBarrier(e, b)
      PROVE  FALSE
    <2>1. Dropped(e) \/ Arrives(e, FALSE, <<b>>, <<b>>)
        BY <1>9 DEF CmdPipelineBarrier
    <2> QED BY <1>3, <1>4, <2>1
<1>10. ASSUME NEW e \in DeviceHandle, NEW b \in Buffer, CmdDrawIndirect(e, b)
       PROVE  Added
    BY <1>8, <1>10, OneIsNamed
<1> HIDE DEF Added
<1>11. Added
    BY <1>5, <1>6, <1>7, <1>8, <1>9, <1>10 DEF Next
<1> QED BY <1>11 DEF Added

\* With any number of devices, a step hands the host no buffer of a device other
\* than the one whose function it calls.
THEOREM HandlesOfDeviceCalled == Spec => HostBuffersOfDeviceCalled
<1> DEFINE Owned == \A d \in DeviceHandle : \A c \in recorded'[d] \ recorded[d] :
                      c.translated =>
                          \A i \in DOMAIN c.host :
                              c.host[i] # VK_NULL_HANDLE => host_buffers[c.host[i]] = device_magic
<1>1. RecordingInv /\ [Next]_vars => Owned
    BY WhatIsAdded, HandlesAreOwned DEF OwnedByDeviceCalled
<1>2. RecordingInv /\ [Next]_vars => [Owned]_vars
    BY <1>1
<1> HIDE DEF Owned
<1>3. Spec => [][Owned]_vars
    BY <1>2, RecordingInvariant, PTL DEF Spec
<1> QED BY <1>3 DEF Owned, HostBuffersOfDeviceCalled

-----------------------------------------------------------------------------
(* What a step leaves of the commands there are *)

\* No step changes the entry of a buffer that is held before and after it.
LEMMA HeldBufferStays ==
    ASSUME RecordingInv, [Next]_vars, NEW d \in app_devices, d \in app_devices',
           NEW b \in app_buffers[d], b \in app_buffers'[d]
    PROVE  devices'[d].buffers[b] = Entry(d, b)
<1>1. d \in DeviceHandle /\ b \in Buffer /\ Entry(d, b) # None
    BY DeviceTypes DEF RecordingInv, TypeOK, Tables, BuffersAreHeld
<1>2. ASSUME UNCHANGED devices PROVE devices'[d].buffers[b] = Entry(d, b)
    BY <1>2 DEF Entry
<1>3. CASE CreateDevice
    <2>1. PICK e \in DeviceHandle \ host_devices :
            devices' = [devices EXCEPT ![e] =
                [buffers |-> [x \in Buffer |-> None], buffer_handler_id |-> 1]]
        BY <1>3 DEF CreateDevice
    <2>2. e # d
        BY DEF RecordingInv, DevicesAreTracked
    <2> QED BY <1>1, <2>1, <2>2 DEF Entry, RecordingInv, TypeOK
<1>4. ASSUME NEW e \in DeviceHandle, DestroyDevice(e)
      PROVE  devices'[d].buffers[b] = Entry(d, b)
    BY <1>1, <1>4 DEF DestroyDevice, Entry, RecordingInv, TypeOK
<1>5. ASSUME NEW e \in DeviceHandle, CreateBuffer(e)
      PROVE  devices'[d].buffers[b] = Entry(d, b)
    <2>1. /\ e \in app_devices /\ devices[e].buffer_handler_id =< MaxBuffer
          /\ \E host \in HostValue : Register(e, host)
        BY <1>5 DEF CreateBuffer, HostValue
    <2>2. /\ Entry(e, NextBuffer(e)) = None
          /\ \A x \in (DeviceHandle \cup {None}) \ {e} : devices'[x] = devices[x]
          /\ \A x \in Buffer \ {NextBuffer(e)} : devices'[e].buffers[x] = Entry(e, x)
        BY <2>1, Registered
    <2> QED BY <1>1, <2>2 DEF Entry
<1>6. ASSUME NEW e \in DeviceHandle, NEW x \in Buffer, DestroyBuffer(e, x)
      PROVE  devices'[d].buffers[b] = Entry(d, b)
    <2>1. /\ app_buffers' = [app_buffers EXCEPT ![e] = @ \ {x}]
          /\ UNCHANGED devices \/ devices' = [devices EXCEPT ![e].buffers[x] = None]
        BY <1>6 DEF DestroyBuffer, Unregister
    <2>2. e = d => x # b
        BY <1>1, <2>1 DEF RecordingInv, TypeOK
    <2>3. devices[d] \in Device
        BY DeviceTypes
    <2>4. ASSUME devices' = [devices EXCEPT ![e].buffers[x] = None]
          PROVE  devices'[d].buffers[b] = Entry(d, b)
        <3>1. CASE e # d
            BY <1>1, <2>4, <3>1 DEF Entry, RecordingInv, TypeOK
        <3>2. CASE e = d
            BY <1>1, <2>2, <2>3, <2>4, <3>2 DEF Entry, RecordingInv, TypeOK, Device
        <3> QED BY <3>1, <3>2
    <2> QED BY <1>2, <2>1, <2>4
<1>7. CASE InstanceMagicChanges \/ UNCHANGED vars
    BY <1>2, <1>7 DEF InstanceMagicChanges, vars, deviceVars
<1>8. ASSUME NEW e \in DeviceHandle,
             BeginCommandBuffer(e) \/ EndCommandBuffer(e) \/ ResetCommandBuffer(e)
      PROVE  UNCHANGED devices
    BY <1>8 DEF BeginCommandBuffer, EndCommandBuffer, ResetCommandBuffer, deviceVars
<1>9. ASSUME NEW e \in DeviceHandle, NEW named,
             \/ CmdBindVertexBuffers(e, named) \/ CmdOnBuffers(e, named)
             \/ CmdDrawIndirect(e, named) \/ CmdPipelineBarrier(e, named)
      PROVE  UNCHANGED devices
    BY <1>9 DEF CmdBindVertexBuffers, CmdOnBuffers, CmdDrawIndirect, CmdPipelineBarrier,
       Arrives, Dropped, Crashes, deviceVars
<1> QED BY <1>2, <1>3, <1>4, <1>5, <1>6, <1>7, <1>8, <1>9 DEF Next

\* A command that named the right buffers still names them, and so does one that
\* is recorded while device_magic is its device.
LEMMA StillNamed ==
    ASSUME RecordingInv, RecordingInv', [Next]_vars, NEW d \in app_devices',
           NEW c \in recorded'[d], c.translated,
           IF c \in recorded[d] THEN AsNamed(d, c) ELSE device_magic = d
    PROVE  \A i \in DOMAIN c.named : c.host[i] = devices'[d].buffers[c.named[i]]
<1>1. d \in DeviceHandle
    BY DEF RecordingInv, TypeOK
<1>2. CASE c \in recorded[d]
    <2>1. d \in app_devices
        BY <1>1, <1>2 DEF RecordingInv, NothingIsLeft
    <2> SUFFICES ASSUME NEW i \in DOMAIN c.named
                 PROVE  c.host[i] = devices'[d].buffers[c.named[i]]
        OBVIOUS
    <2>2. c.named[i] \in app_buffers[d] /\ c.named[i] \in app_buffers'[d]
        BY <1>1, <1>2 DEF RecordingInv, Commands, NamedAreHeld
    <2>3. c.host[i] = Entry(d, c.named[i])
        BY <1>2 DEF AsNamed, Entry
    <2> QED BY <2>1, <2>2, <2>3, HeldBufferStays
<1>3. CASE c \notin recorded[d]
    <2>1. c.host = HostHandles(c.named) /\ UNCHANGED deviceVars
        BY <1>1, <1>3, WhatIsAdded
    <2>2. device_magic = d
        BY <1>3
    <2> QED BY <2>1, <2>2 DEF HostHandles, Table, deviceVars
<1> QED BY <1>2, <1>3

LEMMA EntriesAreNamedAfter == RecordingInv' => EntriesName'
BY EntriesAreNamed, PTL

\* With any number of devices: what is created and destroyed never turns a
\* command that names the right buffers into one that does not, and a command
\* recorded while device_magic is its device names them from the start.
THEOREM NamedOnceNamedAlways == Spec => CommandsStayAsNamed
<1> DEFINE Stay == \A d \in app_devices' : \A c \in recorded'[d] :
                      /\ c.translated
                      /\ IF c \in recorded[d] THEN AsNamed(d, c) ELSE device_magic = d
                      => AsNamed(d, c)'
<1>1. RecordingInv /\ [Next]_vars => Stay
    <2> SUFFICES ASSUME RecordingInv, [Next]_vars, NEW d \in app_devices',
                        NEW c \in recorded'[d], c.translated,
                        IF c \in recorded[d] THEN AsNamed(d, c) ELSE device_magic = d
                 PROVE  AsNamed(d, c)'
        OBVIOUS
    <2>1. RecordingInv'
        BY RecordingStep
    <2>2. \A i \in DOMAIN c.named : c.host[i] = devices'[d].buffers[c.named[i]]
        BY <2>1, StillNamed
    <2>3. EntriesName'
        BY <2>1, EntriesAreNamedAfter
    <2> QED BY <2>2, <2>3 DEF EntriesName, Entry
<1>2. RecordingInv /\ [Next]_vars => [Stay]_vars
    BY <1>1
<1> HIDE DEF Stay
<1>3. Spec => [][Stay]_vars
    BY <1>2, RecordingInvariant, PTL DEF Spec
<1> QED BY <1>3 DEF Stay, CommandsStayAsNamed

=============================================================================
