-------------------------------- MODULE Ota ---------------------------------
(***************************************************************************)
(* Firmware updates: ota_task() of main/main.c, started by the Bluetooth   *)
(* command UPDATE_FW_VIA_BLE, downloads an image into the update partition *)
(* of the root and sends it to the nodes.  Every command starts another    *)
(* ota_task, and all of them share the partition.  The HTTP client and     *)
(* mupgrade are external: any call of theirs may fail.                     *)
(***************************************************************************)
EXTENDS Naturals, Sequences

CONSTANTS Updates,   \* bound: ota_tasks that may exist at once
          Chunks     \* reads of the whole image, MWIFI_PAYLOAD_LEN bytes each

ASSUME OtaAssumption == Chunks \in Nat \ {0}

(* total_size is a size_t: the -1 of esp_http_client_fetch_headers() is    *)
(* larger than any image, not an error.                                    *)
Huge == Chunks + 1

VARIABLES ota,         \* where each ota_task is
          client,      \* its esp_http_client_init() succeeded
          recv_size, total_size,
          part,        \* chunks in the update partition, in order
          image,       \* what mupgrade_firmware_send() sent last
          notice,      \* "restart" is on its way to the nodes
          firmware,    \* what the nodes run, <<>> before the first update
          shared       \* ghost: two ota_tasks have used the partition at once

otaVars == <<ota, client, recv_size, total_size, part, image, notice, firmware, shared>>

OtaInit ==
    /\ ota = [u \in Updates |-> "off"]
    /\ client = [u \in Updates |-> FALSE]
    /\ recv_size = [u \in Updates |-> 0] /\ total_size = [u \in Updates |-> 0]
    /\ part = <<>> /\ image = <<>> /\ firmware = <<>>
    /\ notice = FALSE /\ shared = FALSE

(* A restart ends the tasks; the partition, and what nodes hold, remain.   *)
OtaRestart ==
    /\ ota' = [u \in Updates |-> "off"]
    /\ client' = [u \in Updates |-> FALSE]
    /\ recv_size' = [u \in Updates |-> 0] /\ total_size' = [u \in Updates |-> 0]
    /\ UNCHANGED <<part, image, notice, firmware, shared>>

To(u, from, to) == ota[u] = from /\ ota' = [ota EXCEPT ![u] = to]

(* Leaving the download loop; the sizes are not read again.                *)
Leave(u, from, to) ==
    /\ To(u, from, to)
    /\ recv_size' = [recv_size EXCEPT ![u] = 0]
    /\ total_size' = [total_size EXCEPT ![u] = 0]

sizes == <<recv_size, total_size>>
nodes == <<image, notice, firmware>>

UPDATE_FW_VIA_BLE(u) == To(u, "off", "client") /\ UNCHANGED <<client, sizes, part, nodes, shared>>

HttpClientInit(u) ==
    /\ \/ To(u, "client", "open") /\ client' = [client EXCEPT ![u] = TRUE]
       \/ To(u, "client", "EXIT") /\ UNCHANGED client
    /\ UNCHANGED <<sizes, part, nodes, shared>>

Opened(u) == To(u, "open", "headers") /\ UNCHANGED <<client, sizes, part, nodes, shared>>

(* Not opened: a root tries again after a second, another device gives up. *)
NotOpened(u) ==
    /\ To(u, "open", "open") \/ To(u, "open", "EXIT")
    /\ UNCHANGED <<client, sizes, part, nodes, shared>>

FetchHeaders(u) ==
    /\ \E n \in {0, Chunks, Huge} :
          /\ To(u, "headers", IF n = 0 THEN "EXIT" ELSE "init")
          /\ total_size' = [total_size EXCEPT ![u] = n]
    /\ UNCHANGED <<client, recv_size, part, nodes, shared>>

(* mupgrade_firmware_init() erases the partition.                          *)
FirmwareInit(u) ==
    /\ \/ /\ To(u, "init", "read")
          /\ part' = <<>>
          /\ shared' = (shared \/ \E v \in Updates \ {u} : ota[v] \in {"read", "send"})
          /\ UNCHANGED sizes
       \/ Leave(u, "init", "EXIT") /\ UNCHANGED <<part, shared>>
    /\ UNCHANGED <<client, nodes>>

(* One turn of the download loop.  A failed read or write, and an answer   *)
(* that ends early, give up.                                               *)
DownloadBreaks(u) ==
    /\ recv_size[u] < total_size[u]
    /\ \/ /\ recv_size[u] < Chunks
          /\ To(u, "read", "read")
          /\ part' = Append(part, recv_size[u] + 1)
          /\ recv_size' = [recv_size EXCEPT ![u] = @ + 1]
          /\ UNCHANGED total_size
       \/ Leave(u, "read", "send") /\ UNCHANGED part
       \/ Leave(u, "read", "EXIT") /\ UNCHANGED part
    /\ UNCHANGED <<client, nodes, shared>>

DownloadSpins(u) ==
    /\ recv_size[u] < total_size[u]
    /\ \/ /\ recv_size[u] < Chunks
          /\ To(u, "read", "read")
          /\ part' = Append(part, recv_size[u] + 1)
          /\ recv_size' = [recv_size EXCEPT ![u] = @ + 1]
          /\ UNCHANGED total_size
       \/ To(u, "read", "read") /\ UNCHANGED <<sizes, part>>
    /\ UNCHANGED <<client, nodes, shared>>

Download(u) ==
    /\ recv_size[u] < total_size[u]
    /\ \/ /\ recv_size[u] < Chunks
          /\ To(u, "read", "read")
          /\ part' = Append(part, recv_size[u] + 1)
          /\ recv_size' = [recv_size EXCEPT ![u] = @ + 1]
          /\ UNCHANGED total_size
       \/ Leave(u, "read", "EXIT") /\ UNCHANGED part
    /\ UNCHANGED <<client, nodes, shared>>

Downloaded(u) ==
    /\ recv_size[u] >= total_size[u]
    /\ Leave(u, "read", "send")
    /\ UNCHANGED <<client, part, nodes, shared>>

(* mupgrade_firmware_send(), and the test of successed_num.                *)
FirmwareSend(u) ==
    /\ \/ To(u, "send", "notify") /\ image' = part
       \/ To(u, "send", "EXIT") /\ image' \in {image, part}
    /\ UNCHANGED <<client, sizes, part, notice, firmware, shared>>

Notify(u) ==
    /\ To(u, "notify", "EXIT")
    /\ notice' \in {TRUE, notice}
    /\ UNCHANGED <<client, sizes, part, image, firmware, shared>>

(* EXIT closes the client, also one that was never made: Lifecycle lets    *)
(* that call fault.                                                        *)
EXIT(u) ==
    /\ To(u, "EXIT", "off")
    /\ client' = [client EXCEPT ![u] = FALSE]
    /\ UNCHANGED <<sizes, part, nodes, shared>>

(* A node that reads "restart" boots the image it holds three seconds      *)
(* later.                                                                  *)
node_read_task ==
    /\ notice /\ notice' = FALSE
    /\ firmware' = image
    /\ UNCHANGED <<ota, client, sizes, part, image, shared>>

Transfer(u) ==
    \/ HttpClientInit(u) \/ FetchHeaders(u) \/ FirmwareInit(u) \/ Download(u) \/ Downloaded(u)
    \/ FirmwareSend(u) \/ Notify(u) \/ EXIT(u)

ota_task(u) == Opened(u) \/ NotOpened(u) \/ Transfer(u)

-----------------------------------------------------------------------------
Whole == [i \in 1 .. Chunks |-> i]

(* Unless two updates used the partition at once, only a whole image is    *)
(* ever sent and run by the nodes: not after a connection that broke or    *)
(* ended early, a size that was never known, or a restart of the root in   *)
(* the middle of an earlier download.                                      *)
OnlyWholeImages == ~shared => {image, firmware} \subseteq {<<>>, Whole} /\ (notice => image = Whole)
=============================================================================
