----------------------------- MODULE WireFormats -----------------------------
(***************************************************************************)
(* The encoders and decoders of the repository as lists of fields (module  *)
(* Codec).  Each list follows its function line by line; encoders and      *)
(* decoders share nothing, as in the code.                                 *)
(***************************************************************************)
EXTENDS Codec

(* protocol/codec.hpp.  ByteWriter::string defaults to 65535 bytes. *)

encode_message ==
  int("type", 1, LastType)
    \o u64(<<"coordinator", "epoch", "worker_boot", "worker", "node", "agent">>)
    \o u64(<<"reg_gen", "obs_gen", "health_gen", "device_gen", "cap_gen", "request_id">>)
    \o flag(<<"ok">>) \o text("reason", 65535) \o span("payload")

Mut_decode_message ==
  int("type", 1, LastType)
    \o u64(<<"coordinator", "epoch", "worker", "worker_boot", "node", "agent">>)
    \o u64(<<"reg_gen", "obs_gen", "health_gen", "device_gen", "cap_gen", "request_id">>)
    \o flag(<<"ok">>) \o text("reason", 4096) \o bytes("payload", 2147483647)

decode_message ==
  int("type", 1, LastType)
    \o u64(<<"coordinator", "epoch", "worker_boot", "worker", "node", "agent">>)
    \o u64(<<"reg_gen", "obs_gen", "health_gen", "device_gen", "cap_gen", "request_id">>)
    \o flag(<<"ok">>) \o text("reason", 4096) \o bytes("payload", 2147483647)

-----------------------------------------------------------------------------
(* fleet/registration.hpp *)

encode_registration ==
  u64(<<"node", "worker", "worker_boot">>)
    \o u32(<<"major", "minor", "patch", "protocol_version">>)
    \o text("os_platform", 128) \o text("driver_version", 128)
    \o u32(<<"runtime_major", "runtime_minor">>)
    \o counted("enumerated_devices", text("key", 256))
    \o counted("supported_capabilities", text("name", 128))
    \o u64(<<"registration_generation", "epoch">>)

decode_registration ==
  u64(<<"node", "worker", "worker_boot">>)
    \o u32(<<"major", "minor", "patch", "protocol_version">>)
    \o text("os_platform", 128) \o text("driver_version", 128)
    \o u32(<<"runtime_major", "runtime_minor">>)
    \o list("enumerated_devices", 4096, text("key", 256))
    \o list("supported_capabilities", 4096, text("name", 128))
    \o u64(<<"registration_generation", "epoch">>)

-----------------------------------------------------------------------------
(* observation/observation_codec.hpp.  Health, vendor and capability kind    *)
(* are read without a check of their range.                                  *)

WriteCapability == u64(<<"id">>) \o text("name", 128) \o u8(<<"kind">>)
                     \o text("value", 256) \o text("description", 256)

ReadCapability == u64(<<"id">>) \o text("name", 128) \o u8(<<"kind">>)
                    \o text("value", 256) \o text("description", 256)

encode_device_observation ==
  u64(<<"device_id", "observation_generation", "health_generation">>) \o i64(<<"observed_at">>)
    \o u64(<<"source_worker_boot", "source_worker", "source_node", "epoch", "device_generation">>)
    \o u8(<<"health">>) \o text("health_explanation", 4096)
    \o u64(<<"total_memory", "used_memory", "free_memory">>)
    \o opt(<<"temperature_c", "power_w">>)
    \o counted("capabilities", WriteCapability)
    \o flag(<<"core_validation_ok">>) \o text("validation_detail", 4096)
    \o flag(<<"enumerated", "present", "driver_runtime_ok", "cuda_init_ok", "memory_alloc_ok">>)
    \o flag(<<"h2d_ok", "kernel_exec_ok", "sync_ok", "d2h_ok", "verify_ok">>)
    \o u8(<<"vendor">>) \o text("vendor_name", 128) \o text("uuid", 128)
    \o u32(<<"domain">>) \o u16(<<"bus", "device", "function">>) \o text("architecture", 64)
    \o u32(<<"cc_major", "cc_minor">>) \o u64(<<"total_physical_memory">>) \o i64(<<"numa_node">>)
    \o text("driver_version", 128) \o u32(<<"runtime_major", "runtime_minor">>)
    \o u32(<<"gpu_instance_id", "compute_instance_id">>) \o opt(<<"parent_device">>)

decode_device_observation ==
  u64(<<"device_id", "observation_generation", "health_generation">>) \o i64(<<"observed_at">>)
    \o u64(<<"source_worker_boot", "source_worker", "source_node", "epoch", "device_generation">>)
    \o u8(<<"health">>) \o text("health_explanation", 4096)
    \o u64(<<"total_memory", "used_memory", "free_memory">>)
    \o opt(<<"temperature_c", "power_w">>)
    \o list("capabilities", 4096, ReadCapability)
    \o flag(<<"core_validation_ok">>) \o text("validation_detail", 4096)
    \o flag(<<"enumerated", "present", "driver_runtime_ok", "cuda_init_ok", "memory_alloc_ok">>)
    \o flag(<<"h2d_ok", "kernel_exec_ok", "sync_ok", "d2h_ok", "verify_ok">>)
    \o u8(<<"vendor">>) \o text("vendor_name", 128) \o text("uuid", 128)
    \o u32(<<"domain">>) \o u16(<<"bus", "device", "function">>) \o text("architecture", 64)
    \o u32(<<"cc_major", "cc_minor">>) \o u64(<<"total_physical_memory">>) \o i64(<<"numa_node">>)
    \o text("driver_version", 128) \o u32(<<"runtime_major", "runtime_minor">>)
    \o u32(<<"gpu_instance_id", "compute_instance_id">>) \o opt(<<"parent_device">>)

encode_observation_batch == counted_blobs("obs", encode_device_observation)

\* The bound of 16 MiB on one blob never decides: an observation that its own
\* bounds admit is shorter.
decode_observation_batch == blobs("obs", 4096, decode_device_observation)

-----------------------------------------------------------------------------
(* protocol/admin_payload.hpp *)

encode_identity_target == text("identity", 1024)
decode_identity_target == text("identity", 1024)

encode_drain_target == text("identity", 1024) \o int("level", 0, LastDrain)
decode_drain_target == text("identity", 1024) \o int("level", 0, LastDrain)

encode_quarantine ==
  text("identity", 1024) \o text("reason", 512) \o text("source", 128) \o u64(<<"generation">>)

decode_quarantine ==
  text("identity", 1024) \o text("reason", 512) \o text("source", 128) \o u64(<<"generation">>)

-----------------------------------------------------------------------------
(* fleet/snapshot_codec.hpp.  Enumerations are read without a check.         *)

write_identity ==
  u8(<<"vendor">>) \o text("vendor_name", 128) \o text("uuid", 128)
    \o u32(<<"domain">>) \o u16(<<"bus", "device", "function">>) \o text("architecture", 64)
    \o u32(<<"cc_major", "cc_minor">>) \o u64(<<"total_physical_memory">>) \o i64(<<"numa_node">>)
    \o text("driver_version", 128) \o u32(<<"runtime_major", "runtime_minor">>)
    \o u32(<<"gpu_instance_id", "compute_instance_id">>) \o opt(<<"parent_device">>)

read_identity ==
  u8(<<"vendor">>) \o text("vendor_name", 128) \o text("uuid", 128)
    \o u32(<<"domain">>) \o u16(<<"bus", "device", "function">>) \o text("architecture", 64)
    \o u32(<<"cc_major", "cc_minor">>) \o u64(<<"total_physical_memory">>) \o i64(<<"numa_node">>)
    \o text("driver_version", 128) \o u32(<<"runtime_major", "runtime_minor">>)
    \o u32(<<"gpu_instance_id", "compute_instance_id">>) \o opt(<<"parent_device">>)

write_device_state ==
  u64(<<"device_id", "generation">>) \o write_identity
    \o flag(<<"present">>) \o u8(<<"health">>) \o text("health_explanation", 4096)
    \o u8(<<"eligibility">>) \o counted("eligibility_reasons", u8(<<"reason">>))
    \o u8(<<"drain">>) \o flag(<<"quarantined">>)
    \o text("quarantine_reason", 512) \o text("quarantine_source", 128)
    \o u64(<<"quarantine_generation">>) \o i64(<<"quarantine_at">>)
    \o u64(<<"quarantine_device_id", "quarantine_authority">>)
    \o u64(<<"total_memory", "used_memory", "free_memory">>)
    \o opt(<<"temperature_c", "power_w">>)
    \o counted("capabilities", WriteCapability)
    \o flag(<<"core_validation_ok">>) \o text("validation_detail", 4096)
    \o i64(<<"last_observed_at", "last_validated_at", "last_authoritative_at">>)
    \o u64(<<"observation_generation", "health_generation", "source_worker_boot">>)
    \o flag(<<"observation_fresh">>)

read_device_state ==
  u64(<<"device_id", "generation">>) \o read_identity
    \o flag(<<"present">>) \o u8(<<"health">>) \o text("health_explanation", 4096)
    \o u8(<<"eligibility">>) \o list("eligibility_reasons", 32, u8(<<"reason">>))
    \o u8(<<"drain">>) \o flag(<<"quarantined">>)
    \o text("quarantine_reason", 512) \o text("quarantine_source", 128)
    \o u64(<<"quarantine_generation">>) \o i64(<<"quarantine_at">>)
    \o u64(<<"quarantine_device_id", "quarantine_authority">>)
    \o u64(<<"total_memory", "used_memory", "free_memory">>)
    \o opt(<<"temperature_c", "power_w">>)
    \o list("capabilities", 4096, ReadCapability)
    \o flag(<<"core_validation_ok">>) \o text("validation_detail", 4096)
    \o i64(<<"last_observed_at", "last_validated_at", "last_authoritative_at">>)
    \o u64(<<"observation_generation", "health_generation", "source_worker_boot">>)
    \o flag(<<"observation_fresh">>)

\* A worker record as encode_snapshot writes it and as decode_snapshot reads it.
WriteWorker ==
  u64(<<"worker", "boot", "registration_generation", "node", "agent">>)
    \o u32(<<"major", "minor", "patch", "protocol_version">>)
    \o text("os_platform", 128) \o text("driver_version", 128)
    \o counted("device_identities", text("key", 256))
    \o counted("supported_capabilities", text("name", 128))
    \o i64(<<"registered_at", "last_heartbeat">>) \o u64(<<"registered_epoch">>)
    \o flag(<<"alive", "fenced", "lost">>)

ReadWorker ==
  u64(<<"worker", "boot", "registration_generation", "node", "agent">>)
    \o u32(<<"major", "minor", "patch", "protocol_version">>)
    \o text("os_platform", 128) \o text("driver_version", 128)
    \o list("device_identities", 4096, text("key", 256))
    \o list("supported_capabilities", 4096, text("name", 128))
    \o i64(<<"registered_at", "last_heartbeat">>) \o u64(<<"registered_epoch">>)
    \o flag(<<"alive", "fenced", "lost">>)

WriteChange == u8(<<"kind">>) \o u64(<<"device_id">>) \o i64(<<"at">>) \o u64(<<"generation", "epoch">>)
                 \o text("detail", 512) \o text("from", 128) \o text("to", 128)

ReadChange == u8(<<"kind">>) \o u64(<<"device_id">>) \o i64(<<"at">>) \o u64(<<"generation", "epoch">>)
                \o text("detail", 512) \o text("from", 128) \o text("to", 128)

encode_snapshot ==
  u64(<<"coordinator", "epoch", "fleet_generation", "node_generation">>)
    \o counted("nodes", u64(<<"node", "generation">>) \o i64(<<"first_seen">>))
    \o counted("workers", WriteWorker)
    \o counted("devices", text("key", 256) \o write_device_state)
    \o counted("change_log", WriteChange)

\* Without the test for a key that is already there, the last entry would win.
Mut_decode_snapshot ==
  u64(<<"coordinator", "epoch", "fleet_generation", "node_generation">>)
    \o list("nodes", 100000, u64(<<"node", "generation">>) \o i64(<<"first_seen">>))
    \o map("workers", 100000, ReadWorker)
    \o list("devices", 100000, text("key", 256) \o read_device_state)
    \o list("change_log", 200000, ReadChange)

decode_snapshot ==
  u64(<<"coordinator", "epoch", "fleet_generation", "node_generation">>)
    \o list("nodes", 100000, u64(<<"node", "generation">>) \o i64(<<"first_seen">>))
    \o map("workers", 100000, ReadWorker)
    \o map("devices", 100000, text("key", 256) \o read_device_state)
    \o list("change_log", 200000, ReadChange)

-----------------------------------------------------------------------------
\* The pairs that have to match: what each writer and each reader is used for.
Format(writer, reader) == [writer |-> writer, reader |-> reader]

Formats ==
  [message      |-> Format(encode_message, decode_message),
   registration |-> Format(encode_registration, decode_registration),
   observations |-> Format(encode_observation_batch, decode_observation_batch),
   clear        |-> Format(encode_identity_target, decode_identity_target),
   drain        |-> Format(encode_drain_target, decode_drain_target),
   quarantine   |-> Format(encode_quarantine, decode_quarantine),
   snapshot     |-> Format(encode_snapshot, decode_snapshot)]

=============================================================================
