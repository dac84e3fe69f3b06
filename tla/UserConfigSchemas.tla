-------------------------- MODULE UserConfigSchemas --------------------------
(***************************************************************************)
(* The user configurations of services, integrations and endpoints: of     *)
(* each its fields, and of each field the kinds of UserConfig that it is,  *)
(* or that the fields of its blocks are.  Larger blocks have a name of     *)
(* their own.  Whether a field is required, its range and its description  *)
(* are left out: what is required is absent with its block.                *)
(***************************************************************************)

-----------------------------------------------------------------------------
(* Fields.                                                                 *)

Number == {{"number"}}

Bool == {{"bool"}}

String == {{"string"}}

List == {{"list"}}

Set == {{"set"}}

Map == {{"map"}}

\* A field that needs a new service.
Replacing(kinds) == {kind \cup {"replaces"} : kind \in kinds}

\* createOnlyFields.
Created == {{"string", "replaces", "createOnly"}}

\* See IPFilters.
Filters == {}

\* A block of which there is one, and a list of blocks.
Object(block) == UNION {block[name] : name \in DOMAIN block}

Items(block) == {{"objects"}} \cup {kind \cup {"item"} : kind \in Object(block)}

-----------------------------------------------------------------------------
(* The services.                                                           *)

ApplicationSource ==
  [branch |-> String, build_path |-> String, containerfile_path |-> String,
   deployment_key |-> String, remote_repository_id |-> String,
   repository_url |-> String, vcs_integration_id |-> String]

ApplicationApplication ==
  [environment_variables |-> Items([key |-> String, kind |-> String, value |-> String]),
   ports |-> Items([name |-> String, port |-> Number, protocol |-> String]),
   restart_policy |-> Object([condition |-> String]),
   source |-> Object(ApplicationSource)]

Application ==
  [application |-> Object(ApplicationApplication), ip_filter |-> Filters,
   ip_filter_object |-> Filters, ip_filter_string |-> Filters]

Clickhouse ==
  [additional_backup_regions |-> List, backup_hour |-> Number, backup_minute |-> Number,
   clickhouse_version |-> String, enable_ipv6 |-> Bool, ip_filter |-> Filters,
   ip_filter_object |-> Filters, ip_filter_string |-> Filters,
   private_access |-> Object(
     [clickhouse |-> Bool, clickhouse_arrowflight |-> Bool, clickhouse_https |-> Bool,
      clickhouse_mysql |-> Bool, prometheus |-> Bool]),
   privatelink_access |-> Object(
     [clickhouse |-> Bool, clickhouse_arrowflight |-> Bool, clickhouse_https |-> Bool,
      clickhouse_mysql |-> Bool, prometheus |-> Bool]),
   project_to_fork_from |-> Replacing(String),
   public_access |-> Object(
     [clickhouse |-> Bool, clickhouse_arrowflight |-> Bool, clickhouse_https |-> Bool,
      clickhouse_mysql |-> Bool, prometheus |-> Bool]),
   recovery_basebackup_name |-> String,
   server_settings |-> Object([vector_similarity_index_cache_size |-> Number]),
   service_log |-> Bool, service_to_fork_from |-> Replacing(String),
   session_settings |-> Object([compatibility |-> String]), static_ips |-> Bool,
   tiered_storage_move_factor |-> Number]

DragonflyMigration ==
  [dbname |-> String, host |-> String, ignore_dbs |-> String, ignore_roles |-> String,
   method |-> String, password |-> String, port |-> Number, ssl |-> Bool,
   username |-> String]

Dragonfly ==
  [cache_mode |-> Bool, dragonfly_persistence |-> String, dragonfly_ssl |-> Bool,
   ip_filter |-> Filters, ip_filter_object |-> Filters, ip_filter_string |-> Filters,
   migration |-> Object(DragonflyMigration),
   private_access |-> Object([dragonfly |-> Bool, prometheus |-> Bool]),
   privatelink_access |-> Object([dragonfly |-> Bool, prometheus |-> Bool]),
   project_to_fork_from |-> Replacing(String),
   public_access |-> Object([dragonfly |-> Bool, prometheus |-> Bool]),
   recovery_basebackup_name |-> String, service_log |-> Bool,
   service_to_fork_from |-> Replacing(String), static_ips |-> Bool]

Flink ==
  [additional_backup_regions |-> List, custom_code |-> Replacing(Bool),
   flink_version |-> Replacing(String), ip_filter |-> Filters,
   ip_filter_object |-> Filters, ip_filter_string |-> Filters,
   number_of_task_slots |-> Number, pekko_ask_timeout_s |-> Number,
   pekko_framesize_b |-> Number,
   privatelink_access |-> Object([flink |-> Bool, prometheus |-> Bool]),
   public_access |-> Object([flink |-> Bool]), service_log |-> Bool,
   static_ips |-> Bool]

GrafanaAuthAzuread ==
  [allow_sign_up |-> Bool, allowed_domains |-> List, allowed_groups |-> List,
   auth_url |-> String, client_id |-> String, client_secret |-> String,
   token_url |-> String]

GrafanaAuthGenericOauth ==
  [allow_sign_up |-> Bool, allowed_domains |-> List, allowed_organizations |-> List,
   api_url |-> String, auth_url |-> String, auto_login |-> Bool, client_id |-> String,
   client_secret |-> String, name |-> String, scopes |-> List, token_url |-> String,
   use_refresh_token |-> Bool]

GrafanaAuthGithub ==
  [allow_sign_up |-> Bool, allowed_organizations |-> List, auto_login |-> Bool,
   client_id |-> String, client_secret |-> String, skip_org_role_sync |-> Bool,
   team_ids |-> List]

GrafanaAuthGitlab ==
  [allow_sign_up |-> Bool, allowed_groups |-> List, api_url |-> String,
   auth_url |-> String, client_id |-> String, client_secret |-> String,
   token_url |-> String]

GrafanaDateFormats ==
  [default_timezone |-> String, full_date |-> String, interval_day |-> String,
   interval_hour |-> String, interval_minute |-> String, interval_month |-> String,
   interval_second |-> String, interval_year |-> String]

GrafanaSmtpServer ==
  [from_address |-> String, from_name |-> String, host |-> String, password |-> String,
   port |-> Number, skip_verify |-> Bool, starttls_policy |-> String,
   username |-> String]

Grafana ==
  [additional_backup_regions |-> List, alerting_enabled |-> Bool,
   alerting_error_or_timeout |-> String, alerting_max_annotations_to_keep |-> Number,
   alerting_nodata_or_nullvalues |-> String, allow_embedding |-> Bool,
   auth_azuread |-> Object(GrafanaAuthAzuread), auth_basic_enabled |-> Bool,
   auth_generic_oauth |-> Object(GrafanaAuthGenericOauth),
   auth_github |-> Object(GrafanaAuthGithub), auth_gitlab |-> Object(GrafanaAuthGitlab),
   auth_google |-> Object(
     [allow_sign_up |-> Bool, allowed_domains |-> List, client_id |-> String,
      client_secret |-> String]),
   cookie_samesite |-> String, custom_domain |-> String,
   dashboard_previews_enabled |-> Bool, dashboard_scenes_enabled |-> Bool,
   dashboards_min_refresh_interval |-> String, dashboards_versions_to_keep |-> Number,
   dataproxy_send_user_header |-> Bool, dataproxy_timeout |-> Number,
   date_formats |-> Object(GrafanaDateFormats), disable_gravatar |-> Bool,
   editors_can_admin |-> Bool,
   external_image_storage |-> Object(
     [access_key |-> String, bucket_url |-> String, provider |-> String,
      secret_key |-> String]),
   google_analytics_ua_id |-> String, grafana_version |-> String, ip_filter |-> Filters,
   ip_filter_object |-> Filters, ip_filter_string |-> Filters, metrics_enabled |-> Bool,
   oauth_allow_insecure_email_lookup |-> Bool,
   private_access |-> Object([grafana |-> Bool]),
   privatelink_access |-> Object([grafana |-> Bool]),
   project_to_fork_from |-> Replacing(String),
   public_access |-> Object([grafana |-> Bool]), recovery_basebackup_name |-> String,
   service_log |-> Bool, service_to_fork_from |-> Replacing(String),
   smtp_server |-> Object(GrafanaSmtpServer), static_ips |-> Bool,
   unified_alerting_enabled |-> Bool, user_auto_assign_org |-> Bool,
   user_auto_assign_org_role |-> String, viewers_can_edit |-> Bool, wal |-> Bool]

KafkaKafka ==
  [audit_log |-> Object(
     [aggregation_period_sec |-> Number, group_by |-> String, include_denials |-> Bool,
      record_type |-> String]),
   auto_create_topics_enable |-> Bool, compression_type |-> String,
   connections_max_idle_ms |-> Number, default_replication_factor |-> Number,
   group_coordinator_rebalance_protocols |-> String,
   group_initial_rebalance_delay_ms |-> Number, group_max_session_timeout_ms |-> Number,
   group_min_session_timeout_ms |-> Number, group_share_delivery_count_limit |-> Number,
   group_share_heartbeat_interval_ms |-> Number, group_share_max_groups |-> Number,
   group_share_max_heartbeat_interval_ms |-> Number,
   group_share_max_record_lock_duration_ms |-> Number,
   group_share_max_session_timeout_ms |-> Number, group_share_max_size |-> Number,
   group_share_min_heartbeat_interval_ms |-> Number,
   group_share_min_record_lock_duration_ms |-> Number,
   group_share_min_session_timeout_ms |-> Number,
   group_share_partition_max_record_locks |-> Number,
   group_share_record_lock_duration_ms |-> Number,
   group_share_session_timeout_ms |-> Number,
   log_cleaner_delete_retention_ms |-> Number,
   log_cleaner_max_compaction_lag_ms |-> Number,
   log_cleaner_min_cleanable_ratio |-> Number,
   log_cleaner_min_compaction_lag_ms |-> Number, log_cleanup_policy |-> String,
   log_flush_interval_messages |-> Number, log_flush_interval_ms |-> Number,
   log_index_interval_bytes |-> Number, log_index_size_max_bytes |-> Number,
   log_local_retention_bytes |-> Number, log_local_retention_ms |-> Number,
   log_message_downconversion_enable |-> Bool,
   log_message_timestamp_after_max_ms |-> Number,
   log_message_timestamp_before_max_ms |-> Number,
   log_message_timestamp_difference_max_ms |-> Number,
   log_message_timestamp_type |-> String, log_preallocate |-> Bool,
   log_retention_bytes |-> Number, log_retention_hours |-> Number,
   log_retention_ms |-> Number, log_roll_jitter_ms |-> Number, log_roll_ms |-> Number,
   log_segment_bytes |-> Number, log_segment_delete_delay_ms |-> Number,
   max_connections_per_ip |-> Number,
   max_incremental_fetch_session_cache_slots |-> Number, message_max_bytes |-> Number,
   min_insync_replicas |-> Number, num_partitions |-> Number,
   offsets_retention_minutes |-> Number,
   producer_purgatory_purge_interval_requests |-> Number,
   replica_fetch_max_bytes |-> Number, replica_fetch_response_max_bytes |-> Number,
   sasl_oauthbearer_expected_audience |-> String,
   sasl_oauthbearer_expected_issuer |-> String,
   sasl_oauthbearer_jwks_endpoint_url |-> String,
   sasl_oauthbearer_sub_claim_name |-> String, socket_request_max_bytes |-> Number,
   transaction_partition_verification_enable |-> Bool,
   transaction_remove_expired_transaction_cleanup_interval_ms |-> Number,
   transaction_state_log_segment_bytes |-> Number]

KafkaKafkaConnectConfig ==
  [connector_client_config_override_policy |-> String,
   consumer_auto_offset_reset |-> String, consumer_fetch_max_bytes |-> Number,
   consumer_isolation_level |-> String, consumer_max_partition_fetch_bytes |-> Number,
   consumer_max_poll_interval_ms |-> Number, consumer_max_poll_records |-> Number,
   offset_flush_interval_ms |-> Number, offset_flush_timeout_ms |-> Number,
   prefer_ipv6_address_enable |-> Bool, producer_batch_size |-> Number,
   producer_buffer_memory |-> Number, producer_compression_type |-> String,
   producer_linger_ms |-> Number, producer_max_request_size |-> Number,
   scheduled_rebalance_max_delay_ms |-> Number, session_timeout_ms |-> Number]

KafkaKafkaConnectSecretProviders ==
  [aws |-> Object(
     [access_key |-> String, auth_method |-> String, region |-> String,
      secret_key |-> String]),
   azure |-> Object(
     [auth_method |-> String, client_id |-> String, secret |-> String,
      tenant_id |-> String]),
   env |-> Object([secrets |-> Map]), name |-> String,
   vault |-> Object(
     [address |-> String, auth_method |-> String, engine_version |-> Number,
      prefix_path_depth |-> Number, server_pem |-> String, token |-> String])]

KafkaKafkaRestConfig ==
  [consumer_enable_auto_commit |-> Bool, consumer_idle_disconnect_timeout |-> Number,
   consumer_request_max_bytes |-> Number, consumer_request_timeout_ms |-> Number,
   name_strategy |-> String, name_strategy_validation |-> Bool,
   producer_acks |-> String, producer_compression_type |-> String,
   producer_linger_ms |-> Number, producer_max_request_size |-> Number,
   simpleconsumer_pool_size_max |-> Number]

KafkaSchemaRegistryConfig ==
  [leader_eligibility |-> Bool, retriable_errors_silenced |-> Bool,
   sasl_oauthbearer_authentication_enabled |-> Bool,
   sasl_oauthbearer_authorization_enabled |-> Bool,
   sasl_oauthbearer_method_roles |-> String,
   sasl_oauthbearer_roles_claim_path |-> String, schema_reader_strict_mode |-> Bool,
   topic_name |-> String]

Kafka ==
  [additional_backup_regions |-> List, aiven_kafka_topic_messages |-> Bool,
   backup_interval_hours |-> Number, backup_retention_days |-> Number,
   custom_domain |-> String, enable_ipv6 |-> Bool,
   follower_fetching |-> Object([enabled |-> Bool]), gcp_auth_allowed_urls |-> List,
   inkless |-> Object([enabled |-> Replacing(Bool)]), ip_filter |-> Filters,
   ip_filter_object |-> Filters, ip_filter_string |-> Filters,
   kafka |-> Object(KafkaKafka),
   kafka_authentication_methods |-> Object([certificate |-> Bool, sasl |-> Bool]),
   kafka_connect |-> Bool, kafka_connect_config |-> Object(KafkaKafkaConnectConfig),
   kafka_connect_plugin_versions |-> Items(
     [plugin_name |-> String, version |-> String]),
   kafka_connect_secret_providers |-> Items(KafkaKafkaConnectSecretProviders),
   kafka_diskless |-> Object([auto_diskless_topic_regexes |-> List, enabled |-> Bool]),
   kafka_rest |-> Bool, kafka_rest_authorization |-> Bool,
   kafka_rest_config |-> Object(KafkaKafkaRestConfig),
   kafka_sasl_mechanisms |-> Object(
     [plain |-> Bool, scram_sha_256 |-> Bool, scram_sha_512 |-> Bool]),
   kafka_version |-> String, karapace_version |-> String, letsencrypt_sasl |-> Bool,
   letsencrypt_sasl_privatelink |-> Bool, preferred_zones |-> List,
   private_access |-> Object(
     [kafka |-> Bool, kafka_connect |-> Bool, kafka_rest |-> Bool, prometheus |-> Bool,
      schema_registry |-> Bool]),
   privatelink_access |-> Object(
     [jolokia |-> Bool, kafka |-> Bool, kafka_connect |-> Bool, kafka_rest |-> Bool,
      prometheus |-> Bool, schema_registry |-> Bool]),
   public_access |-> Object(
     [kafka |-> Bool, kafka_connect |-> Bool, kafka_rest |-> Bool, prometheus |-> Bool,
      schema_registry |-> Bool]),
   sasl_oauthbearer_allowed_urls |-> List, schema_registry |-> Bool,
   schema_registry_config |-> Object(KafkaSchemaRegistryConfig), service_log |-> Bool,
   single_zone |-> Object([availability_zone |-> String, enabled |-> Bool]),
   static_ips |-> Bool,
   tiered_storage |-> Object(
     [enabled |-> Bool, local_cache |-> Object([size |-> Number])])]

KafkaConnectKafkaConnect ==
  [connector_client_config_override_policy |-> String,
   consumer_auto_offset_reset |-> String, consumer_fetch_max_bytes |-> Number,
   consumer_isolation_level |-> String, consumer_max_partition_fetch_bytes |-> Number,
   consumer_max_poll_interval_ms |-> Number, consumer_max_poll_records |-> Number,
   offset_flush_interval_ms |-> Number, offset_flush_timeout_ms |-> Number,
   prefer_ipv6_address_enable |-> Bool, producer_batch_size |-> Number,
   producer_buffer_memory |-> Number, producer_compression_type |-> String,
   producer_linger_ms |-> Number, producer_max_request_size |-> Number,
   scheduled_rebalance_max_delay_ms |-> Number, session_timeout_ms |-> Number]

KafkaConnectSecretProviders ==
  [aws |-> Object(
     [access_key |-> String, auth_method |-> String, region |-> String,
      secret_key |-> String]),
   azure |-> Object(
     [auth_method |-> String, client_id |-> String, secret |-> String,
      tenant_id |-> String]),
   env |-> Object([secrets |-> Map]), name |-> String,
   vault |-> Object(
     [address |-> String, auth_method |-> String, engine_version |-> Number,
      prefix_path_depth |-> Number, server_pem |-> String, token |-> String])]

KafkaConnect ==
  [additional_backup_regions |-> List, gcp_auth_allowed_urls |-> List,
   ip_filter |-> Filters, ip_filter_object |-> Filters, ip_filter_string |-> Filters,
   kafka_connect |-> Object(KafkaConnectKafkaConnect),
   plugin_versions |-> Items([plugin_name |-> String, version |-> String]),
   preferred_zones |-> List,
   private_access |-> Object([kafka_connect |-> Bool, prometheus |-> Bool]),
   privatelink_access |-> Object(
     [jolokia |-> Bool, kafka_connect |-> Bool, prometheus |-> Bool]),
   public_access |-> Object([kafka_connect |-> Bool, prometheus |-> Bool]),
   sasl_oauthbearer_allowed_urls |-> List,
   secret_providers |-> Items(KafkaConnectSecretProviders), service_log |-> Bool,
   static_ips |-> Bool]

KafkaMirrormakerKafkaMirrormaker ==
  [admin_timeout_ms |-> Number, emit_checkpoints_enabled |-> Bool,
   emit_checkpoints_interval_seconds |-> Number, groups |-> String,
   groups_exclude |-> String, offset_lag_max |-> Number,
   refresh_groups_enabled |-> Bool, refresh_groups_interval_seconds |-> Number,
   refresh_topics_enabled |-> Bool, refresh_topics_interval_seconds |-> Number,
   sync_group_offsets_enabled |-> Bool, sync_group_offsets_interval_seconds |-> Number,
   sync_topic_configs_enabled |-> Bool, tasks_max_per_cpu |-> Number]

KafkaMirrormaker ==
  [additional_backup_regions |-> List, ip_filter |-> Filters,
   ip_filter_object |-> Filters, ip_filter_string |-> Filters,
   kafka_mirrormaker |-> Object(KafkaMirrormakerKafkaMirrormaker),
   preferred_zones |-> List, sasl_oauthbearer_allowed_urls |-> List,
   service_log |-> Bool, static_ips |-> Bool]

MysqlMigration ==
  [dbname |-> String, dump_tool |-> String, host |-> String, ignore_dbs |-> String,
   ignore_roles |-> String, method |-> String, password |-> String, port |-> Number,
   reestablish_replication |-> Bool, ssl |-> Bool, username |-> String]

MysqlMysql ==
  [automatic_sp_privileges |-> Bool, connect_timeout |-> Number,
   default_time_zone |-> String, div_precision_increment |-> Number,
   end_markers_in_json |-> Bool, eq_range_index_dive_limit |-> Number,
   group_concat_max_len |-> Number, information_schema_stats_expiry |-> Number,
   innodb_adaptive_hash_index |-> Bool, innodb_change_buffer_max_size |-> Number,
   innodb_flush_neighbors |-> Number, innodb_ft_enable_stopword |-> Bool,
   innodb_ft_max_token_size |-> Number, innodb_ft_min_token_size |-> Number,
   innodb_ft_num_word_optimize |-> Number, innodb_ft_result_cache_limit |-> Number,
   innodb_ft_server_stopword_table |-> String, innodb_ft_user_stopword_table |-> String,
   innodb_io_capacity |-> Number, innodb_io_capacity_max |-> Number,
   innodb_lock_wait_timeout |-> Number, innodb_log_buffer_size |-> Number,
   innodb_online_alter_log_max_size |-> Number, innodb_optimize_fulltext_only |-> Bool,
   innodb_print_all_deadlocks |-> Bool, innodb_read_io_threads |-> Number,
   innodb_rollback_on_timeout |-> Bool, innodb_thread_concurrency |-> Number,
   innodb_write_io_threads |-> Number, interactive_timeout |-> Number,
   internal_tmp_mem_storage_engine |-> String, log_output |-> String,
   long_query_time |-> Number, lower_case_table_names |-> Replacing(Number),
   max_allowed_packet |-> Number, max_connections |-> Number,
   max_execution_time |-> Number, max_heap_table_size |-> Number,
   max_seeks_for_key |-> Number, max_user_connections |-> Number,
   net_buffer_length |-> Number, net_read_timeout |-> Number,
   net_write_timeout |-> Number, optimizer_prune_level |-> Number,
   optimizer_search_depth |-> Number, optimizer_switch |-> String,
   performance_schema_events_statements_history_size |-> Number,
   relay_log_space_limit |-> Number, slow_query_log |-> Bool,
   sort_buffer_size |-> Number, sql_mode |-> String, sql_require_primary_key |-> Bool,
   tmp_table_size |-> Number, wait_timeout |-> Number,
   windowing_use_high_precision |-> Bool]

Mysql ==
  [additional_backup_regions |-> List, admin_password |-> Created,
   admin_username |-> Created, backup_hour |-> Number, backup_minute |-> Number,
   binlog_retention_period |-> Number, ip_filter |-> Filters,
   ip_filter_object |-> Filters, ip_filter_string |-> Filters,
   migration |-> Object(MysqlMigration), mysql |-> Object(MysqlMysql),
   mysql_incremental_backup |-> Object(
     [enabled |-> Bool, full_backup_week_schedule |-> String]),
   mysql_version |-> String,
   private_access |-> Object([mysql |-> Bool, mysqlx |-> Bool, prometheus |-> Bool]),
   privatelink_access |-> Object(
     [mysql |-> Bool, mysqlx |-> Bool, prometheus |-> Bool]),
   project_to_fork_from |-> Replacing(String),
   public_access |-> Object([mysql |-> Bool, mysqlx |-> Bool, prometheus |-> Bool]),
   recovery_target_time |-> Replacing(String), service_log |-> Bool,
   service_to_fork_from |-> Replacing(String), static_ips |-> Bool]

Nomadclient ==
  [deployment_name |-> String, enable_ipv6 |-> Bool, ip_filter |-> Filters,
   ip_filter_object |-> Filters, ip_filter_string |-> Filters, service_log |-> Bool]

OpensearchAzureMigration ==
  [account |-> String, base_path |-> String, chunk_size |-> String, compress |-> Bool,
   container |-> String, endpoint_suffix |-> String, include_aliases |-> Bool,
   indices |-> String, key |-> String, max_restore_bytes_per_sec |-> String,
   max_snapshot_bytes_per_sec |-> String, readonly |-> Bool,
   restore_global_state |-> Bool, sas_token |-> String, snapshot_name |-> String]

OpensearchGcsMigration ==
  [base_path |-> String, bucket |-> String, chunk_size |-> String, compress |-> Bool,
   credentials |-> String, include_aliases |-> Bool, indices |-> String,
   max_restore_bytes_per_sec |-> String, max_snapshot_bytes_per_sec |-> String,
   readonly |-> Bool, restore_global_state |-> Bool, snapshot_name |-> String]

OpensearchJwt ==
  [enabled |-> Bool, jwt_clock_skew_tolerance_seconds |-> Number, jwt_header |-> String,
   jwt_url_parameter |-> String, required_audience |-> String,
   required_issuer |-> String, roles_key |-> String, signing_key |-> String,
   subject_key |-> String]

OpensearchOpenid ==
  [client_id |-> String, client_secret |-> String, connect_url |-> String,
   enabled |-> Bool, header |-> String, jwt_header |-> String,
   jwt_url_parameter |-> String, refresh_rate_limit_count |-> Number,
   refresh_rate_limit_time_window_ms |-> Number, roles_key |-> String, scope |-> String,
   subject_key |-> String]

OpensearchInternalAuthenticationBackendLimiting ==
  [allowed_tries |-> Number, authentication_backend |-> String,
   block_expiry_seconds |-> Number, max_blocked_clients |-> Number,
   max_tracked_clients |-> Number, time_window_seconds |-> Number, type |-> String]

OpensearchAuthFailureListeners ==
  [internal_authentication_backend_limiting |->
     Object(OpensearchInternalAuthenticationBackendLimiting),
   ip_rate_limiting |-> Object(
     [allowed_tries |-> Number, block_expiry_seconds |-> Number,
      max_blocked_clients |-> Number, max_tracked_clients |-> Number,
      time_window_seconds |-> Number, type |-> String])]

OpensearchSearchShardTask ==
  [cancellation_burst |-> Number, cancellation_rate |-> Number,
   cancellation_ratio |-> Number, cpu_time_millis_threshold |-> Number,
   elapsed_time_millis_threshold |-> Number, heap_moving_average_window_size |-> Number,
   heap_percent_threshold |-> Number, heap_variance |-> Number,
   total_heap_percent_threshold |-> Number]

OpensearchSearchTask ==
  [cancellation_burst |-> Number, cancellation_rate |-> Number,
   cancellation_ratio |-> Number, cpu_time_millis_threshold |-> Number,
   elapsed_time_millis_threshold |-> Number, heap_moving_average_window_size |-> Number,
   heap_percent_threshold |-> Number, heap_variance |-> Number,
   total_heap_percent_threshold |-> Number]

OpensearchSearchBackpressure ==
  [mode |-> String,
   node_duress |-> Object(
     [cpu_threshold |-> Number, heap_threshold |-> Number,
      num_successive_breaches |-> Number]),
   search_shard_task |-> Object(OpensearchSearchShardTask),
   search_task |-> Object(OpensearchSearchTask)]

OpensearchSearchInsightsTopQueries ==
  [cpu |-> Object([enabled |-> Bool, top_n_size |-> Number, window_size |-> String]),
   latency |-> Object(
     [enabled |-> Bool, top_n_size |-> Number, window_size |-> String]),
   memory |-> Object([enabled |-> Bool, top_n_size |-> Number, window_size |-> String])]

OpensearchShardIndexingPressure ==
  [enabled |-> Bool, enforced |-> Bool,
   operating_factor |-> Object(
     [lower |-> Number, optimal |-> Number, upper |-> Number]),
   primary_parameter |-> Object(
     [node |-> Object([soft_limit |-> Number]),
      shard |-> Object([min_limit |-> Number])])]

OpensearchOpensearch ==
  [action_auto_create_index_enabled |-> Bool, action_destructive_requires_name |-> Bool,
   auth_failure_listeners |-> Object(OpensearchAuthFailureListeners),
   cluster_filecache_remote_data_ratio |-> Number,
   cluster_max_shards_per_node |-> Number,
   cluster_remote_store |-> Object(
     [state_global_metadata_upload_timeout |-> String,
      state_metadata_manifest_upload_timeout |-> String,
      translog_buffer_interval |-> String, translog_max_readers |-> Number]),
   cluster_routing_allocation_balance_prefer_primary |-> Bool,
   cluster_routing_allocation_node_concurrent_recoveries |-> Number,
   cluster_search_request_slowlog |-> Object(
     [level |-> String,
      threshold |-> Object(
        [debug |-> String, info |-> String, trace |-> String, warn |-> String])]),
   disk_watermarks |-> Object(
     [flood_stage |-> Number, high |-> Number, low |-> Number]),
   email_sender_name |-> String, email_sender_password |-> String,
   email_sender_username |-> String, enable_remote_backed_storage |-> Bool,
   enable_searchable_snapshots |-> Bool, enable_security_audit |-> Bool,
   enable_snapshot_api |-> Bool, http_max_content_length |-> Number,
   http_max_header_size |-> Number, http_max_initial_line_length |-> Number,
   indices_fielddata_cache_size |-> Number, indices_memory_index_buffer_size |-> Number,
   indices_memory_max_index_buffer_size |-> Number,
   indices_memory_min_index_buffer_size |-> Number,
   indices_queries_cache_size |-> Number,
   indices_query_bool_max_clause_count |-> Number,
   indices_recovery_max_bytes_per_sec |-> Number,
   indices_recovery_max_concurrent_file_chunks |-> Number, ism_enabled |-> Bool,
   ism_history_enabled |-> Bool, ism_history_max_age |-> Number,
   ism_history_max_docs |-> Number, ism_history_rollover_check_period |-> Number,
   ism_history_rollover_retention_period |-> Number,
   knn_memory_circuit_breaker_enabled |-> Bool,
   knn_memory_circuit_breaker_limit |-> Number,
   ml_commons_connector_access_control_enabled |-> Bool,
   ml_commons_model_access_control_enabled |-> Bool,
   ml_commons_native_memory_threshold |-> Number,
   ml_commons_only_run_on_ml_node |-> Bool,
   ml_commons_trusted_connector_endpoints_regex |-> List,
   node_search_cache_size |-> String, override_main_response_version |-> Bool,
   plugins_alerting_filter_by_backend_roles |-> Bool, reindex_remote_whitelist |-> List,
   remote_store |-> Object(
     [segment_pressure_bytes_lag_variance_factor |-> Number,
      segment_pressure_consecutive_failures_limit |-> Number,
      segment_pressure_enabled |-> Bool,
      segment_pressure_time_lag_variance_factor |-> Number]),
   script_max_compilations_rate |-> String,
   search_backpressure |-> Object(OpensearchSearchBackpressure),
   search_insights_top_queries |-> Object(OpensearchSearchInsightsTopQueries),
   search_max_buckets |-> Number,
   segrep |-> Object(
     [pressure_checkpoint_limit |-> Number, pressure_enabled |-> Bool,
      pressure_replica_stale_limit |-> Number, pressure_time_limit |-> String]),
   shard_indexing_pressure |-> Object(OpensearchShardIndexingPressure),
   thread_pool_analyze_queue_size |-> Number, thread_pool_analyze_size |-> Number,
   thread_pool_force_merge_size |-> Number, thread_pool_get_queue_size |-> Number,
   thread_pool_get_size |-> Number, thread_pool_search_queue_size |-> Number,
   thread_pool_search_size |-> Number,
   thread_pool_search_throttled_queue_size |-> Number,
   thread_pool_search_throttled_size |-> Number,
   thread_pool_write_queue_size |-> Number, thread_pool_write_size |-> Number]

OpensearchS3Migration ==
  [access_key |-> String, base_path |-> String, bucket |-> String,
   chunk_size |-> String, compress |-> Bool, endpoint |-> String,
   include_aliases |-> Bool, indices |-> String, max_restore_bytes_per_sec |-> String,
   max_snapshot_bytes_per_sec |-> String, readonly |-> Bool, region |-> String,
   restore_global_state |-> Bool, secret_key |-> String,
   server_side_encryption |-> Bool, snapshot_name |-> String]

OpensearchSaml ==
  [enabled |-> Bool, idp_entity_id |-> String, idp_metadata_url |-> String,
   idp_pemtrustedcas_content |-> String, roles_key |-> String, sp_entity_id |-> String,
   subject_key |-> String]

Opensearch ==
  [additional_backup_regions |-> List,
   azure_migration |-> Object(OpensearchAzureMigration), custom_domain |-> String,
   disable_replication_factor_adjustment |-> Bool,
   gcs_migration |-> Object(OpensearchGcsMigration),
   index_patterns |-> Items(
     [max_index_count |-> Number, pattern |-> String, sorting_algorithm |-> String]),
   index_rollup |-> Object(
     [rollup_dashboards_enabled |-> Bool, rollup_enabled |-> Bool,
      rollup_search_backoff_count |-> Number, rollup_search_backoff_millis |-> Number,
      rollup_search_search_all_jobs |-> Bool]),
   index_template |-> Object(
     [mapping_nested_objects_limit |-> Number, number_of_replicas |-> Number,
      number_of_shards |-> Number]),
   ip_filter |-> Filters, ip_filter_object |-> Filters, ip_filter_string |-> Filters,
   jwt |-> Object(OpensearchJwt), keep_index_refresh_interval |-> Bool,
   max_index_count |-> Number, openid |-> Object(OpensearchOpenid),
   opensearch |-> Object(OpensearchOpensearch),
   opensearch_dashboards |-> Object(
     [enabled |-> Bool, max_old_space_size |-> Number,
      multiple_data_source_enabled |-> Bool, opensearch_request_timeout |-> Number,
      session_keepalive |-> Bool, session_ttl |-> String]),
   opensearch_version |-> String,
   private_access |-> Object(
     [opensearch |-> Bool, opensearch_dashboards |-> Bool, prometheus |-> Bool]),
   privatelink_access |-> Object(
     [opensearch |-> Bool, opensearch_dashboards |-> Bool, prometheus |-> Bool]),
   project_to_fork_from |-> Replacing(String),
   public_access |-> Object(
     [opensearch |-> Bool, opensearch_dashboards |-> Bool, prometheus |-> Bool]),
   recovery_basebackup_name |-> String, s3_migration |-> Object(OpensearchS3Migration),
   saml |-> Object(OpensearchSaml), service_log |-> Bool,
   service_to_fork_from |-> Replacing(String), static_ips |-> Bool]

PgMigration ==
  [dbname |-> String, host |-> String, ignore_dbs |-> String, ignore_roles |-> String,
   method |-> String, password |-> String, port |-> Number, ssl |-> Bool,
   username |-> String]

PgPg ==
  [autovacuum_analyze_scale_factor |-> Number, autovacuum_analyze_threshold |-> Number,
   autovacuum_freeze_max_age |-> Number, autovacuum_max_workers |-> Number,
   autovacuum_naptime |-> Number, autovacuum_vacuum_cost_delay |-> Number,
   autovacuum_vacuum_cost_limit |-> Number, autovacuum_vacuum_scale_factor |-> Number,
   autovacuum_vacuum_threshold |-> Number, bgwriter_delay |-> Number,
   bgwriter_flush_after |-> Number, bgwriter_lru_maxpages |-> Number,
   bgwriter_lru_multiplier |-> Number, deadlock_timeout |-> Number,
   default_toast_compression |-> String, idle_in_transaction_session_timeout |-> Number,
   io_combine_limit |-> Number, io_max_combine_limit |-> Number,
   io_max_concurrency |-> Number, io_method |-> String, io_workers |-> Number,
   jit |-> Bool, log_autovacuum_min_duration |-> Number, log_error_verbosity |-> String,
   log_line_prefix |-> String, log_min_duration_statement |-> Number,
   log_temp_files |-> Number, max_connections |-> Number,
   max_files_per_process |-> Number, max_locks_per_transaction |-> Number,
   max_logical_replication_workers |-> Number, max_parallel_workers |-> Number,
   max_parallel_workers_per_gather |-> Number,
   max_pred_locks_per_transaction |-> Number, max_prepared_transactions |-> Number,
   max_replication_slots |-> Number, max_slot_wal_keep_size |-> Number,
   max_stack_depth |-> Number, max_standby_archive_delay |-> Number,
   max_standby_streaming_delay |-> Number, max_sync_workers_per_subscription |-> Number,
   max_wal_senders |-> Number, max_worker_processes |-> Number,
   password_encryption |-> String, pg_partman_bgw__dot__interval |-> Number,
   pg_partman_bgw__dot__role |-> String,
   pg_stat_monitor__dot__pgsm_enable_query_plan |-> Bool,
   pg_stat_monitor__dot__pgsm_max_buckets |-> Number,
   pg_stat_plans__dot__track |-> String, pg_stat_statements__dot__track |-> String,
   synchronous_commit |-> String, temp_file_limit |-> Number, timezone |-> String,
   track_activity_query_size |-> Number, track_commit_timestamp |-> String,
   track_functions |-> String, track_io_timing |-> String,
   wal_sender_timeout |-> Number, wal_writer_delay |-> Number]

PgPgaudit ==
  [feature_enabled |-> Bool, log |-> List, log_catalog |-> Bool, log_client |-> Bool,
   log_level |-> String, log_max_string_length |-> Number,
   log_nested_statements |-> Bool, log_parameter |-> Bool,
   log_parameter_max_size |-> Number, log_relation |-> Bool, log_rows |-> Bool,
   log_statement |-> Bool, log_statement_once |-> Bool, role |-> String]

PgPgbouncer ==
  [autodb_idle_timeout |-> Number, autodb_max_db_connections |-> Number,
   autodb_pool_mode |-> String, autodb_pool_size |-> Number,
   ignore_startup_parameters |-> List, max_prepared_statements |-> Number,
   min_pool_size |-> Number, server_connect_timeout |-> Number,
   server_idle_timeout |-> Number, server_lifetime |-> Number,
   server_login_retry |-> Number, server_reset_query_always |-> Bool]

Pg ==
  [additional_backup_regions |-> List, admin_password |-> Created,
   admin_username |-> Created, backup_hour |-> Number, backup_interval_hours |-> Number,
   backup_minute |-> Number, backup_retention_days |-> Number,
   enable_ha_replica_dns |-> Bool, enable_ipv6 |-> Bool, ip_filter |-> Filters,
   ip_filter_object |-> Filters, ip_filter_string |-> Filters,
   migration |-> Object(PgMigration), node_count |-> Number, pg |-> Object(PgPg),
   pg_qualstats |-> Object(
     [enabled |-> Bool, min_err_estimate_num |-> Number,
      min_err_estimate_ratio |-> Number, track_constants |-> Bool,
      track_pg_catalog |-> Bool]),
   pg_read_replica |-> Bool, pg_service_to_fork_from |-> Replacing(String),
   pg_stat_monitor_enable |-> Bool, pg_stat_plans_enable |-> Bool,
   pg_version |-> String, pgaudit |-> Object(PgPgaudit),
   pgbouncer |-> Object(PgPgbouncer),
   pglookout |-> Object([max_failover_replication_time_lag |-> Number]),
   private_access |-> Object([pg |-> Bool, pgbouncer |-> Bool, prometheus |-> Bool]),
   privatelink_access |-> Object(
     [pg |-> Bool, pgbouncer |-> Bool, prometheus |-> Bool]),
   project_to_fork_from |-> Replacing(String),
   public_access |-> Object([pg |-> Bool, pgbouncer |-> Bool, prometheus |-> Bool]),
   recovery_target_time |-> Replacing(String), service_log |-> Bool,
   service_to_fork_from |-> Replacing(String), shared_buffers_percentage |-> Number,
   static_ips |-> Bool,
   switchover_windows |-> Items(
     [dow |-> String, end_time |-> String, start_time |-> String]),
   synchronous_replication |-> String,
   timescaledb |-> Object([max_background_workers |-> Number]), variant |-> String,
   work_mem |-> Number]

ThanosPublicAccess ==
  [compactor |-> Bool, query |-> Bool, query_frontend |-> Bool,
   receiver_ingesting |-> Bool, receiver_routing |-> Bool, ruler |-> Bool,
   store |-> Bool]

Thanos ==
  [compactor |-> Object([retention_days |-> Number]), env |-> Map,
   ip_filter |-> Filters, ip_filter_object |-> Filters, ip_filter_string |-> Filters,
   object_storage_usage_alert_threshold_gb |-> Number,
   private_access |-> Object([query_frontend |-> Bool, receiver_routing |-> Bool]),
   privatelink_access |-> Object([query_frontend |-> Bool, receiver_routing |-> Bool]),
   public_access |-> Object(ThanosPublicAccess),
   query |-> Object(
     [query_default_evaluation_interval |-> String, query_lookback_delta |-> String,
      query_metadata_default_time_range |-> String, query_timeout |-> String,
      store_limits_request_samples |-> Number, store_limits_request_series |-> Number]),
   query_frontend |-> Object([query_range_align_range_with_step |-> Bool]),
   receiver_ingesting |-> Map, receiver_routing |-> Map, ruler |-> Map,
   service_log |-> Bool, static_ips |-> Bool, store |-> Map]

ValkeyMigration ==
  [dbname |-> String, host |-> String, ignore_dbs |-> String, ignore_roles |-> String,
   method |-> String, password |-> String, port |-> Number, ssl |-> Bool,
   username |-> String]

Valkey ==
  [additional_backup_regions |-> List, backup_hour |-> Number, backup_minute |-> Number,
   enable_ipv6 |-> Bool, frequent_snapshots |-> Bool, ip_filter |-> Filters,
   ip_filter_object |-> Filters, ip_filter_string |-> Filters,
   migration |-> Object(ValkeyMigration),
   private_access |-> Object([prometheus |-> Bool, valkey |-> Bool]),
   privatelink_access |-> Object([prometheus |-> Bool, valkey |-> Bool]),
   project_to_fork_from |-> Replacing(String),
   public_access |-> Object([prometheus |-> Bool, valkey |-> Bool]),
   recovery_basebackup_name |-> String, service_log |-> Bool,
   service_to_fork_from |-> Replacing(String), static_ips |-> Bool,
   valkey_acl_channels_default |-> String, valkey_active_defrag_ignore_bytes |-> Number,
   valkey_active_defrag_threshold_lower |-> Number,
   valkey_active_expire_effort |-> Number, valkey_activedefrag |-> Bool,
   valkey_io_threads |-> Number, valkey_lfu_decay_time |-> Number,
   valkey_lfu_log_factor |-> Number, valkey_maxmemory_policy |-> String,
   valkey_notify_keyspace_events |-> String, valkey_number_of_databases |-> Number,
   valkey_persistence |-> String, valkey_pubsub_client_output_buffer_limit |-> Number,
   valkey_ssl |-> Bool, valkey_timeout |-> Number, valkey_version |-> String]

-----------------------------------------------------------------------------
(* The integrations.                                                       *)

AutoscalerServiceIntegration ==
  [autoscaling |-> Object([max_plan |-> String, min_plan |-> String])]

ClickhouseCredentialsIntegration == [grants |-> Items([user |-> String])]

ClickhouseKafkaIntegrationMaterializedView ==
  [database_name |-> String, engine |-> String, engine_params |-> List,
   local_disk_ttl_days |-> Number, order_by |-> List, ttl_column |-> String,
   ttl_days |-> Number, view_name |-> String]

ClickhouseKafkaIntegrationTables ==
  [auto_offset_reset |-> String, auto_offset_reset_by_duration_ms |-> Number,
   columns |-> Items([name |-> String, type |-> String]), data_format |-> String,
   date_time_input_format |-> String, group_name |-> String,
   handle_error_mode |-> String,
   materialized_view |-> Object(ClickhouseKafkaIntegrationMaterializedView),
   max_block_size |-> Number, max_rows_per_message |-> Number, name |-> String,
   num_consumers |-> Number, poll_max_batch_size |-> Number,
   poll_max_timeout_ms |-> Number, producer_batch_num_messages |-> Number,
   producer_batch_size |-> Number, producer_compression_codec |-> String,
   producer_compression_level |-> Number, producer_linger_ms |-> Number,
   producer_queue_buffering_max_kbytes |-> Number,
   producer_queue_buffering_max_messages |-> Number,
   producer_request_required_acks |-> Number, skip_broken_messages |-> Number,
   thread_per_consumer |-> Bool, topics |-> Items([name |-> String])]

ClickhouseKafkaIntegration == [tables |-> Items(ClickhouseKafkaIntegrationTables)]

ClickhousePostgresqlIntegration ==
  [databases |-> Items([database |-> String, schema |-> String])]

DatadogIntegration ==
  [datadog_dbm_enabled |-> Bool, datadog_function_metrics_enabled |-> Bool,
   datadog_pg_relations |-> Items(
     [relation_name |-> String, relation_regex |-> String, relkind |-> List,
      schemas |-> List]),
   datadog_pgbouncer_enabled |-> Bool,
   datadog_tags |-> Items([comment |-> String, tag |-> String]),
   exclude_consumer_groups |-> List, exclude_topics |-> List,
   include_consumer_groups |-> List, include_topics |-> List,
   kafka_custom_metrics |-> List, max_jmx_metrics |-> Number,
   mirrormaker_custom_metrics |-> List,
   opensearch |-> Object(
     [cluster_stats_enabled |-> Bool, index_stats_enabled |-> Bool,
      pending_task_stats_enabled |-> Bool, pshard_stats_enabled |-> Bool]),
   redis |-> Object([command_stats_enabled |-> Bool])]

ExternalAwsCloudwatchLogsIntegration == [selected_log_fields |-> List]

ExternalAwsCloudwatchMetricsIntegration ==
  [dropped_metrics |-> Items([field |-> String, metric |-> String]),
   extra_metrics |-> Items([field |-> String, metric |-> String])]

ExternalElasticsearchLogsIntegration == [selected_log_fields |-> List]

ExternalOpensearchLogsIntegration == [selected_log_fields |-> List]

FlinkExternalPostgresqlIntegration == [stringtype |-> String]

KafkaConnectIntegration ==
  [kafka_connect |-> Object(
     [config_storage_topic |-> String, group_id |-> String,
      offset_storage_topic |-> String, status_storage_topic |-> String])]

KafkaLogsIntegration == [kafka_topic |-> String, selected_log_fields |-> List]

KafkaMirrormakerIntegrationKafkaMirrormaker ==
  [consumer_auto_offset_reset |-> String, consumer_fetch_max_bytes |-> Number,
   consumer_fetch_max_wait_ms |-> Number, consumer_fetch_min_bytes |-> Number,
   consumer_max_partition_fetch_bytes |-> Number, consumer_max_poll_records |-> Number,
   consumer_receive_buffer_bytes |-> Number, consumer_request_timeout_ms |-> Number,
   producer_batch_size |-> Number, producer_buffer_memory |-> Number,
   producer_compression_type |-> String, producer_linger_ms |-> Number,
   producer_max_request_size |-> Number, producer_request_timeout_ms |-> Number,
   producer_send_buffer_bytes |-> Number]

KafkaMirrormakerIntegration ==
  [cluster_alias |-> String,
   kafka_mirrormaker |-> Object(KafkaMirrormakerIntegrationKafkaMirrormaker)]

LogsIntegration ==
  [elasticsearch_index_days_max |-> Number, elasticsearch_index_prefix |-> String,
   selected_log_fields |-> List]

MetricsIntegrationTelegraf ==
  [gather_event_waits |-> Bool, gather_file_events_stats |-> Bool,
   gather_index_io_waits |-> Bool, gather_info_schema_auto_inc |-> Bool,
   gather_innodb_metrics |-> Bool, gather_perf_events_statements |-> Bool,
   gather_process_list |-> Bool, gather_replica_status |-> Bool,
   gather_slave_status |-> Bool, gather_table_io_waits |-> Bool,
   gather_table_lock_waits |-> Bool, gather_table_schema |-> Bool,
   perf_events_statements_digest_text_limit |-> Number,
   perf_events_statements_limit |-> Number,
   perf_events_statements_time_limit |-> Number]

MetricsIntegrationSourceMysql == [telegraf |-> Object(MetricsIntegrationTelegraf)]

MetricsIntegration ==
  [database |-> String, retention_days |-> Number, ro_username |-> String,
   source_mysql |-> Object(MetricsIntegrationSourceMysql), username |-> String]

PrometheusIntegrationTelegraf ==
  [gather_event_waits |-> Bool, gather_file_events_stats |-> Bool,
   gather_index_io_waits |-> Bool, gather_info_schema_auto_inc |-> Bool,
   gather_innodb_metrics |-> Bool, gather_perf_events_statements |-> Bool,
   gather_process_list |-> Bool, gather_replica_status |-> Bool,
   gather_slave_status |-> Bool, gather_table_io_waits |-> Bool,
   gather_table_lock_waits |-> Bool, gather_table_schema |-> Bool,
   perf_events_statements_digest_text_limit |-> Number,
   perf_events_statements_limit |-> Number,
   perf_events_statements_time_limit |-> Number]

PrometheusIntegrationSourceMysql == [telegraf |-> Object(PrometheusIntegrationTelegraf)]

PrometheusIntegration == [source_mysql |-> Object(PrometheusIntegrationSourceMysql)]

RsyslogIntegration == [escape_newlines |-> Bool]

-----------------------------------------------------------------------------
(* The endpoints.                                                          *)

AutoscalerEndpoint == [autoscaling |-> Items([cap_gb |-> Number, type |-> String])]

DatadogEndpoint ==
  [datadog_api_key |-> String,
   datadog_tags |-> Items([comment |-> String, tag |-> String]),
   disable_consumer_stats |-> Bool, extra_tags_prefix |-> String,
   kafka_consumer_check_instances |-> Number, kafka_consumer_stats_timeout |-> Number,
   max_partition_contexts |-> Number, site |-> String]

ExternalAwsCloudwatchLogsEndpoint ==
  [access_key |-> String, log_group_name |-> String, region |-> String,
   secret_key |-> String]

ExternalAwsCloudwatchMetricsEndpoint ==
  [access_key |-> String, namespace |-> String, region |-> String,
   secret_key |-> String]

ExternalAwsS3Endpoint ==
  [access_key_id |-> String, secret_access_key |-> String, url |-> String]

ExternalAzureBlobStorageEndpoint ==
  [blob_path |-> String, connection_string |-> String, container |-> String]

ExternalClickhouseEndpoint ==
  [host |-> String, password |-> String, port |-> Number, username |-> String]

ExternalElasticsearchLogsEndpoint ==
  [ca |-> String, index_days_max |-> Number, index_prefix |-> String,
   timeout |-> Number, url |-> String]

ExternalGoogleCloudBigqueryEndpoint ==
  [project_id |-> String, service_account_credentials |-> String]

ExternalGoogleCloudLoggingEndpoint ==
  [log_id |-> String, project_id |-> String, service_account_credentials |-> String]

ExternalKafkaEndpoint ==
  [bootstrap_servers |-> String, sasl_mechanism |-> String,
   sasl_plain_password |-> String, sasl_plain_username |-> String,
   security_protocol |-> String, ssl_ca_cert |-> String, ssl_client_cert |-> String,
   ssl_client_key |-> String, ssl_endpoint_identification_algorithm |-> String]

ExternalMysqlEndpoint ==
  [host |-> String, password |-> String, port |-> Number, ssl_mode |-> String,
   ssl_root_cert |-> String, username |-> String]

ExternalObjectStorageConfigEndpoint ==
  [account_key |-> String, account_name |-> String, aws_access_key_id |-> String,
   aws_secret_access_key |-> String, bucket_name |-> String, credentials |-> String,
   host |-> String, port |-> Number, prefix |-> String, project_id |-> String,
   region |-> String, storage_type |-> String]

ExternalOpensearchLogsEndpoint ==
  [ca |-> String, index_days_max |-> Number, index_prefix |-> String,
   timeout |-> Number, url |-> String]

ExternalPostgresqlEndpoint ==
  [default_database |-> String, host |-> String, password |-> String, port |-> Number,
   ssl_client_certificate |-> String, ssl_client_key |-> String, ssl_mode |-> String,
   ssl_root_cert |-> String, username |-> String]

ExternalPrometheusEndpoint ==
  [basic_auth_password |-> String, basic_auth_username |-> String,
   service_uri |-> String]

ExternalSchemaRegistryEndpoint ==
  [authentication |-> String, basic_auth_password |-> String,
   basic_auth_username |-> String, url |-> String]

JolokiaEndpoint == [basic_auth_password |-> String, basic_auth_username |-> String]

OpentelemetryEndpoint ==
  [attributes |-> Map, compression |-> String, encoding_type |-> String,
   filter_measurements |-> List, headers |-> Map, override_measurements |-> Map,
   service_address |-> String, timeout |-> Number]

PrometheusEndpoint == [basic_auth_password |-> String, basic_auth_username |-> String]

RsyslogEndpoint ==
  [ca |-> String, cert |-> String, escape_newlines |-> Bool, format |-> String,
   key |-> String, logline |-> String, max_message_size |-> Number, port |-> Number,
   sd |-> String, server |-> String, tls |-> Bool]

-----------------------------------------------------------------------------
ServiceConfigs ==
  {Application, Clickhouse, Dragonfly, Flink, Grafana, Kafka, KafkaConnect,
   KafkaMirrormaker, Mysql, Nomadclient, Opensearch, Pg, Thanos, Valkey}

IntegrationConfigs ==
  {AutoscalerServiceIntegration, ClickhouseCredentialsIntegration,
   ClickhouseKafkaIntegration, ClickhousePostgresqlIntegration, DatadogIntegration,
   ExternalAwsCloudwatchLogsIntegration, ExternalAwsCloudwatchMetricsIntegration,
   ExternalElasticsearchLogsIntegration, ExternalOpensearchLogsIntegration,
   FlinkExternalPostgresqlIntegration, KafkaConnectIntegration, KafkaLogsIntegration,
   KafkaMirrormakerIntegration, LogsIntegration, MetricsIntegration,
   PrometheusIntegration, RsyslogIntegration}

EndpointConfigs ==
  {AutoscalerEndpoint, DatadogEndpoint, ExternalAwsCloudwatchLogsEndpoint,
   ExternalAwsCloudwatchMetricsEndpoint, ExternalAwsS3Endpoint,
   ExternalAzureBlobStorageEndpoint, ExternalClickhouseEndpoint,
   ExternalElasticsearchLogsEndpoint, ExternalGoogleCloudBigqueryEndpoint,
   ExternalGoogleCloudLoggingEndpoint, ExternalKafkaEndpoint, ExternalMysqlEndpoint,
   ExternalObjectStorageConfigEndpoint, ExternalOpensearchLogsEndpoint,
   ExternalPostgresqlEndpoint, ExternalPrometheusEndpoint,
   ExternalSchemaRegistryEndpoint, JolokiaEndpoint, OpentelemetryEndpoint,
   PrometheusEndpoint, RsyslogEndpoint}

UserConfigFields ==
  UNION {Object(config) : config \in ServiceConfigs \cup IntegrationConfigs \cup EndpointConfigs}
===============================================================================
